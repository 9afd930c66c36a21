--------------------------- MODULE FiguresProofs ---------------------------
(***************************************************************************)
(* What the reconciliation of a snapshot pair promises, for any files of   *)
(* any members, teams and counters, and any thresholds and largest sum;    *)
(* what projections promise for any totals and rates; that the sort of a   *)
(* publish sorts any scores, and that ranks, ties, movement and searches   *)
(* say what they should of them; and the properties of MCFigures that the  *)
(* run checks of these.                                                    *)
(***************************************************************************)
EXTENDS MCFigures, SumTheorems

-----------------------------------------------------------------------------
(* Sums over the rows of a file. *)

\* A file of rows for some of the entities.
IsFile(file, E) == IsFiniteSet(E) /\ file \in [E -> Row \cup {Absent}]

\* A column of the whole file, of which Total sums a part.
Values(file, c) ==
  [e \in DOMAIN file |-> IF file[e] # Absent THEN file[e][c] ELSE 0]

LEMMA FilesAreFiles ==
  /\ \A file \in TeamFile : IsFile(file, Teams)
  /\ \A file \in UserFile : IsFile(file, Members)
BY FiniteAssumption DEF IsFile, TeamFile, UserFile

LEMMA PresentRows ==
  ASSUME NEW E, NEW file, IsFile(file, E), NEW c \in Counters
  PROVE  /\ IsFiniteSet(Present(file)) /\ Present(file) \subseteq E
         /\ \A e \in Present(file) : file[e] \in Row /\ file[e][c] \in Int
         /\ \A e \in Present(file) : Values(file, c)[e] = file[e][c]
<1>1. DOMAIN file = E
  BY DEF IsFile
<1>2. Present(file) \subseteq E /\ \A e \in Present(file) : file[e] \in Row
  BY <1>1 DEF IsFile, Present
<1>3. \A e \in Present(file) : file[e][c] \in Int
  BY <1>2 DEF Row
<1>4. \A e \in Present(file) : Values(file, c)[e] = file[e][c]
  BY DEF Values, Present
<1>5. IsFiniteSet(Present(file))
  BY <1>2, FS_Subset DEF IsFile
<1> QED
  BY <1>2, <1>3, <1>4, <1>5

LEMMA TotalIsSum ==
  ASSUME NEW E, NEW file, IsFile(file, E), NEW c \in Counters, NEW S \in SUBSET Present(file)
  PROVE  /\ Total(file, S, c) = SumFunctionOnSet(Values(file, c), S)
         /\ Total(file, S, c) \in Int
<1> DEFINE column == [e \in S |-> file[e][c]]
<1>1. IsFiniteSet(S) /\ \A e \in S : file[e][c] \in Int /\ Values(file, c)[e] = file[e][c]
  BY PresentRows, FS_Subset
<1>2. Total(file, S, c) = SumFunctionOnSet(column, DOMAIN column)
  BY DEF Total, Column, SumFunction
<1>3. DOMAIN column = S /\ \A e \in S : column[e] \in Int /\ column[e] = Values(file, c)[e]
  BY <1>1
<1> HIDE DEF column
<1>4. SumFunctionOnSet(column, S) = SumFunctionOnSet(Values(file, c), S)
  BY <1>1, <1>3, SumOfEquals
<1>5. SumFunctionOnSet(column, S) \in Int
  BY <1>1, <1>3, SumIsInt
<1> QED
  BY <1>2, <1>3, <1>4, <1>5

\* A part of a column that does not overflow fits as well.
LEMMA PartFits ==
  ASSUME NEW E, NEW file, IsFile(file, E), NEW c \in Counters,
         NEW S \in SUBSET Present(file), ~ Overflows(file, S, c), NEW T \in SUBSET S
  PROVE  Total(file, T, c) <= MaxSum
<1>1. IsFiniteSet(S) /\ \A e \in S : Values(file, c)[e] \in Nat
  BY PresentRows, FS_Subset DEF Overflows
<1>2. SumFunctionOnSet(Values(file, c), T) <= SumFunctionOnSet(Values(file, c), S)
  BY <1>1, SumOfPartIsLess
<1>3. /\ Total(file, T, c) = SumFunctionOnSet(Values(file, c), T)
      /\ Total(file, S, c) = SumFunctionOnSet(Values(file, c), S)
      /\ Total(file, T, c) \in Int /\ Total(file, S, c) \in Int
  BY TotalIsSum
<1>4. Total(file, S, c) <= MaxSum
  BY <1>3, ThresholdAssumption DEF Overflows
<1> QED
  BY <1>2, <1>3, <1>4, ThresholdAssumption

\* An empty roster claims nothing.
LEMMA NoneClaimNothing ==
  ASSUME NEW file, NEW c
  PROVE  Total(file, {}, c) = 0
<1> DEFINE column == [e \in {} |-> file[e][c]]
<1>1. Total(file, {}, c) = SumFunctionOnSet(column, DOMAIN column)
  BY DEF Total, Column, SumFunction
<1>2. DOMAIN column = {}
  OBVIOUS
<1> QED
  BY <1>1, <1>2, SumEmpty

LEMMA RosterIsPresent ==
  ASSUME NEW users \in UserFile, NEW t, NEW c \in Counters
  PROVE  Roster(users, t) \in SUBSET Present(users) /\ Claimed(users, t, c) \in Int
<1>1. Roster(users, t) \in SUBSET Present(users)
  BY DEF Roster
<1> QED
  BY <1>1, TotalIsSum, FilesAreFiles DEF Claimed

\* What a team of an accepted file has is a sum like any other.
LEMMA AuthoritativeFits ==
  ASSUME NEW teams \in TeamFile, ValidFile(teams), NEW t \in Teams, NEW c \in Counters
  PROVE  Authoritative(teams, t, c) \in Nat /\ Authoritative(teams, t, c) <= MaxSum
<1>1. CASE t \notin Present(teams)
  BY <1>1, ThresholdAssumption DEF Authoritative
<1>2. CASE t \in Present(teams)
  <2>1. IsFile(teams, Teams) /\ ~ Overflows(teams, Present(teams), c)
    BY FilesAreFiles DEF ValidFile
  <2>2. Total(teams, {t}, c) <= MaxSum
    BY <1>2, <2>1, PartFits
  <2>3. teams[t][c] \in Nat /\ Values(teams, c)[t] = teams[t][c]
    BY <1>2, <2>1, PresentRows DEF Overflows
  <2>4. Total(teams, {t}, c) = SumFunctionOnSet(Values(teams, c), {t})
    BY <1>2, <2>1, TotalIsSum
  <2>5. SumFunctionOnSet(Values(teams, c), {t}) = teams[t][c]
    <3>1. IsFiniteSet({t}) /\ {t} \ {t} = {}
      BY FS_Singleton
    <3>2. SumFunctionOnSet(Values(teams, c), {t})
            = Values(teams, c)[t] + SumFunctionOnSet(Values(teams, c), {t} \ {t})
      BY <2>3, <3>1, SumTakeOut
    <3>3. SumFunctionOnSet(Values(teams, c), {t} \ {t}) = 0
      BY <3>1, SumEmpty
    <3> QED
      BY <2>3, <3>2, <3>3
  <2> QED
    BY <1>2, <2>2, <2>3, <2>4, <2>5 DEF Authoritative
<1> QED
  BY <1>1, <1>2

-----------------------------------------------------------------------------
(* Who is dropped. *)

LEMMA AdmittedRows ==
  ASSUME NEW teams, NEW users \in UserFile
  PROVE  /\ Admitted(teams, users) \in UserFile
         /\ Present(Admitted(teams, users)) \subseteq Present(users)
         /\ \A m \in Members :
              m \in Present(Admitted(teams, users)) <=>
                m \in Present(users) /\ TeamOf[m] \notin Quarantined(teams, users)
         /\ \A m \in Present(Admitted(teams, users)) : Admitted(teams, users)[m] = users[m]
<1>1. users \in [Members -> Row \cup {Absent}]
  BY DEF UserFile
<1>2. Admitted(teams, users) =
        [m \in Members |->
          IF TeamOf[m] \in Quarantined(teams, users) THEN Absent ELSE users[m]]
  BY DEF Admitted
<1>3. Admitted(teams, users) \in UserFile
  BY <1>1, <1>2 DEF UserFile
<1> QED
  BY <1>1, <1>2, <1>3 DEF Present

\* A kept team that has rows claims its score and the tolerance at most, and no
\* column of them is below zero or more than it has where the corpus overflows.
LEMMA KeptTeams ==
  ASSUME NEW teams \in TeamFile, ValidFile(teams), NEW users \in UserFile,
         NEW t \in Teams, t \notin Quarantined(teams, users), Roster(users, t) # {}
  PROVE  /\ Claimed(users, t, Score) <= Authoritative(teams, t, Score) + Tolerance
         /\ \A c \in Counters :
              /\ ~ Overflows(users, Roster(users, t), c)
              /\ Overflows(users, Present(users), c) =>
                   Claimed(users, t, c) <= Authoritative(teams, t, c)
<1>1. /\ Claimed(users, t, Score) \in Int /\ Authoritative(teams, t, Score) \in Nat
      /\ WarnAt \in Nat /\ Tolerance \in Nat /\ WarnAt <= Tolerance
  BY RosterIsPresent, AuthoritativeFits, CountersAssumption, ThresholdAssumption
<1>2. ~ Overflow(teams, users, t)
  BY DEF Quarantined, Reported
<1>3. ~ Excess(teams, users, t) > Tolerance
  BY <1>1 DEF Quarantined, Reported, Excess
<1>4. Claimed(users, t, Score) <= Authoritative(teams, t, Score) + Tolerance
  BY <1>1, <1>3 DEF Excess
<1>5. ASSUME NEW c \in Counters
      PROVE  /\ ~ Overflows(users, Roster(users, t), c)
             /\ Overflows(users, Present(users), c) =>
                  Claimed(users, t, c) <= Authoritative(teams, t, c)
  <2>1. Claimed(users, t, c) \in Int /\ Authoritative(teams, t, c) \in Nat
    BY RosterIsPresent, AuthoritativeFits
  <2> QED
    BY <1>2, <2>1 DEF Overflow
<1> QED
  BY <1>4, <1>5

\* The rows of a kept team are all admitted, and of a dropped team none.
LEMMA AdmittedRosters ==
  ASSUME NEW teams \in TeamFile, NEW users \in UserFile, NEW t \in Teams
  PROVE  Roster(Admitted(teams, users), t) =
           IF t \in Quarantined(teams, users) THEN {} ELSE Roster(users, t)
<1>1. Present(users) \subseteq Members /\ Present(Admitted(teams, users)) \subseteq Members
  BY AdmittedRows DEF Present, UserFile
<1> QED
  BY <1>1, AdmittedRows DEF Roster

\* An admitted row counts for what it was before.
LEMMA AdmittedTotals ==
  ASSUME NEW teams \in TeamFile, NEW users \in UserFile, NEW c \in Counters,
         NEW S \in SUBSET Present(Admitted(teams, users))
  PROVE  Total(Admitted(teams, users), S, c) = Total(users, S, c)
<1>1. Column(Admitted(teams, users), S, c) = Column(users, S, c)
  BY AdmittedRows DEF Column
<1> QED
  BY <1>1 DEF Total

\* Every admitted row is of a kept team.
LEMMA AdmittedAreKept ==
  ASSUME NEW teams \in TeamFile, NEW users \in UserFile,
         NEW m \in Present(Admitted(teams, users))
  PROVE  /\ m \in Members /\ TeamOf[m] \in Teams /\ m \in Present(users)
         /\ TeamOf[m] \notin Quarantined(teams, users)
         /\ m \in Roster(users, TeamOf[m]) /\ Admitted(teams, users)[m] = users[m]
<1>1. m \in Members
  BY AdmittedRows DEF Present, UserFile
<1> QED
  BY <1>1, AdmittedRows, TeamOfAssumption DEF Roster

-----------------------------------------------------------------------------
(* What is left when the corpus overflows: of each kept team no more than the *)
(* team has, and what the teams have fits.                                    *)

LEMMA TeamsFit ==
  ASSUME NEW teams \in TeamFile, ValidFile(teams), NEW c \in Counters
  PROVE  SumFunctionOnSet([t \in Teams |-> Authoritative(teams, t, c)], Teams) <= MaxSum
<1> DEFINE auth == [t \in Teams |-> Authoritative(teams, t, c)]
           P == Present(teams)
<1>1. /\ IsFile(teams, Teams) /\ ~ Overflows(teams, P, c)
      /\ IsFiniteSet(Teams) /\ IsFiniteSet(P) /\ P \in SUBSET Teams /\ IsFiniteSet(Teams \ P)
  <2>1. IsFile(teams, Teams) /\ ~ Overflows(teams, P, c) /\ IsFiniteSet(Teams)
    BY FilesAreFiles, FiniteAssumption DEF ValidFile
  <2> QED
    BY <2>1, PresentRows, FS_Subset
<1>2. \A t \in Teams : auth[t] \in Nat
  BY AuthoritativeFits
<1>3. \A t \in P : auth[t] = Values(teams, c)[t]
  BY <1>1, PresentRows DEF Authoritative
<1>4. \A t \in Teams \ P : auth[t] = 0
  BY DEF Authoritative
<1> HIDE DEF auth, P
<1>5. SumFunctionOnSet(auth, Teams) = SumFunctionOnSet(auth, P) + SumFunctionOnSet(auth, Teams \ P)
  BY <1>1, <1>2, SumOfParts
<1>6. SumFunctionOnSet(auth, Teams \ P) = 0
  BY <1>1, <1>4, SumOfZeros
<1>7. SumFunctionOnSet(auth, P) = SumFunctionOnSet(Values(teams, c), P)
  <2>1. \A t \in P : auth[t] \in Int
    BY <1>1, <1>2
  <2> QED
    BY <1>1, <1>3, <2>1, SumOfEquals
<1>8. /\ SumFunctionOnSet(Values(teams, c), P) \in Int
      /\ SumFunctionOnSet(Values(teams, c), P) <= MaxSum
  BY <1>1, TotalIsSum, PartFits DEF P
<1> QED
  BY <1>5, <1>6, <1>7, <1>8 DEF auth

\* What is admitted is of kept teams, each of which claims what it has at most.
LEMMA KeptFit ==
  ASSUME NEW teams \in TeamFile, ValidFile(teams), NEW users \in UserFile, NEW c \in Counters,
         Overflows(users, Present(users), c)
  PROVE  Total(users, Present(Admitted(teams, users)), c) <= MaxSum
<1> DEFINE P == Present(Admitted(teams, users))
           f == Values(users, c)
           group == [m \in P |-> TeamOf[m]]
           auth == [t \in Teams |-> Authoritative(teams, t, c)]
           kept == [t \in Teams |-> SumFunctionOnSet(f, {m \in P : group[m] = t})]
<1>1. P \in SUBSET Present(users) /\ IsFiniteSet(P) /\ IsFiniteSet(Teams)
  BY AdmittedRows, FilesAreFiles, PresentRows, FS_Subset, FiniteAssumption
<1>2. \A m \in P : f[m] \in Int /\ group[m] \in Teams
  BY <1>1, AdmittedAreKept, FilesAreFiles, PresentRows
<1>3. GroupTotals(f, P, group, kept, Teams)
  BY <1>1, <1>2 DEF GroupTotals
<1>4. Total(users, P, c) = SumFunctionOnSet(kept, Teams)
  <2>1. Total(users, P, c) = SumFunctionOnSet(f, P)
    BY <1>1, FilesAreFiles, TotalIsSum
  <2>2. SumFunctionOnSet(f, P) = SumFunctionOnSet(kept, Teams)
    BY <1>3, SumOfGroups
  <2> QED
    BY <2>1, <2>2
<1>5. ASSUME NEW t \in Teams
      PROVE  kept[t] \in Int /\ auth[t] \in Int /\ kept[t] <= auth[t]
  <2>1. auth[t] \in Nat /\ auth[t] = Authoritative(teams, t, c)
    BY AuthoritativeFits
  <2> DEFINE mine == {m \in P : group[m] = t}
  <2>2. kept[t] = SumFunctionOnSet(f, mine)
    OBVIOUS
  <2> HIDE DEF kept, auth
  <2>3. CASE mine = {}
    <3> HIDE DEF mine
    <3>1. SumFunctionOnSet(f, mine) = 0
      BY <2>3, SumEmpty
    <3> QED
      BY <2>1, <2>2, <3>1
  <2>4. CASE mine # {}
    <3>1. t \notin Quarantined(teams, users) /\ Roster(users, t) # {}
      BY <2>4, AdmittedAreKept
    <3>2. mine = Roster(users, t)
      BY <1>1, <3>1, AdmittedRosters DEF Roster
    <3>3. Claimed(users, t, c) <= Authoritative(teams, t, c)
      BY <3>1, KeptTeams
    <3>4. /\ Claimed(users, t, c) = SumFunctionOnSet(f, Roster(users, t))
          /\ Claimed(users, t, c) \in Int
      BY RosterIsPresent, FilesAreFiles, TotalIsSum DEF Claimed
    <3> HIDE DEF mine, f
    <3>5. kept[t] = Claimed(users, t, c)
      BY <2>2, <3>2, <3>4
    <3> QED
      BY <2>1, <3>3, <3>4, <3>5
  <2> QED
    BY <2>3, <2>4
<1> HIDE DEF P, f, group, kept, auth
<1>6. SumFunctionOnSet(kept, Teams) <= SumFunctionOnSet(auth, Teams)
  BY <1>1, <1>5, SumOrdered
<1>7. SumFunctionOnSet(auth, Teams) <= MaxSum
  BY TeamsFit DEF auth
<1>8. /\ SumFunctionOnSet(kept, Teams) \in Int /\ SumFunctionOnSet(auth, Teams) \in Int
      /\ MaxSum \in Int
  BY <1>1, <1>5, SumIsInt, ThresholdAssumption
<1> QED
  BY <1>4, <1>6, <1>7, <1>8 DEF P

-----------------------------------------------------------------------------
(* The three promises of reconcile.go, for any files.                        *)

\* A pair whose team file fits is accepted, whatever its member rows claim
\* (Reconcile, DropTeams and ValidateSnapshot).
THEOREM MembersNeverReject ==
  ASSUME NEW teams \in TeamFile, NEW users \in UserFile, ValidFile(teams)
  PROVE  Accepts(teams, users)
<1> DEFINE file == Admitted(teams, users)
<1>1. SUFFICES ASSUME NEW c \in Counters PROVE ~ Overflows(file, Present(file), c)
  BY DEF Accepts, ValidFile
<1>2. ASSUME NEW m \in Present(file), file[m][c] < 0 PROVE FALSE
  <2>1. /\ TeamOf[m] \in Teams /\ TeamOf[m] \notin Quarantined(teams, users)
        /\ m \in Roster(users, TeamOf[m]) /\ file[m] = users[m]
    BY AdmittedAreKept
  <2>2. ~ Overflows(users, Roster(users, TeamOf[m]), c)
    BY <2>1, KeptTeams
  <2> QED
    BY <1>2, <2>1, <2>2 DEF Overflows
<1>3. Total(file, Present(file), c) = Total(users, Present(file), c)
  BY AdmittedTotals
<1>4. /\ IsFile(users, Members) /\ Present(file) \in SUBSET Present(users)
      /\ Total(users, Present(file), c) \in Int
  BY FilesAreFiles, AdmittedRows, TotalIsSum
<1>5. Total(users, Present(file), c) <= MaxSum
  <2>1. CASE Overflows(users, Present(users), c)
    BY <2>1, KeptFit
  <2>2. CASE ~ Overflows(users, Present(users), c)
    BY <1>4, <2>2, PartFits
  <2> QED
    BY <2>1, <2>2
<1>6. ~ Total(file, Present(file), c) > MaxSum
  BY <1>3, <1>4, <1>5, ThresholdAssumption
<1> QED
  BY <1>2, <1>6 DEF Overflows

\* The members that a cycle is applied with hold no more than the tolerance above
\* the score of their team (ReconcileTolerance).
THEOREM ForgedRowsAreCapped ==
  ASSUME NEW teams \in TeamFile, NEW users \in UserFile, ValidFile(teams), NEW t \in Teams
  PROVE  Claimed(Admitted(teams, users), t, Score) <= Authoritative(teams, t, Score) + Tolerance
<1> DEFINE file == Admitted(teams, users)
<1>1. Authoritative(teams, t, Score) \in Nat /\ Tolerance \in Nat
  BY AuthoritativeFits, CountersAssumption, ThresholdAssumption
<1>2. CASE Roster(file, t) = {}
  <2>1. Claimed(file, t, Score) = 0
    BY <1>2, NoneClaimNothing DEF Claimed
  <2> QED
    BY <1>1, <2>1
<1>3. CASE Roster(file, t) # {}
  <2>1. /\ t \notin Quarantined(teams, users) /\ Roster(users, t) # {}
        /\ Roster(file, t) = Roster(users, t)
    BY <1>3, AdmittedRosters
  <2>2. Claimed(file, t, Score) = Claimed(users, t, Score)
    <3>1. Roster(file, t) \in SUBSET Present(file)
      BY DEF Roster
    <3>2. Total(file, Roster(file, t), Score) = Total(users, Roster(file, t), Score)
      BY <3>1, AdmittedTotals, CountersAssumption
    <3> QED
      BY <2>1, <3>2 DEF Claimed
  <2> QED
    BY <2>1, <2>2, KeptTeams
<1> QED
  BY <1>2, <1>3

\* A team whose rows are no negative number and claim no more than it has keeps
\* them, whatever others claim (Reconcile).
THEOREM HonestRowsAreKept ==
  ASSUME NEW teams \in TeamFile, NEW users \in UserFile, ValidFile(teams), NEW t \in Teams,
         \A c \in Counters : /\ \A m \in Roster(users, t) : users[m][c] >= 0
                             /\ Claimed(users, t, c) <= Authoritative(teams, t, c)
  PROVE  t \notin Quarantined(teams, users)
<1>1. \A c \in Counters :
        /\ Claimed(users, t, c) \in Int /\ Authoritative(teams, t, c) \in Nat
        /\ Authoritative(teams, t, c) <= MaxSum /\ MaxSum \in Nat
  BY RosterIsPresent, AuthoritativeFits, ThresholdAssumption
<1>2. ASSUME NEW c \in Counters PROVE ~ Overflows(users, Roster(users, t), c)
  <2>1. \A m \in Roster(users, t) : users[m][c] \in Int
    BY RosterIsPresent, FilesAreFiles, PresentRows
  <2>2. \A m \in Roster(users, t) : ~ users[m][c] < 0
    BY <2>1
  <2>3. ~ Claimed(users, t, c) > MaxSum
    BY <1>1
  <2> QED
    BY <2>2, <2>3 DEF Overflows, Claimed
<1>3. ~ Overflow(teams, users, t)
  BY <1>1, <1>2 DEF Overflow
<1>4. ~ Excess(teams, users, t) > Tolerance
  BY <1>1, CountersAssumption, ThresholdAssumption DEF Excess
<1> QED
  BY <1>3, <1>4 DEF Quarantined

-----------------------------------------------------------------------------
(* The run: a pair is answered by what reconciliation makes of it.           *)

PairInv ==
  subject = "pair" =>
    /\ input.teams \in TeamFile /\ input.users \in UserFile
    /\ \/ answer = Pending
       \/ answer = IF Accepts(input.teams, input.users)
                   THEN Admitted(input.teams, input.users) ELSE Absent

LEMMA PairsAreFiles ==
  ASSUME NEW x \in Pairs
  PROVE  x.teams \in TeamFile /\ x.users \in UserFile
<1>1. Rows({-1, 0, 2, 4}, {0, 2}) \subseteq Row /\ Rows({-1, 1, 3, 4}, {0, 3}) \subseteq Row
  BY DEF Rows, Row
<1> QED
  BY <1>1 DEF Pairs, TeamFile, UserFile

LEMMA PairInvInit == Init => PairInv
<1> SUFFICES ASSUME Init, subject = "pair" PROVE PairInv
  BY DEF PairInv
<1>1. \E x \in Pairs : Given("pair", x)
  BY DEF Init, Given
<1> QED
  BY <1>1, PairsAreFiles DEF PairInv, Given

\* The other algorithms are asked of other subjects.
LEMMA OthersAnswerOthers ==
  ASSUME Ranked \/ Paged \/ Listed \/ Polled \/ Charted \/ Searched \/ Projected \/ Read
           \/ Queried \/ Metered
  PROVE  subject # "pair" /\ subject' = subject
<1>1. \A s, x : Answers(s, x) => subject = s /\ subject' = subject
  BY DEF Answers
<1>2. CASE Ranked
  BY <1>1, <1>2 DEF Ranked
<1>3. CASE Paged
  BY <1>1, <1>3 DEF Paged
<1>4. CASE Listed
  BY <1>1, <1>4 DEF Listed
<1>5. CASE Polled
  BY <1>1, <1>5 DEF Polled
<1>6. CASE Charted
  BY <1>1, <1>6 DEF Charted
<1>7. CASE Searched
  BY <1>1, <1>7 DEF Searched
<1>8. CASE Projected
  BY <1>1, <1>8 DEF Projected
<1>9. CASE Read
  BY <1>1, <1>9 DEF Read
<1>10. CASE Queried
  BY <1>1, <1>10 DEF Queried
<1>11. CASE Metered
  BY <1>1, <1>11 DEF Metered
<1> QED
  BY <1>2, <1>3, <1>4, <1>5, <1>6, <1>7, <1>8, <1>9, <1>10, <1>11

LEMMA PairInvStep == PairInv /\ [Next]_vars => PairInv'
<1> SUFFICES ASSUME PairInv, [Next]_vars PROVE PairInv'
  OBVIOUS
<1>1. CASE Reconciled
  BY <1>1 DEF PairInv, Reconciled, Answers
<1>2. CASE Ranked \/ Paged \/ Listed \/ Polled \/ Charted \/ Searched \/ Projected \/ Read
             \/ Queried \/ Metered
  BY <1>2, OthersAnswerOthers DEF PairInv
<1>3. CASE UNCHANGED vars
  BY <1>3 DEF PairInv, vars
<1> QED
  BY <1>1, <1>2, <1>3 DEF Next

LEMMA PairsAreAnswered == Spec => []PairInv
BY PairInvInit, PairInvStep, PTL DEF Spec

\* A pair is rejected for its team file only: no row of the user feed costs anyone
\* else the cycle (reconcile.go, as applyCycle of service.go chains it).
THEOREM NoRowRejects == Spec => []OnlyTheTeamFileRejects
<1>1. PairInv => OnlyTheTeamFileRejects
  <2> SUFFICES ASSUME PairInv, subject = "pair", answer = Absent
               PROVE  ~ ValidFile(input.teams)
    BY DEF OnlyTheTeamFileRejects
  <2>1. input.teams \in TeamFile /\ input.users \in UserFile
    BY DEF PairInv
  <2>2. Admitted(input.teams, input.users) # Absent
    BY <2>1, AdmittedRows, PendingAssumption
  <2>3. ~ Accepts(input.teams, input.users)
    BY <2>2, PendingAssumption DEF PairInv
  <2> QED
    BY <2>1, <2>3, MembersNeverReject
<1> QED
  BY <1>1, PairsAreAnswered, PTL

LEMMA AppliedPairs ==
  ASSUME PairInv, Applied
  PROVE  /\ input.teams \in TeamFile /\ input.users \in UserFile /\ ValidFile(input.teams)
         /\ answer = Admitted(input.teams, input.users)
BY DEF PairInv, Applied, Accepts

\* In an applied cycle no team's members hold more than the tolerance above the
\* team's own score (ReconcileTolerance).
THEOREM ForgeriesAreCapped == Spec => []ForgeryIsCapped
<1>1. PairInv => ForgeryIsCapped
  BY AppliedPairs, ForgedRowsAreCapped DEF ForgeryIsCapped
<1> QED
  BY <1>1, PairsAreAnswered, PTL

\* In an applied cycle an honest team has every row that the feed had of it
\* (Reconcile and DropTeams).
THEOREM HonestTeamsKeepRows == Spec => []HonestTeamsAreKept
<1>1. PairInv => HonestTeamsAreKept
  <2> SUFFICES ASSUME PairInv, Applied, NEW m \in Members, Honest(TeamOf[m])
               PROVE  answer[m] = input.users[m]
    BY DEF HonestTeamsAreKept
  <2>1. /\ input.teams \in TeamFile /\ input.users \in UserFile /\ ValidFile(input.teams)
        /\ answer = Admitted(input.teams, input.users)
    BY AppliedPairs
  <2>2. TeamOf[m] \notin Quarantined(input.teams, input.users)
    BY <2>1, TeamOfAssumption, HonestRowsAreKept DEF Honest
  <2> QED
    BY <2>1, <2>2 DEF Admitted
<1> QED
  BY <1>1, PairsAreAnswered, PTL
-----------------------------------------------------------------------------
(* Projections: two entities of any totals and rates.                        *)

\* What a projection knows of an entity.
Figured(e) == e.points \in Int /\ e.rate \in Int

\* After some days of their rates, who was behind is level or past.
Level(a, b, days) == (After(a, days) - After(b, days)) * (a.points - b.points) <= 0

\* How many points a day the one behind gains, and by how many it is behind.
Closing(a, b) == IF a.points > b.points THEN b.rate - a.rate ELSE a.rate - b.rate
Apart(a, b) == Abs(a.points - b.points)

LEMMA Quotient ==
  ASSUME NEW n \in Int, NEW d \in Nat \ {0}
  PROVE  /\ n \div d \in Int
         /\ (n \div d) * d <= n /\ n < (n \div d) * d + d
OBVIOUS

\* The ceiling is the least multiple that is enough.
LEMMA CeilIsLeast ==
  ASSUME NEW n \in Int, NEW d \in Nat \ {0}
  PROVE  /\ CeilDiv(n, d) \in Int
         /\ n <= CeilDiv(n, d) * d
         /\ (CeilDiv(n, d) - 1) * d < n
<1> DEFINE q == (- n) \div d
<1>1. q \in Int /\ q * d <= - n /\ - n < q * d + d
  BY Quotient
<1>2. CeilDiv(n, d) = - q
  BY DEF CeilDiv
<1> HIDE DEF q
<1>3. (- q) * d = - (q * d) /\ (- q - 1) * d = - (q * d) - d /\ q * d \in Int
  BY <1>1
<1>4. - q \in Int /\ n <= (- q) * d /\ (- q - 1) * d < n
  BY <1>1, <1>3
<1> QED
  BY <1>2, <1>4

LEMMA NearestDivision ==
  ASSUME NEW n \in Nat, NEW d \in Nat \ {0}
  PROVE  /\ RoundDiv(n, d) \in Nat
         /\ 2 * d * RoundDiv(n, d) <= 2 * n + d
         /\ 2 * n < 2 * d * RoundDiv(n, d) + d
<1> DEFINE m == 2 * n + d
           w == 2 * d
           q == m \div w
<1>1. m \in Nat /\ w \in Nat \ {0}
  OBVIOUS
<1>2. RoundDiv(n, d) = q
  BY DEF RoundDiv
<1>3. q \in Int /\ q * w <= m /\ m < q * w + w
  <2> HIDE DEF m, w
  <2> QED
    BY <1>1, Quotient
<1>4. q >= 0
  <2> HIDE DEF m, w
  <2> QED
    BY <1>1
<1> HIDE DEF q
<1>5. q * w = 2 * d * q /\ 2 * d * q \in Int
  BY <1>3
<1>6. q \in Nat /\ 2 * d * q <= 2 * n + d /\ 2 * n < 2 * d * q + d
  BY <1>3, <1>4, <1>5
<1> QED
  BY <1>2, <1>6

\* How far apart two entities are after some days.
LEMMA LevelIs ==
  ASSUME NEW a, NEW b, Figured(a), Figured(b), NEW days \in Nat, a.points # b.points
  PROVE  /\ Closing(a, b) \in Int /\ Apart(a, b) \in Nat \ {0}
         /\ Level(a, b, days) <=> Apart(a, b) <= Closing(a, b) * days
<1>1. PICK p \in Int : p = a.points
  BY DEF Figured
<1>2. PICK q \in Int : q = b.points
  BY DEF Figured
<1>3. PICK r \in Int : r = a.rate
  BY DEF Figured
<1>4. PICK s \in Int : s = b.rate
  BY DEF Figured
<1>5. p # q
  BY <1>1, <1>2
<1>6. Level(a, b, days) <=> ((p + r * days) - (q + s * days)) * (p - q) <= 0
  BY <1>1, <1>2, <1>3, <1>4 DEF Level, After
<1>7. PICK x \in Int : x = r * days
  BY <1>3
<1>8. PICK y \in Int : y = s * days
  BY <1>4
<1>9. (r - s) * days = x - y /\ (s - r) * days = y - x
  BY <1>7, <1>8
<1>10. CASE p > q
  <2>1. PICK g \in Nat \ {0} : g = p - q
    BY <1>10
  <2>2. Apart(a, b) = g /\ Closing(a, b) = s - r
    BY <1>1, <1>2, <1>3, <1>4, <1>10, <2>1 DEF Apart, Closing, Abs
  <2>3. PICK z \in Int : z = y - x
    OBVIOUS
  <2>4. Level(a, b, days) <=> (g - z) * g <= 0
    BY <1>6, <1>7, <1>8, <2>1, <2>3
  <2>5. (g - z) * g <= 0 <=> g <= z
    <3>1. CASE g <= z
      <4>1. PICK k \in Nat : k = z - g
        BY <3>1
      <4>2. (g - z) * g = - (k * g) /\ k * g >= 0
        BY <4>1
      <4> QED
        BY <3>1, <4>2
    <3>2. CASE z < g
      <4>1. PICK k \in Nat \ {0} : k = g - z
        BY <3>2
      <4>2. k * g > 0
        BY <4>1
      <4> QED
        BY <3>2, <4>1, <4>2
    <3> QED
      BY <3>1, <3>2
  <2> QED
    BY <1>9, <2>2, <2>3, <2>4, <2>5
<1>11. CASE p < q
  <2>1. PICK g \in Nat \ {0} : g = q - p
    BY <1>11
  <2>2. Apart(a, b) = g /\ Closing(a, b) = r - s
    BY <1>1, <1>2, <1>3, <1>4, <1>11, <2>1 DEF Apart, Closing, Abs
  <2>3. PICK z \in Int : z = x - y
    OBVIOUS
  <2>4. Level(a, b, days) <=> (z - g) * (- g) <= 0
    BY <1>6, <1>7, <1>8, <2>1, <2>3
  <2>5. (z - g) * (- g) <= 0 <=> g <= z
    <3>1. CASE g <= z
      <4>1. PICK k \in Nat : k = z - g
        BY <3>1
      <4>2. (z - g) * (- g) = - (k * g) /\ k * g >= 0
        BY <4>1
      <4> QED
        BY <3>1, <4>2
    <3>2. CASE z < g
      <4>1. PICK k \in Nat \ {0} : k = g - z
        BY <3>2
      <4>2. (z - g) * (- g) = k * g /\ k * g > 0
        BY <4>1
      <4> QED
        BY <3>2, <4>2
    <3> QED
      BY <3>1, <3>2
  <2> QED
    BY <1>9, <2>2, <2>3, <2>4, <2>5
<1> QED
  BY <1>5, <1>10, <1>11
\* A projection is the same from either side (projectOvertake of rivals.go).
THEOREM SwapsAreMutual ==
  ASSUME NEW a, NEW b, Figured(a), Figured(b)
  PROVE  ProjectOvertake(a, b) = ProjectOvertake(b, a)
<1>1. PICK p \in Int : p = a.points
  BY DEF Figured
<1>2. PICK q \in Int : q = b.points
  BY DEF Figured
<1>3. Abs(p - q) = Abs(q - p) /\ (p = q => Abs(p - q) = 0)
  BY DEF Abs
<1>4. CASE p = q
  BY <1>1, <1>2, <1>3, <1>4 DEF ProjectOvertake
<1>5. CASE p # q
  <2>1. (p > q /\ ~ (q > p)) \/ (q > p /\ ~ (p > q))
    BY <1>5
  <2> QED
    BY <1>1, <1>2, <1>3, <2>1 DEF ProjectOvertake
<1> QED
  BY <1>4, <1>5

LEMMA ProjectionIs ==
  ASSUME NEW a, NEW b, Figured(a), Figured(b)
  PROVE  /\ ProjectOvertake(a, b).gap = Apart(a, b)
         /\ ProjectOvertake(a, b).days =
              IF Apart(a, b) = 0 THEN 0
              ELSE IF Closing(a, b) <= 0 \/ Apart(a, b) > OvertakeHorizonDays * Closing(a, b)
                   THEN Never
              ELSE RoundDiv(100 * Apart(a, b), Closing(a, b))
BY DEF ProjectOvertake, Apart, Closing

LEMMA ApartIs ==
  ASSUME NEW a, NEW b, Figured(a), Figured(b)
  PROVE  /\ Apart(a, b) \in Nat /\ Closing(a, b) \in Int
         /\ Apart(a, b) = 0 <=> a.points = b.points
<1>1. PICK p \in Int : p = a.points
  BY DEF Figured
<1>2. PICK q \in Int : q = b.points
  BY DEF Figured
<1>3. Abs(p - q) \in Nat /\ (Abs(p - q) = 0 <=> p = q)
  BY DEF Abs
<1>4. Closing(a, b) \in Int
  BY DEF Closing, Figured
<1> QED
  BY <1>1, <1>2, <1>3, <1>4 DEF Apart

\* Who is told that they never swap do not within the horizon (projectOvertake).
THEOREM NoSwapIsMissed ==
  ASSUME NEW a, NEW b, Figured(a), Figured(b), ProjectOvertake(a, b).days = Never,
         NEW days \in 0..OvertakeHorizonDays
  PROVE  ~ Level(a, b, days)
<1>1. OvertakeHorizonDays \in Nat /\ Never \notin Int /\ days \in Nat /\ days <= OvertakeHorizonDays
  BY InsightAssumption
<1>2. PICK g \in Nat : g = Apart(a, b)
  BY ApartIs
<1>3. PICK c \in Int : c = Closing(a, b)
  BY ApartIs
<1>4. g # 0
  BY <1>1, <1>2, ProjectionIs
<1>5. a.points # b.points
  BY <1>2, <1>4, ApartIs
<1>6. c <= 0 \/ g > OvertakeHorizonDays * c
  <2> SUFFICES ASSUME ~ (c <= 0), ~ (g > OvertakeHorizonDays * c)
               PROVE  FALSE
    OBVIOUS
  <2>1. Never = RoundDiv(100 * g, c)
    BY <1>2, <1>3, <1>4, ProjectionIs
  <2>2. 100 * g \in Nat /\ c \in Nat \ {0}
    BY <1>2, <1>3
  <2> QED
    BY <1>1, <2>1, <2>2, NearestDivision
<1>7. ~ (g <= c * days)
  <2>1. CASE c <= 0
    <3>1. PICK k \in Nat : k = - c
      BY <2>1
    <3>2. c * days = - (k * days) /\ k * days >= 0 /\ k * days \in Int
      BY <1>1, <3>1
    <3> QED
      BY <1>4, <3>2
  <2>2. CASE c > 0 /\ g > OvertakeHorizonDays * c
    <3>1. PICK h \in Nat : h = OvertakeHorizonDays - days
      BY <1>1
    <3>2. OvertakeHorizonDays * c = c * days + h * c /\ h * c >= 0 /\ h * c \in Int
          /\ c * days \in Int
      BY <1>1, <2>2, <3>1
    <3> QED
      BY <2>2, <3>2
  <2> QED
    BY <1>6, <2>1, <2>2
<1> QED
  BY <1>1, <1>2, <1>3, <1>5, <1>7, LevelIs

\* A swap is projected for the nearest hundredth of the day on which the one
\* behind draws level, which is within the horizon (projectOvertake).
THEOREM SwapsAreWhenLevel ==
  ASSUME NEW a, NEW b, Figured(a), Figured(b), ProjectOvertake(a, b).days # Never,
         a.points # b.points
  PROVE  LET days == ProjectOvertake(a, b).days
             c == Closing(a, b)
         IN /\ days \in Nat /\ c \in Nat \ {0} /\ Apart(a, b) <= OvertakeHorizonDays * c
            /\ 2 * c * days <= 200 * Apart(a, b) + c
            /\ 200 * Apart(a, b) < 2 * c * days + c
<1>1. PICK g \in Nat : g = Apart(a, b)
  BY ApartIs
<1>2. PICK c \in Int : c = Closing(a, b)
  BY ApartIs
<1>3. g # 0
  BY <1>1, ApartIs
<1>4. c \in Nat \ {0} /\ ~ (g > OvertakeHorizonDays * c)
      /\ ProjectOvertake(a, b).days = RoundDiv(100 * g, c)
  BY <1>1, <1>2, <1>3, ProjectionIs
<1>5. OvertakeHorizonDays * c \in Int /\ g <= OvertakeHorizonDays * c
  BY <1>4, InsightAssumption
<1>6. PICK n \in Nat : n = 100 * g
  OBVIOUS
<1>7. /\ RoundDiv(n, c) \in Nat
      /\ 2 * c * RoundDiv(n, c) <= 2 * n + c /\ 2 * n < 2 * c * RoundDiv(n, c) + c
  BY <1>4, NearestDivision
<1>8. 2 * n = 200 * g
  BY <1>6
<1> QED
  BY <1>1, <1>2, <1>4, <1>5, <1>6, <1>7, <1>8

\* As long as rates differ by no more than two hundred a day, the hundredths
\* decide the day: they are level at its end, and not a day before.
THEOREM SwapsFallOnTheirDay ==
  ASSUME NEW a, NEW b, Figured(a), Figured(b), ProjectOvertake(a, b).days # Never,
         Closing(a, b) <= 200
  PROVE  LET day == CeilDiv(ProjectOvertake(a, b).days, 100)
         IN day \in Nat /\ Level(a, b, day) /\ \A x \in 0..(day - 1) : ~ Level(a, b, x)
<1> DEFINE r == ProjectOvertake(a, b).days
           day == CeilDiv(r, 100)
<1>1. CASE a.points = b.points
  <2>1. r = 0
    BY <1>1, ApartIs, ProjectionIs
  <2>2. day = 0
    <3> DEFINE q == CeilDiv(0, 100)
    <3>1. q \in Int /\ 0 <= q * 100 /\ (q - 1) * 100 < 0
      BY ONLY 0 \in Int, 100 \in Nat \ {0}, CeilIsLeast
    <3> HIDE DEF r, q
    <3>2. q = 0
      BY <3>1
    <3> QED
      BY <2>1, <3>2 DEF q
  <2>3. Level(a, b, 0)
    <3>1. PICK p \in Int : p = a.points /\ p = b.points
      BY <1>1 DEF Figured
    <3>2. After(a, 0) \in Int /\ After(b, 0) \in Int
      BY DEF After, Figured
    <3>3. p - p = 0
      OBVIOUS
    <3> QED
      BY <3>1, <3>2, <3>3 DEF Level
  <2> HIDE DEF day
  <2> QED
    BY <2>2, <2>3 DEF day
<1>2. CASE a.points # b.points
  <2>1. PICK g \in Nat : g = Apart(a, b)
    BY ApartIs
  <2>2. PICK c \in Nat \ {0} : c = Closing(a, b)
    BY <1>2, SwapsAreWhenLevel
  <2>3. r \in Nat /\ 2 * c * r <= 200 * g + c /\ 200 * g < 2 * c * r + c /\ c <= 200
    BY <1>2, <2>1, <2>2, SwapsAreWhenLevel
  <2> HIDE DEF r
  <2>4. day \in Int /\ r <= day * 100 /\ (day - 1) * 100 < r
    <3>1. r \in Int /\ 100 \in Nat \ {0}
      BY <2>3
    <3> QED
      BY ONLY <3>1, CeilIsLeast
  <2> HIDE DEF day
  <2>5. day \in Nat
    BY <2>3, <2>4
  <2>6. g <= c * day
    <3>1. PICK u \in Int : u = c * day
      BY <2>4
    <3>2. PICK v \in Int : v = c * r
      BY <2>3
    <3>3. v <= 100 * u
      <4>1. PICK k \in Nat : k = 100 * day - r
        <5>1. r \in Int
          BY <2>3
        <5>2. 100 * day - r \in Nat
          BY ONLY <2>4, <5>1
        <5> QED
          BY <5>2, Zenon
      <4>2. c * (100 * day - r) = 100 * u - v /\ c * k >= 0
        BY <2>3, <2>4, <3>1, <3>2, <4>1
      <4> QED
        BY <4>1, <4>2
    <3>4. 200 * g < 2 * v + c
      BY <2>3, <3>2
    <3> QED
      BY <2>3, <3>1, <3>3, <3>4
  <2>7. ASSUME NEW x \in 0..(day - 1)
        PROVE  ~ (g <= c * x)
    <3>1. PICK u \in Int : u = c * x
      BY <2>5
    <3>2. PICK v \in Int : v = c * r
      BY <2>3
    <3>3. 100 * u + c <= v
      <4>1. PICK k \in Nat : k = r - 100 * x - 1
        <5>1. r \in Int /\ x \in Int /\ x <= day - 1
          BY <2>3, <2>5
        <5>2. r - 100 * x - 1 \in Nat
          BY ONLY <2>4, <5>1
        <5> QED
          BY <5>2, Zenon
      <4>2. c * (r - 100 * x - 1) = v - 100 * u - c /\ c * k >= 0
        BY <2>3, <2>4, <3>1, <3>2, <4>1
      <4> QED
        BY <4>1, <4>2
    <3>4. 2 * v <= 200 * g + c
      BY <2>3, <3>2
    <3> QED
      BY <2>3, <3>1, <3>3, <3>4
  <2>8. ASSUME NEW x \in 0..(day - 1)
        PROVE  ~ Level(a, b, x)
    BY <1>2, <2>1, <2>2, <2>5, <2>7, LevelIs
  <2>9. Level(a, b, day)
    BY <1>2, <2>1, <2>2, <2>5, <2>6, LevelIs
  <2> QED
    BY <2>5, <2>8, <2>9 DEF day, r
<1> QED
  BY <1>1, <1>2

\* The rate for a horizon is the least whole one that arrives where the target
\* will be by then, and none is needed just when standing still does
\* (requiredRate of insights.go).
THEOREM RequiredIsLeast ==
  ASSUME NEW a, NEW b, Figured(a), Figured(b), NEW days \in Nat \ {0}
  PROVE  LET rate == RequiredRate(a, b, days)
         IN /\ rate \in Int /\ After(b, days) \in Int
            /\ a.points + rate * days >= After(b, days)
            /\ a.points + (rate - 1) * days < After(b, days)
            /\ rate <= 0 <=> a.points >= After(b, days)
<1>1. PICK p \in Int : p = a.points
  BY DEF Figured
<1>2. PICK f \in Int : f = After(b, days)
  BY DEF Figured, After
<1>3. PICK q \in Int : q = RequiredRate(a, b, days)
        /\ f - p <= q * days /\ (q - 1) * days < f - p
  <2>1. PICK n \in Int : n = f - p
    OBVIOUS
  <2>2. RequiredRate(a, b, days) = CeilDiv(n, days)
    <3>1. PICK x \in Int : x = b.points
      BY DEF Figured
    <3>2. PICK y \in Int : y = b.rate * days
      BY DEF Figured
    <3>3. n = x + (y - p)
      BY <1>2, <2>1, <3>1, <3>2 DEF After
    <3> QED
      BY <1>1, <3>1, <3>2, <3>3, Zenon DEF RequiredRate
  <2>3. CeilDiv(n, days) \in Int /\ n <= CeilDiv(n, days) * days
        /\ (CeilDiv(n, days) - 1) * days < n
    BY CeilIsLeast
  <2> QED
    BY <2>1, <2>2, <2>3
<1>4. PICK u \in Int : u = q * days
  OBVIOUS
<1>5. PICK v \in Int : v = (q - 1) * days
  OBVIOUS
<1>6. q <= 0 <=> p >= f
  <2>1. CASE q <= 0
    <3>1. PICK k \in Nat : k = - q
      BY <2>1
    <3>2. q * days = - (k * days) /\ k * days >= 0
      BY <3>1
    <3> QED
      BY <1>3, <1>4, <2>1, <3>2
  <2>2. CASE q > 0
    <3>1. PICK k \in Nat : k = q - 1
      BY <2>2
    <3>2. k * days >= 0 /\ (q - 1) * days = k * days
      BY <3>1
    <3> QED
      BY <1>3, <1>5, <2>2, <3>2
  <2> QED
    BY <2>1, <2>2
<1>7. p + u >= f /\ p + v < f
  BY <1>3, <1>4, <1>5
<1> QED
  BY <1>1, <1>2, <1>3, <1>4, <1>5, <1>6, <1>7
\* What the API makes of a required rate is that rate or nothing.
LEMMA AskedRate ==
  ASSUME NEW rate \in Int
  PROVE  Max({0, rate}) = IF rate > 0 THEN rate ELSE 0
<1> DEFINE S == {0, rate}
<1>1. \E x \in S : \A y \in S : x >= y
  <2>1. CASE rate > 0
    BY <2>1
  <2>2. CASE ~ (rate > 0)
    BY <2>2
  <2> QED
    BY <2>1, <2>2
<1>2. Max(S) \in S /\ \A y \in S : Max(S) >= y
  <2> HIDE DEF S
  <2> QED
    BY <1>1 DEF Max
<1>3. PICK x \in {0, rate} : x = Max(S)
  BY <1>2
<1>4. x \in Int /\ x >= 0 /\ x >= rate
  BY <1>2, <1>3
<1>5. x = IF rate > 0 THEN rate ELSE 0
  BY <1>3, <1>4
<1> QED
  BY <1>3, <1>5

\* The rates of a goal, for its horizons and for a date.
RatesMeet(a, b, horizons, by) ==
  /\ \A h \in horizons :
       /\ a.points + h[2] * h[1] >= After(b, h[1])
       /\ a.points + (h[2] - 1) * h[1] < After(b, h[1])
       /\ by[h[1]] = h[2]
  /\ \A h \in Horizons \ {x[1] : x \in horizons} : a.points >= After(b, h) /\ by[h] = 0

LEMMA GoalRates ==
  ASSUME NEW a, NEW b, Figured(a), Figured(b)
  PROVE  RatesMeet(a, b, Goal(a, b).horizons, [days \in Horizons |-> GoalBy(a, b, days)])
<1> DEFINE horizons == Goal(a, b).horizons
           by == [days \in Horizons |-> GoalBy(a, b, days)]
           rate(days) == Max({0, RequiredRate(a, b, days)})
<1>1. horizons = {<<days, rate(days)>> : days \in {d \in Horizons : rate(d) # 0}}
  BY DEF Goal
<1>2. ASSUME NEW days \in Horizons
      PROVE  /\ by[days] = rate(days)
             /\ rate(days) # 0 =>
                  /\ a.points + rate(days) * days >= After(b, days)
                  /\ a.points + (rate(days) - 1) * days < After(b, days)
             /\ rate(days) = 0 => a.points >= After(b, days)
  <2>1. days \in Nat \ {0}
    BY InsightAssumption
  <2>2. PICK r \in Int : r = RequiredRate(a, b, days)
    BY <2>1, RequiredIsLeast
  <2>3. /\ a.points + r * days >= After(b, days)
        /\ a.points + (r - 1) * days < After(b, days)
        /\ r <= 0 <=> a.points >= After(b, days)
    BY <2>1, <2>2, RequiredIsLeast
  <2>4. rate(days) = IF r > 0 THEN r ELSE 0
    BY <2>2, AskedRate
  <2>5. by[days] = rate(days)
    <3>1. ~ (days <= 0)
      BY <2>1
    <3> QED
      BY <3>1 DEF GoalBy
  <2> HIDE DEF by, rate
  <2>6. CASE r > 0
    <3>1. rate(days) = r /\ r # 0
      BY <2>4, <2>6
    <3> QED
      BY <2>3, <2>5, <3>1, Zenon
  <2>7. CASE ~ (r > 0)
    <3>1. rate(days) = 0 /\ r <= 0
      BY <2>4, <2>7
    <3> QED
      BY <2>3, <2>5, <3>1, Zenon
  <2> QED
    BY <2>6, <2>7
<1> HIDE DEF rate, by, horizons
<1>3. ASSUME NEW h \in horizons
      PROVE  /\ a.points + h[2] * h[1] >= After(b, h[1])
             /\ a.points + (h[2] - 1) * h[1] < After(b, h[1])
             /\ by[h[1]] = h[2]
  <2>1. PICK days \in Horizons : rate(days) # 0 /\ h = <<days, rate(days)>>
    BY <1>1
  <2>2. h[1] = days /\ h[2] = rate(days)
    BY <2>1
  <2> QED
    BY <1>2, <2>1, <2>2, Zenon
<1>4. ASSUME NEW h \in Horizons \ {x[1] : x \in horizons}
      PROVE  a.points >= After(b, h) /\ by[h] = 0
  <2>1. CASE rate(h) # 0
    <3>1. <<h, rate(h)>> \in horizons /\ <<h, rate(h)>>[1] = h
      BY <1>1, <2>1
    <3> QED
      BY <3>1
  <2>2. CASE rate(h) = 0
    BY <1>2, <2>2
  <2> QED
    BY <2>1, <2>2
<1>5. RatesMeet(a, b, horizons, by)
  BY <1>3, <1>4, Zenon DEF RatesMeet
<1> QED
  BY <1>5 DEF by, horizons

\* For a rank, both surfaces tell of the one who has it; the tool calls it reached
\* by whoever is at it or above, and otherwise as the API does.
ToldForARank(x, g) ==
  /\ x.goal = g
  /\ x.told = "at rank" => g.holding
  /\ IF g.alreadyReached THEN x.told \in {"at rank", "past"} ELSE x.told # "past"

LEMMA RanksAreTold ==
  ASSUME NEW a, NEW b, Figured(a), Figured(b), NEW rank \in RanksOf(a, b)
  PROVE  ToldForARank(ForTheRank(a, b, rank), Goal(a, b))
<1> DEFINE placed == [points |-> a.points, rate |-> a.rate, rank |-> 3 - rank]
           told == McpGoal(placed, b, rank)
           g == Goal(a, b)
<1>1. AtRank(<<rank, 3 - rank>>, <<b, a>>, rank) = b
  BY DEF AtRank, RanksOf
<1>2. ForTheRank(a, b, rank) = [goal |-> g, told |-> told]
  BY <1>1, Zenon DEF ForTheRank
<1>3. /\ g.holding = (a.points >= b.points)
      /\ g.alreadyReached = (a.points >= b.points /\ a.rate >= b.rate)
  BY DEF Goal
<1>4. told = IF rank > 0 /\ 3 - rank <= rank THEN "at rank"
             ELSE IF a.points >= b.points /\ b.rate <= a.rate THEN "past"
             ELSE IF a.points >= b.points THEN "holding" ELSE "behind"
  BY DEF McpGoal
<1> HIDE DEF told, g
<1>5. told = "at rank" => a.points >= b.points
  <2>1. rank = 1 => ~ (3 - rank <= rank)
    OBVIOUS
  <2>2. rank # 1 => a.points >= b.points
    BY DEF RanksOf
  <2> QED
    BY <1>4, <2>1, <2>2
<1>6. IF g.alreadyReached THEN told \in {"at rank", "past"} ELSE told # "past"
  BY <1>3, <1>4 DEF Figured
<1>7. ToldForARank([goal |-> g, told |-> told], g)
  BY <1>3, <1>5, <1>6 DEF ToldForARank
<1> QED
  BY <1>2, <1>7 DEF g

GoalInv ==
  subject = "goal" =>
    /\ input \in [self : Entity, target : Entity]
    /\ answer = Pending \/ answer = Projections(input.self, input.target)

LEMMA GoalInvHolds == Spec => []GoalInv
<1>1. Init => GoalInv
  <2> SUFFICES ASSUME Init, subject = "goal" PROVE GoalInv
    BY DEF GoalInv
  <2>1. \E x \in [self : Entity, target : Entity] : Given("goal", x)
    BY DEF Init, Given
  <2> QED
    BY <2>1 DEF GoalInv, Given
<1>2. GoalInv /\ [Next]_vars => GoalInv'
  <2> SUFFICES ASSUME GoalInv, [Next]_vars PROVE GoalInv'
    OBVIOUS
  <2>1. CASE Projected
    BY <2>1 DEF GoalInv, Projected, Answers
  <2>2. CASE UNCHANGED vars
    BY <2>2 DEF GoalInv, vars
  <2>3. CASE subject # "goal" /\ subject' = subject
    BY <2>3 DEF GoalInv
  <2>4. \A s, x : Answers(s, x) => subject = s /\ subject' = subject
    BY DEF Answers
  <2>5. CASE Reconciled
    BY <2>3, <2>4, <2>5 DEF Reconciled
  <2>6. CASE Ranked
    BY <2>3, <2>4, <2>6 DEF Ranked
  <2>7. CASE Paged
    BY <2>3, <2>4, <2>7 DEF Paged
  <2>8. CASE Listed
    BY <2>3, <2>4, <2>8 DEF Listed
  <2>9. CASE Polled
    BY <2>3, <2>4, <2>9 DEF Polled
  <2>10. CASE Charted
    BY <2>3, <2>4, <2>10 DEF Charted
  <2>11. CASE Searched
    BY <2>3, <2>4, <2>11 DEF Searched
  <2>12. CASE Read
    BY <2>3, <2>4, <2>12 DEF Read
  <2>13. CASE Queried
    BY <2>3, <2>4, <2>13 DEF Queried
  <2>14. CASE Metered
    BY <2>3, <2>4, <2>14 DEF Metered
  <2> QED
    BY <2>1, <2>2, <2>5, <2>6, <2>7, <2>8, <2>9, <2>10, <2>11, <2>12, <2>13, <2>14 DEF Next
<1> QED
  BY <1>1, <1>2, PTL DEF Spec

\* Swaps and goals meet their target, for any horizons (projectOvertake,
\* requiredRate and goal, with what the tools of mcp.go make of them).
THEOREM GoalsMeet == Spec => []ProjectionsMeet
<1>1. GoalInv => ProjectionsMeet
  <2> SUFFICES ASSUME GoalInv, subject = "goal", answer # Pending
               PROVE  ProjectionsMeet
    BY DEF ProjectionsMeet
  <2> DEFINE a == input.self
             b == input.target
             g == Goal(a, b)
             overtake == ProjectOvertake(a, b)
  <2>1. a \in Entity /\ b \in Entity /\ answer = Projections(a, b)
    BY DEF GoalInv
  <2>2. /\ answer.goal = g /\ answer.told = McpGoal(a, b, 0)
        /\ answer.still = Goal(a, PointsTarget(b.points))
        /\ answer.atRank = {ForTheRank(a, b, rank) : rank \in RanksOf(a, b)}
        /\ answer.versus = Compare(a, b) /\ answer.back = ProjectOvertake(b, a)
    BY <2>1 DEF Projections
  <2>0. answer.by = [days \in Horizons |-> GoalBy(a, b, days)]
    BY <2>1 DEF Projections
  <2>3. g.overtake = overtake /\ g.gap = Apart(a, b)
        /\ g.alreadyReached = (a.points >= b.points /\ a.rate >= b.rate)
    BY DEF Goal, Apart
  <2> HIDE DEF a, b
  <2>4. Figured(a) /\ Figured(b) /\ Closing(a, b) <= 200
    BY <2>1 DEF Entity, Figured, Closing
  <2>5. answer.back = overtake
    BY <2>2, <2>4, SwapsAreMutual
  <2>6. IF overtake.days = Never THEN \A d \in 0..OvertakeHorizonDays : ~ Level(a, b, d)
        ELSE LET d == CeilDiv(overtake.days, 100)
             IN Level(a, b, d) /\ \A x \in 0..d - 1 : ~ Level(a, b, x)
    <3>1. CASE overtake.days = Never
      BY <2>4, <3>1, NoSwapIsMissed
    <3>2. CASE overtake.days # Never
      BY <2>4, <3>2, SwapsFallOnTheirDay
    <3> QED
      BY <3>1, <3>2
  <2>7. RatesMeet(a, b, g.horizons, answer.by)
    BY <2>0, <2>4, GoalRates, Zenon
  <2>8. g.alreadyReached <=> answer.told = "past"
    <3>1. McpGoal(a, b, 0) = IF a.points >= b.points /\ b.rate <= a.rate THEN "past"
                            ELSE IF a.points >= b.points THEN "holding" ELSE "behind"
      BY DEF McpGoal
    <3>2. a.rate >= b.rate <=> b.rate <= a.rate
      BY <2>4 DEF Figured
    <3> QED
      BY <2>2, <2>3, <3>1, <3>2
  <2>9. answer.still.holding /\ a.rate >= 0 => answer.still.alreadyReached
    BY <2>2 DEF Goal, PointsTarget
  <2>10. \A x \in answer.atRank : ToldForARank(x, g)
    BY <2>2, <2>4, RanksAreTold
  <2>11. answer.versus.leader = "tie" <=> g.gap = 0
    <3>1. answer.versus.leader = "tie" <=> a.points = b.points
      BY <2>2, <2>4 DEF Compare, Figured
    <3> QED
      BY <2>3, <2>4, <3>1, ApartIs
  <2>12. answer.versus.overtake = overtake
    BY <2>2 DEF Compare
  <2> HIDE DEF g, overtake
  <2>13. answer.goal = g /\ answer.goal.overtake = overtake
    BY <2>2, <2>3 DEF g
  <2>14. /\ answer.back = answer.goal.overtake
         /\ \A x \in answer.atRank : ToldForARank(x, answer.goal)
         /\ answer.versus.overtake = answer.goal.overtake
         /\ answer.goal.alreadyReached <=> answer.told = "past"
         /\ answer.versus.leader = "tie" <=> answer.goal.gap = 0
    BY ONLY <2>5, <2>8, <2>10, <2>11, <2>12, <2>13, Zenon
  <2>15. RatesMeet(a, b, answer.goal.horizons, answer.by)
    BY ONLY <2>7, <2>13, Zenon
  <2>16. IF answer.goal.overtake.days = Never
         THEN \A d \in 0..OvertakeHorizonDays : ~ Level(a, b, d)
         ELSE LET d == CeilDiv(answer.goal.overtake.days, 100)
              IN Level(a, b, d) /\ \A x \in 0..d - 1 : ~ Level(a, b, x)
    BY ONLY <2>6, <2>13, Zenon
  <2> QED
    BY ONLY <2>9, <2>14, <2>15, <2>16, Zenon
    DEF ProjectionsMeet, Level, RatesMeet, ToldForARank, a, b
<1> QED
  BY <1>1, GoalInvHolds, PTL

-----------------------------------------------------------------------------
(* The sort: any number of scores, in any base and of any number of digits.  *)

\* A function that is given step by step exists.
Stepped(f, m, S, first, step) ==
  /\ f \in [0..m -> S] /\ f[0] = first
  /\ \A k \in 0..(m - 1) : f[k + 1] = step[<<k, f[k]>>]

LEMMA StepsExist ==
  ASSUME NEW m \in Nat, NEW S, NEW first \in S, NEW step \in [(0..(m - 1)) \X S -> S]
  PROVE  \E f : Stepped(f, m, S, first, step)
<1> DEFINE Upto(f, n) == /\ f \in [0..n -> S] /\ f[0] = first
                         /\ \A k \in 0..(n - 1) : f[k + 1] = step[<<k, f[k]>>]
           Good == {n \in Nat : \E f : Upto(f, n)}
<1>1. 0 \in Good
  <2> DEFINE f == [k \in 0..0 |-> first]
  <2>1. f \in [0..0 -> S] /\ f[0] = first /\ 0..(0 - 1) = {}
    OBVIOUS
  <2> QED
    BY <2>1
<1>2. ASSUME NEW n \in 0..(m - 1), n \in Good
      PROVE  n + 1 \in Good
  <2>1. PICK f : Upto(f, n)
    BY <1>2
  <2> DEFINE g == [k \in 0..(n + 1) |-> IF k = n + 1 THEN step[<<n, f[n]>>] ELSE f[k]]
  <2>2. n \in Nat /\ f[n] \in S /\ <<n, f[n]>> \in (0..(m - 1)) \X S
    BY <2>1
  <2>3. g \in [0..(n + 1) -> S] /\ g[0] = first
    BY <2>1, <2>2
  <2>4. ASSUME NEW k \in 0..n
        PROVE  g[k + 1] = step[<<k, g[k]>>]
    <3>1. g[k] = f[k]
      BY <2>2
    <3>2. CASE k = n
      <4>1. g[n + 1] = step[<<n, f[n]>>]
        BY <2>2
      <4> QED
        BY <3>1, <3>2, <4>1
    <3>3. CASE k # n
      <4>1. k \in 0..(n - 1) /\ k + 1 \in 0..(n + 1) /\ k + 1 # n + 1
        BY <2>2, <3>3
      <4>2. g[k + 1] = f[k + 1]
        BY <4>1
      <4>3. f[k + 1] = step[<<k, f[k]>>]
        BY <2>1, <4>1
      <4> QED
        BY <3>1, <4>2, <4>3
    <3> QED
      BY <3>2, <3>3
  <2>5. Upto(g, n + 1)
    <3>1. (n + 1) - 1 = n
      BY <2>2
    <3> HIDE DEF g
    <3> QED
      BY <2>3, <2>4, <3>1
  <2> HIDE DEF Upto, g
  <2> QED
    BY <2>2, <2>5
<1>3. m \in Good
  <2> HIDE DEF Good
  <2> QED
    BY <1>1, <1>2, UpTo
<1> QED
  BY <1>3 DEF Stepped

\* The weights are the powers of the base.
LEMMA WeightIs ==
  /\ Weight \in [0..Digits -> Nat \ {0}]
  /\ Weight[0] = 1
  /\ \A d \in 0..(Digits - 1) : Weight[d + 1] = Base * Weight[d]
<1> DEFINE S == Nat \ {0}
           step == [x \in (0..(Digits - 1)) \X S |-> Base * x[2]]
           Is(f) == f = [d \in 0..Digits |-> IF d = 0 THEN 1 ELSE Base * f[d - 1]]
<1>1. Digits \in Nat \ {0} /\ Base \in Nat \ {0, 1}
  BY SortAssumption
<1>2. \A x \in (0..(Digits - 1)) \X S : Base * x[2] \in S
  <2> SUFFICES ASSUME NEW y \in S
               PROVE  Base * y \in S
    OBVIOUS
  <2>1. Base * y >= y
    BY <1>1
  <2> QED
    BY <1>1, <2>1
<1>3. step \in [(0..(Digits - 1)) \X S -> S]
  BY <1>2
<1>4. 1 \in S /\ Digits \in Nat
  BY <1>1
<1>5. \E f : Stepped(f, Digits, S, 1, step)
  <2> HIDE DEF S, step
  <2> QED
    BY <1>3, <1>4, StepsExist
<1>6. PICK f \in [0..Digits -> S] :
        f[0] = 1 /\ \A d \in 0..(Digits - 1) : f[d + 1] = step[<<d, f[d]>>]
  BY <1>5 DEF Stepped
<1>7. ASSUME NEW d \in 0..(Digits - 1)
      PROVE  f[d + 1] = Base * f[d]
  <2>1. f[d] \in S
    BY <1>1, <1>6
  <2>2. f[d + 1] = step[<<d, f[d]>>]
    BY <1>6
  <2>3. step[<<d, f[d]>>] = Base * f[d]
    BY <2>1
  <2> QED
    BY <2>2, <2>3
<1>8. Is(f)
  <2>1. ASSUME NEW d \in 0..Digits
        PROVE  f[d] = IF d = 0 THEN 1 ELSE Base * f[d - 1]
    <3>1. CASE d = 0
      BY <1>6, <3>1
    <3>2. CASE d # 0
      <4>1. d - 1 \in 0..(Digits - 1) /\ (d - 1) + 1 = d
        BY <1>1, <3>2
      <4> QED
        BY <1>7, <3>2, <4>1
    <3> QED
      BY <3>1, <3>2
  <2>2. f = [d \in 0..Digits |-> f[d]]
    BY <1>6
  <2> QED
    BY <2>1, <2>2
<1>9. Is(Weight)
  <2>1. Weight = CHOOSE g : Is(g)
    BY Zenon DEF Weight
  <2> HIDE DEF Is
  <2> QED
    BY <1>8, <2>1
<1>10. Weight[0] = 1 /\ \A d \in 0..(Digits - 1) : Weight[d + 1] = Base * Weight[d]
  <2>1. 0 \in 0..Digits
    BY <1>1
  <2>2. ASSUME NEW d \in 0..(Digits - 1)
        PROVE  d + 1 \in 0..Digits /\ d + 1 # 0 /\ (d + 1) - 1 = d
    BY <1>1
  <2> QED
    BY <1>9, <2>1, <2>2
<1>11. ASSUME NEW n \in 0..Digits
       PROVE  Weight[n] = f[n]
  <2> DEFINE Good == {d \in Nat : Weight[d] = f[d]}
  <2>1. 0 \in Good
    BY <1>6, <1>10
  <2>2. ASSUME NEW d \in 0..(n - 1), d \in Good
        PROVE  d + 1 \in Good
    <3>1. d \in 0..(Digits - 1) /\ d + 1 \in Nat
      BY <1>1
    <3> QED
      BY <1>7, <1>10, <2>2, <3>1
  <2>3. n \in Good
    <3> HIDE DEF Good
    <3> QED
      BY <2>1, <2>2, UpTo
  <2> QED
    BY <2>3
<1>12. Weight \in [0..Digits -> S]
  <2>1. Weight = [d \in 0..Digits |-> Weight[d]]
    BY <1>9
  <2>2. \A d \in 0..Digits : Weight[d] \in S
    BY <1>6, <1>11
  <2> HIDE DEF S
  <2> QED
    BY <2>1, <2>2
<1> QED
  BY <1>10, <1>12

\* A remainder is the only one.
LEMMA Remainder ==
  ASSUME NEW x \in Int, NEW m \in Nat \ {0}
  PROVE  /\ x % m \in 0..(m - 1) /\ x \div m \in Int /\ x = (x \div m) * m + (x % m)
         /\ \A q \in Int, r \in 0..(m - 1) : x = q * m + r => x % m = r
<1>1. x % m \in 0..(m - 1) /\ x \div m \in Int /\ x = (x \div m) * m + (x % m)
  OBVIOUS
<1>2. ASSUME NEW q \in Int, NEW r \in 0..(m - 1), x = q * m + r
      PROVE  x % m = r
  <2>1. PICK t \in 0..(m - 1) : x % m = t
    BY <1>1
  <2> PICK a \in Int : a = x \div m
    BY <1>1
  <2>7. x = a * m + t
    BY <1>1, <2>1
  <2>2. PICK e \in Int : e = q - a
    BY <2>7
  <2>3. e * m = t - r
    <3>1. e * m = q * m - a * m
      BY <2>2
    <3> QED
      BY <1>2, <2>1, <3>1
  <2>4. ~ (e >= 1)
    <3> SUFFICES ASSUME e >= 1
                 PROVE  FALSE
      OBVIOUS
    <3>1. e * m >= m
      OBVIOUS
    <3> QED
      BY <2>3, <3>1
  <2>5. ~ (e <= -1)
    <3> SUFFICES ASSUME e <= -1
                 PROVE  FALSE
      OBVIOUS
    <3>1. (- e) * m >= m /\ (- e) * m = - (e * m)
      OBVIOUS
    <3> QED
      BY <2>3, <3>1
  <2>6. e = 0
    BY <2>4, <2>5
  <2> QED
    BY <2>1, <2>3, <2>6
<1> QED
  BY <1>1, <1>2

LEMMA SmallRemainder ==
  ASSUME NEW m \in Nat \ {0}, NEW x \in 0..(m - 1)
  PROVE  x % m = x
<1>1. PICK z \in Int : z * m = 0
  <2>1. 0 * m = 0
    OBVIOUS
  <2> QED
    BY <2>1
<1>2. x \in Int /\ x = z * m + x
  BY <1>1
<1>3. \A q \in Int, r \in 0..(m - 1) : x = q * m + r => x % m = r
  BY <1>2, Remainder
<1> QED
  BY ONLY <1>2, <1>3, z \in Int, x \in 0..(m - 1), Zenon

\* One more digit of what is left of a key.
LEMMA DigitIs ==
  ASSUME NEW x \in Int, NEW d \in 0..(Digits - 1)
  PROVE  /\ Digit(x, d) \in Int
         /\ Weight[d] \in Nat \ {0} /\ x % Weight[d] \in 0..(Weight[d] - 1)
         /\ x % Weight[d + 1] = Digit(x, d) * Weight[d] + (x % Weight[d])
<1>1. Base \in Nat \ {0, 1} /\ Digits \in Nat \ {0}
  BY SortAssumption
<1>2. PICK b \in Nat \ {0, 1} : b = Base
  BY <1>1
<1>3. PICK w \in Nat \ {0} : w = Weight[d]
  BY <1>1, WeightIs
<1>4. Weight[d + 1] = b * w /\ b * w \in Nat \ {0}
  <2>1. Weight[d + 1] = Base * Weight[d]
    BY WeightIs
  <2>2. b * w >= w
    OBVIOUS
  <2> QED
    BY <1>2, <1>3, <2>1, <2>2
<1>5. PICK q \in Int, r \in 0..(w - 1) : q = x \div w /\ r = x % w /\ x = q * w + r
  BY Remainder
<1>6. PICK u \in Int, g \in 0..(b - 1) : g = q % b /\ q = u * b + g
  <2>1. q \in Int /\ b \in Nat \ {0}
    BY <1>5
  <2>2. q % b \in 0..(b - 1) /\ q \div b \in Int /\ q = (q \div b) * b + (q % b)
    BY <2>1, Remainder
  <2> QED
    BY <2>2
<1>7. x = u * (b * w) + (g * w + r)
  <2>1. q * w = (u * b) * w + g * w
    BY <1>6
  <2>2. (u * b) * w = u * (b * w)
    BY <1>2
  <2> QED
    BY <1>5, <2>1, <2>2
<1>8. g * w + r \in 0..(b * w - 1)
  <2>1. g * w >= 0 /\ g * w \in Int
    OBVIOUS
  <2>2. (b - 1 - g) * w >= 0 /\ (b - 1 - g) * w = b * w - w - g * w
    OBVIOUS
  <2> QED
    BY <1>4, <2>1, <2>2
<1>9. x % (b * w) = g * w + r
  <2> DEFINE m == b * w
             s == g * w + r
  <2>1. m \in Nat \ {0} /\ s \in 0..(m - 1) /\ x = u * m + s
    BY <1>4, <1>7, <1>8
  <2> HIDE DEF m, s
  <2>2. x % m = s
    BY <2>1, Remainder
  <2> QED
    BY <2>2 DEF m, s
<1>10. Digit(x, d) = g
  BY <1>2, <1>3, <1>5, <1>6 DEF Digit
<1> QED
  BY <1>2, <1>3, <1>4, <1>5, <1>9, <1>10

-----------------------------------------------------------------------------
(* Orders of the ids.                                                        *)

Arrangement(n, f) == f \in [1..n -> 1..n] /\ \A k \in 1..n : \E p \in 1..n : f[p] = k

OneToOne(n, f) == \A p, q \in 1..n : f[p] = f[q] => p = q

\* Of as many places as there are ids each has one just when none has two.
LEMMA Pigeons ==
  ASSUME NEW n \in Nat, NEW f \in [1..n -> 1..n]
  PROVE  Arrangement(n, f) <=> OneToOne(n, f)
<1>1. IsFiniteSet(1..n)
  BY FS_Interval
<1>2. ASSUME OneToOne(n, f)
      PROVE  Arrangement(n, f)
  <2>1. f \in Injection(1..n, 1..n)
    BY <1>2 DEF Injection, IsInjective, OneToOne
  <2>2. f \in Surjection(1..n, 1..n)
    BY <1>1, <2>1, FS_Injection
  <2> QED
    BY <2>2 DEF Surjection, Arrangement
<1>3. ASSUME Arrangement(n, f)
      PROVE  OneToOne(n, f)
  <2>1. f \in Surjection(1..n, 1..n)
    BY <1>3 DEF Surjection, Arrangement
  <2>2. f \in Injection(1..n, 1..n)
    BY <1>1, <2>1, FS_Surjection
  <2> QED
    BY <2>2 DEF Injection, IsInjective, OneToOne
<1> QED
  BY <1>2, <1>3

\* A buffer that is filled is what it was filled with.
LEMMA FilledIs ==
  ASSUME NEW n \in Nat, NEW S, NEW buffer \in [1..n -> S]
  PROVE  /\ Filled(n, buffer) = buffer
         /\ buffer \in Seq(S) /\ Len(buffer) = n
<1>1. buffer \in Seq(S) /\ Len(buffer) = n
  OBVIOUS
<1>2. SubSeq(buffer, 1, n) \in Seq(S) /\ Len(SubSeq(buffer, 1, n)) = n
      /\ \A i \in 1..n : SubSeq(buffer, 1, n)[i] = buffer[i]
  OBVIOUS
<1> QED
  BY <1>1, <1>2 DEF Filled

\* Who is ahead decides the place: as many places down as there are ahead.
LEMMA Places ==
  ASSUME NEW n \in Nat, NEW digits \in [1..n -> Int]
  PROVE  LET place == [p \in 1..n |-> Cardinality(Ahead(digits, p)) + 1]
         IN /\ Arrangement(n, place)
            /\ \A p, q \in 1..n : place[p] < place[q] => p \in Ahead(digits, q)
<1> DEFINE A(p) == Ahead(digits, p)
           place == [p \in 1..n |-> Cardinality(A(p)) + 1]
<1>1. IsFiniteSet(1..n) /\ Cardinality(1..n) = n
  BY FS_Interval
<1>2. ASSUME NEW p \in 1..n
      PROVE  A(p) \subseteq (1..n) \ {p}
  BY DEF Ahead
<1>3. ASSUME NEW p \in 1..n, NEW q \in 1..n, p # q
      PROVE  p \in A(q) \/ q \in A(p)
  BY <1>3 DEF Ahead
<1>4. ASSUME NEW p \in 1..n, NEW q \in 1..n, p \in A(q)
      PROVE  A(p) \subseteq A(q)
  BY <1>4 DEF Ahead
<1>5. ASSUME NEW p \in 1..n
      PROVE  IsFiniteSet(A(p)) /\ Cardinality(A(p)) \in 0..(n - 1)
  <2>1. IsFiniteSet((1..n) \ {p}) /\ Cardinality((1..n) \ {p}) = n - 1
    BY <1>1, FS_RemoveElement
  <2>2. IsFiniteSet(A(p)) /\ Cardinality(A(p)) <= n - 1
    BY <1>2, <2>1, FS_Subset
  <2> QED
    BY <2>2, FS_CardinalityType
<1>6. ASSUME NEW p \in 1..n, NEW q \in 1..n, p \in A(q)
      PROVE  Cardinality(A(p)) < Cardinality(A(q))
  <2>1. A(p) \subseteq A(q) /\ A(p) # A(q)
    BY <1>2, <1>4, <1>6
  <2>2. Cardinality(A(p)) <= Cardinality(A(q)) /\ Cardinality(A(p)) # Cardinality(A(q))
    BY <1>5, <2>1, FS_Subset
  <2> QED
    BY <1>5, <2>2
<1> HIDE DEF A
<1>7. place \in [1..n -> 1..n]
  BY <1>5
<1>8. ASSUME NEW p \in 1..n, NEW q \in 1..n
      PROVE  place[p] < place[q] <=> Cardinality(A(p)) < Cardinality(A(q))
  <2>1. place[p] = Cardinality(A(p)) + 1 /\ place[q] = Cardinality(A(q)) + 1
    OBVIOUS
  <2> HIDE DEF place
  <2>2. Cardinality(A(p)) \in Int /\ Cardinality(A(q)) \in Int
    BY <1>5
  <2> QED
    BY <2>1, <2>2
<1>9. OneToOne(n, place)
  <2> SUFFICES ASSUME NEW p \in 1..n, NEW q \in 1..n, place[p] = place[q], p # q
               PROVE  FALSE
    BY DEF OneToOne
  <2>1. Cardinality(A(p)) = Cardinality(A(q))
    BY <1>5
  <2>2. Cardinality(A(p)) \in Int
    BY <1>5
  <2>3. ~ (p \in A(q))
    BY <1>6, <2>1, <2>2
  <2>4. ~ (q \in A(p))
    BY <1>6, <2>1, <2>2
  <2> QED
    BY <1>3, <2>3, <2>4
<1>10. ASSUME NEW p \in 1..n, NEW q \in 1..n, place[p] < place[q]
       PROVE  p \in A(q)
  <2>1. Cardinality(A(p)) < Cardinality(A(q))
    BY <1>8, <1>10
  <2>2. p # q /\ ~ (q \in A(p))
    BY <1>5, <1>6, <2>1
  <2> QED
    BY <1>3, <2>2
<1>11. Arrangement(n, place)
  <2> HIDE DEF place
  <2> QED
    BY <1>7, <1>9, Pigeons
<1> QED
  BY <1>10, <1>11 DEF A

\* Of two ids the first by the lowest digits of its key.
Before(keys, d, i, j) ==
  \/ keys[i] % Weight[d] < keys[j] % Weight[d]
  \/ keys[i] % Weight[d] = keys[j] % Weight[d] /\ i < j

SortedBy(n, keys, d, order) ==
  /\ Arrangement(n, order)
  /\ \A p, q \in 1..n : p < q => Before(keys, d, order[p], order[q])

\* A digit more is what decides first.
LEMMA BeforeByDigit ==
  ASSUME NEW n \in Nat, NEW keys \in [1..n -> Int], NEW d \in 0..(Digits - 1),
         NEW i \in 1..n, NEW j \in 1..n
  PROVE  Before(keys, d + 1, i, j) <=>
           \/ Digit(keys[i], d) < Digit(keys[j], d)
           \/ Digit(keys[i], d) = Digit(keys[j], d) /\ Before(keys, d, i, j)
<1>1. PICK w \in Nat \ {0} : w = Weight[d]
  BY DigitIs
<1>2. PICK g \in Int, r \in 0..(w - 1) :
        /\ g = Digit(keys[i], d) /\ r = keys[i] % Weight[d]
        /\ keys[i] % Weight[d + 1] = g * w + r
  <2>1. PICK x \in Int : x = keys[i]
    OBVIOUS
  <2>2. /\ Digit(x, d) \in Int /\ x % Weight[d] \in 0..(Weight[d] - 1)
        /\ x % Weight[d + 1] = Digit(x, d) * Weight[d] + (x % Weight[d])
    BY DigitIs
  <2> QED
    BY <1>1, <2>1, <2>2
<1>3. PICK h \in Int, s \in 0..(w - 1) :
        /\ h = Digit(keys[j], d) /\ s = keys[j] % Weight[d]
        /\ keys[j] % Weight[d + 1] = h * w + s
  <2>1. PICK x \in Int : x = keys[j]
    OBVIOUS
  <2>2. /\ Digit(x, d) \in Int /\ x % Weight[d] \in 0..(Weight[d] - 1)
        /\ x % Weight[d + 1] = Digit(x, d) * Weight[d] + (x % Weight[d])
    BY DigitIs
  <2> QED
    BY <1>1, <2>1, <2>2
<1>4. ASSUME NEW x \in Int, NEW y \in Int, x < y, NEW u \in 0..(w - 1), NEW v \in 0..(w - 1)
      PROVE  x * w + u < y * w + v
  <2>1. (y - x - 1) * w >= 0 /\ (y - x - 1) * w = y * w - x * w - w
    BY <1>4
  <2>2. x * w \in Int /\ y * w \in Int
    OBVIOUS
  <2> QED
    BY <2>1, <2>2
<1>5. g < h => g * w + r < h * w + s
  BY <1>4
<1>6. h < g => h * w + s < g * w + r
  BY <1>4
<1>7. g = h => (g * w + r < h * w + s <=> r < s) /\ (g * w + r = h * w + s <=> r = s)
  OBVIOUS
<1>8. g < h \/ h < g \/ g = h
  OBVIOUS
<1>9. PICK x \in Int, y \in Int : x = g * w + r /\ y = h * w + s
  OBVIOUS
<1>10. Before(keys, d + 1, i, j) <=> x < y \/ (x = y /\ i < j)
  BY <1>2, <1>3, <1>9 DEF Before
<1>11. Before(keys, d, i, j) <=> r < s \/ (r = s /\ i < j)
  BY <1>2, <1>3 DEF Before
<1>12. /\ g < h => x < y
       /\ h < g => y < x
       /\ g = h => (x < y <=> r < s) /\ (x = y <=> r = s)
  BY <1>5, <1>6, <1>7, <1>9
<1>13. \/ g < h /\ x < y
       \/ h < g /\ y < x
       \/ g = h /\ (x < y <=> r < s) /\ (x = y <=> r = s)
  BY <1>8, <1>12
<1>14. x < y \/ (x = y /\ i < j) <=> g < h \/ (g = h /\ (r < s \/ (r = s /\ i < j)))
  BY <1>13
<1> QED
  BY <1>2, <1>3, <1>10, <1>11, <1>14

\* A pass sorts by one digit more.
LEMMA PassSorts ==
  ASSUME NEW n \in Nat, NEW keys \in [1..n -> Int], NEW d \in 0..(Digits - 1),
         NEW order, Arrangement(n, order)
  PROVE  /\ Arrangement(n, Pass(keys, order, d))
         /\ SortedBy(n, keys, d, order) => SortedBy(n, keys, d + 1, Pass(keys, order, d))
<1> DEFINE digits == [p \in 1..n |-> Digit(keys[order[p]], d)]
           P(dg) == [p \in 1..n |-> Cardinality(Ahead(dg, p)) + 1]
           O(pl) == [k \in 1..n |-> order[CHOOSE p \in 1..n : pl[p] = k]]
           place == P(digits)
           out == O(place)
           At(k) == CHOOSE p \in 1..n : place[p] = k
<1>1. order \in [1..n -> 1..n] /\ Len(order) = n
  BY FilledIs DEF Arrangement
<1>2. \A p \in 1..n : order[p] \in 1..n /\ keys[order[p]] \in Int
  BY <1>1
<1>3. digits \in [1..n -> Int] /\ Filled(n, digits) = digits
  <2>1. digits \in [1..n -> Int]
    BY <1>2, DigitIs
  <2> HIDE DEF digits
  <2> QED
    BY <2>1, FilledIs
<1>4. /\ place \in [1..n -> 1..n] /\ Filled(n, place) = place
      /\ Arrangement(n, place)
      /\ \A p, q \in 1..n : place[p] < place[q] => p \in Ahead(digits, q)
  <2> HIDE DEF digits
  <2>1. /\ Arrangement(n, place)
        /\ \A p, q \in 1..n : place[p] < place[q] => p \in Ahead(digits, q)
    BY <1>3, Places
  <2> HIDE DEF place, P
  <2>2. place \in [1..n -> 1..n]
    BY <2>1 DEF Arrangement
  <2> QED
    BY <2>1, <2>2, FilledIs
<1>5. ASSUME NEW k \in 1..n
      PROVE  At(k) \in 1..n /\ place[At(k)] = k
  <2> HIDE DEF place, digits, P
  <2> QED
    BY <1>4 DEF Arrangement
<1>6. \A k \in 1..n : out[k] = order[At(k)]
  OBVIOUS
<1>7. out \in [1..n -> 1..n] /\ Filled(n, out) = out
  <2> HIDE DEF At
  <2>1. out \in [1..n -> 1..n]
    BY <1>2, <1>5 DEF At
  <2> HIDE DEF out
  <2> QED
    BY <2>1, FilledIs
<1>8. Pass(keys, order, d) = out
  <2>1. Pass(keys, order, d) = Filled(n, O(Filled(n, P(Filled(n, digits)))))
    BY <1>1 DEF Pass
  <2> HIDE DEF digits, P, O
  <2> QED
    BY <1>3, <1>4, <1>7, <2>1
<1> HIDE DEF At, out, place, P, O
<1>9. Arrangement(n, out)
  <2> SUFFICES ASSUME NEW k \in 1..n, NEW l \in 1..n, out[k] = out[l]
               PROVE  k = l
    BY <1>7, Pigeons DEF OneToOne
  <2>1. order[At(k)] = order[At(l)]
    BY <1>6
  <2>2. OneToOne(n, order)
    BY <1>1, Pigeons
  <2> QED
    BY <1>5, <2>1, <2>2 DEF OneToOne
<1>10. ASSUME SortedBy(n, keys, d, order), NEW k \in 1..n, NEW l \in 1..n, k < l
       PROVE  Before(keys, d + 1, out[k], out[l])
  <2>1. PICK p \in 1..n, q \in 1..n :
          out[k] = order[p] /\ out[l] = order[q] /\ p \in Ahead(digits, q)
    <3>1. /\ At(k) \in 1..n /\ At(l) \in 1..n
          /\ place[At(k)] = k /\ place[At(l)] = l
      BY <1>5
    <3>2. At(k) \in Ahead(digits, At(l))
      BY <1>4, <1>10, <3>1
    <3> QED
      BY <1>6, <3>1, <3>2
  <2>2. digits[p] < digits[q] \/ (digits[p] = digits[q] /\ p < q)
    BY <1>3, <2>1 DEF Ahead
  <2>3. digits[p] = Digit(keys[order[p]], d) /\ digits[q] = Digit(keys[order[q]], d)
    OBVIOUS
  <2>4. p < q => Before(keys, d, order[p], order[q])
    BY <1>10 DEF SortedBy
  <2>5. order[p] \in 1..n /\ order[q] \in 1..n
    BY <1>1
  <2> HIDE DEF digits
  <2>6. Before(keys, d + 1, order[p], order[q])
    BY <2>2, <2>3, <2>4, <2>5, BeforeByDigit
  <2> QED
    BY <2>1, <2>6
<1> QED
  BY <1>8, <1>9, <1>10 DEF SortedBy

\* All passes sort by the whole key.
LEMMA RadixSorts ==
  ASSUME NEW n \in Nat, NEW keys \in [1..n -> 0..(Keys - 1)]
  PROVE  /\ Arrangement(n, Radix(keys))
         /\ \A p, q \in 1..n :
              p < q => \/ keys[Radix(keys)[p]] < keys[Radix(keys)[q]]
                       \/ /\ keys[Radix(keys)[p]] = keys[Radix(keys)[q]]
                          /\ Radix(keys)[p] < Radix(keys)[q]
<1> DEFINE S == {order \in [1..n -> 1..n] : Arrangement(n, order)}
           first == Identity(Len(keys))
           step == [x \in (0..(Digits - 1)) \X S |-> Pass(keys, x[2], x[1])]
           Is(f) == f = [d \in 0..Digits |-> IF d = 0 THEN first ELSE Pass(keys, f[d - 1], d - 1)]
<1>1. Digits \in Nat \ {0} /\ Keys \in Nat \ {0} /\ Keys = Weight[Digits]
  BY SortAssumption, WeightIs DEF Keys
<1>2. keys \in [1..n -> Int] /\ Len(keys) = n
  <2>1. keys \in [1..n -> Int]
    OBVIOUS
  <2> QED
    BY <2>1, FilledIs
<1>3. first = [i \in 1..n |-> i] /\ first \in S
  BY <1>2 DEF Identity, Arrangement
<1>4. ASSUME NEW d \in 0..(Digits - 1), NEW order \in S
      PROVE  Pass(keys, order, d) \in S
  <2>1. Arrangement(n, Pass(keys, order, d))
    BY <1>2, PassSorts
  <2> QED
    BY <2>1 DEF Arrangement
<1>5. step \in [(0..(Digits - 1)) \X S -> S]
  <2> HIDE DEF S
  <2> QED
    BY <1>4
<1>6. \E f : Stepped(f, Digits, S, first, step)
  <2> HIDE DEF S, step, first
  <2> QED
    BY <1>1, <1>3, <1>5, StepsExist
<1>7. PICK f : Stepped(f, Digits, S, first, step)
  BY <1>6
<1> HIDE DEF S, first
<1>8. ASSUME NEW d \in 0..(Digits - 1)
      PROVE  f[d] \in S /\ f[d + 1] = Pass(keys, f[d], d)
  <2> HIDE DEF step
  <2>1. f[d] \in S /\ f[d + 1] = step[<<d, f[d]>>]
    BY <1>1, <1>7 DEF Stepped
  <2>2. step[<<d, f[d]>>] = Pass(keys, f[d], d)
    BY <2>1 DEF step
  <2> QED
    BY <2>1, <2>2
<1> HIDE DEF step
<1>9. f \in [0..Digits -> S] /\ f[0] = first
  BY <1>7 DEF Stepped
<1>10. Is(f)
  <2>1. ASSUME NEW d \in 0..Digits
        PROVE  f[d] = IF d = 0 THEN first ELSE Pass(keys, f[d - 1], d - 1)
    <3>1. CASE d = 0
      BY <1>9, <3>1
    <3>2. CASE d # 0
      <4>1. d - 1 \in 0..(Digits - 1) /\ (d - 1) + 1 = d
        BY <1>1, <3>2
      <4> QED
        BY <1>8, <3>2, <4>1
    <3> QED
      BY <3>1, <3>2
  <2>2. f = [d \in 0..Digits |-> f[d]]
    BY <1>9
  <2> QED
    BY <2>1, <2>2
<1> DEFINE h == CHOOSE g : Is(g)
<1>11. Is(h)
  <2> HIDE DEF Is
  <2> QED
    BY <1>10
<1>12. Radix(keys) = h[Digits]
  BY Zenon DEF Radix, first
<1> HIDE DEF h
<1>13. h[0] = first /\ \A d \in 0..(Digits - 1) : h[d + 1] = Pass(keys, h[d], d)
  <2>1. 0 \in 0..Digits
    BY <1>1
  <2>2. ASSUME NEW d \in 0..(Digits - 1)
        PROVE  d + 1 \in 0..Digits /\ d + 1 # 0 /\ (d + 1) - 1 = d
    BY <1>1
  <2> QED
    BY <1>11, <2>1, <2>2
<1> HIDE DEF Is
<1>14. SortedBy(n, keys, Digits, h[Digits])
  <2> DEFINE Good == {d \in Nat : SortedBy(n, keys, d, h[d])}
  <2>1. 0 \in Good
    <3>1. ASSUME NEW i \in 1..n
          PROVE  keys[i] % Weight[0] = 0
      <4>1. keys[i] \in Int /\ Weight[0] = 1
        BY <1>2, WeightIs
      <4> QED
        BY <4>1
    <3>2. Arrangement(n, h[0])
      BY <1>3, <1>13 DEF Arrangement
    <3>3. ASSUME NEW p \in 1..n, NEW q \in 1..n, p < q
          PROVE  Before(keys, 0, h[0][p], h[0][q])
      <4>1. h[0][p] = p /\ h[0][q] = q
        BY <1>3, <1>13
      <4> QED
        BY <3>1, <3>3, <4>1 DEF Before
    <3> QED
      BY <3>2, <3>3 DEF SortedBy
  <2>2. ASSUME NEW d \in 0..(Digits - 1), d \in Good
        PROVE  d + 1 \in Good
    <3>1. SortedBy(n, keys, d, h[d]) /\ Arrangement(n, h[d])
      BY <2>2 DEF SortedBy
    <3>2. SortedBy(n, keys, d + 1, Pass(keys, h[d], d))
      BY <1>2, <3>1, PassSorts
    <3>3. h[d + 1] = Pass(keys, h[d], d) /\ d + 1 \in Nat
      BY <1>13
    <3> QED
      BY <3>2, <3>3
  <2>3. Digits \in Good
    <3> HIDE DEF Good
    <3> QED
      BY <1>1, <2>1, <2>2, UpTo
  <2> QED
    BY <2>3
<1>15. ASSUME NEW i \in 1..n
       PROVE  keys[i] % Weight[Digits] = keys[i]
  <2>1. PICK x \in Int, m \in Nat \ {0} : x = keys[i] /\ m = Weight[Digits] /\ x \in 0..(m - 1)
    BY <1>1, <1>2
  <2> QED
    BY <2>1, SmallRemainder
<1>16. h[Digits] \in [1..n -> 1..n]
  BY <1>14 DEF SortedBy, Arrangement
<1>17. ASSUME NEW p \in 1..n, NEW q \in 1..n, p < q
       PROVE  \/ keys[h[Digits][p]] < keys[h[Digits][q]]
              \/ keys[h[Digits][p]] = keys[h[Digits][q]] /\ h[Digits][p] < h[Digits][q]
  <2>1. Before(keys, Digits, h[Digits][p], h[Digits][q])
    BY <1>14, <1>17 DEF SortedBy
  <2>2. h[Digits][p] \in 1..n /\ h[Digits][q] \in 1..n
    BY <1>16
  <2> QED
    BY <1>15, <2>1, <2>2 DEF Before
<1> QED
  BY <1>12, <1>14, <1>17 DEF SortedBy

\* An order of scores is best first, those level in the order of their ids,
\* that is of their first sighting (sortDescByScore of sort.go).
BestOrder(n, scores, order) ==
  /\ Arrangement(n, order)
  /\ \A p, q \in 1..n :
       p < q => \/ scores[order[p]] > scores[order[q]]
                \/ scores[order[p]] = scores[order[q]] /\ order[p] < order[q]

\* The radix sort sorts (sortDescByScore of sort.go).
THEOREM SortIsStable ==
  ASSUME NEW n \in Nat, NEW scores \in [1..n -> 0..(Keys - 1)]
  PROVE  BestOrder(n, scores, SortDescByScore(scores))
<1> DEFINE keys == [i \in 1..n |-> Key(scores[i])]
<1>1. PICK m \in Nat \ {0} : m = Keys
  BY SortAssumption, WeightIs DEF Keys
<1>2. ASSUME NEW x \in 0..(m - 1)
      PROVE  Key(x) = m - 1 - x
  <2>1. PICK y \in 0..(m - 1) : y = m - 1 - x
    BY <1>2
  <2>2. Key(x) = y % m
    BY <1>1, <2>1 DEF Key
  <2> QED
    BY <2>1, <2>2, SmallRemainder
<1>3. ASSUME NEW i \in 1..n
      PROVE  scores[i] \in 0..(m - 1) /\ keys[i] = m - 1 - scores[i]
  BY <1>1, <1>2
<1>4. keys \in [1..n -> 0..(Keys - 1)]
  <2>1. \A i \in 1..n : Key(scores[i]) \in 0..(Keys - 1)
    BY <1>1, <1>3
  <2> QED
    BY <2>1
<1>5. SortDescByScore(scores) = Radix(keys)
  <2>1. Len(scores) = n
    BY FilledIs
  <2>2. SortDescByScore(scores) = Radix(Filled(n, keys))
    BY <2>1 DEF SortDescByScore
  <2> HIDE DEF keys
  <2> QED
    BY <1>4, <2>2, FilledIs
<1> HIDE DEF keys
<1>6. PICK order : order = Radix(keys)
  OBVIOUS
<1>7. /\ Arrangement(n, order)
      /\ \A p, q \in 1..n :
           p < q => \/ keys[order[p]] < keys[order[q]]
                    \/ keys[order[p]] = keys[order[q]] /\ order[p] < order[q]
  <2>1. /\ Arrangement(n, Radix(keys))
        /\ \A p, q \in 1..n :
             p < q => \/ keys[Radix(keys)[p]] < keys[Radix(keys)[q]]
                      \/ /\ keys[Radix(keys)[p]] = keys[Radix(keys)[q]]
                         /\ Radix(keys)[p] < Radix(keys)[q]
    BY <1>4, RadixSorts, Zenon
  <2> QED
    BY <1>6, <2>1
<1>8. ASSUME NEW p \in 1..n, NEW q \in 1..n, p < q
      PROVE  \/ scores[order[p]] > scores[order[q]]
             \/ scores[order[p]] = scores[order[q]] /\ order[p] < order[q]
  <2>1. order[p] \in 1..n /\ order[q] \in 1..n
    BY <1>7 DEF Arrangement
  <2>2. ASSUME NEW i \in 1..n
        PROVE  scores[i] \in Int /\ keys[i] = m - 1 - scores[i]
    BY <1>3
  <2>3. /\ scores[order[p]] \in Int /\ keys[order[p]] = m - 1 - scores[order[p]]
        /\ scores[order[q]] \in Int /\ keys[order[q]] = m - 1 - scores[order[q]]
    BY <2>1, <2>2
  <2> QED
    BY <1>7, <1>8, <2>3
<1> QED
  BY <1>5, <1>6, <1>7, <1>8 DEF BestOrder

\* The ids of a part of the ranks are as many.
LEMMA CountedAlong ==
  ASSUME NEW n \in Nat, NEW order, Arrangement(n, order), NEW P \in SUBSET (1..n)
  PROVE  Cardinality({order[p] : p \in P}) = Cardinality(P)
<1> DEFINE f == [p \in P |-> order[p]]
           T == {order[p] : p \in P}
<1>1. IsFiniteSet(P)
  <2>1. IsFiniteSet(1..n)
    BY FS_Interval
  <2> QED
    BY <2>1, FS_Subset
<1>2. OneToOne(n, order)
  BY Pigeons DEF Arrangement
<1>3. f \in Bijection(P, T)
  BY <1>2 DEF Bijection, Injection, Surjection, IsInjective, OneToOne
<1> QED
  BY <1>1, <1>3, FS_Bijection DEF ExistsBijection

\* The rank in a best-first order is the number of those ahead, and one.
LEMMA RankCounts ==
  ASSUME NEW n \in Nat, NEW scores \in [1..n -> Int], NEW order, BestOrder(n, scores, order),
         NEW i \in 1..n
  PROVE  /\ RanksIn(order)[i] \in 1..n /\ order[RanksIn(order)[i]] = i
         /\ \A among \in SUBSET (1..n) :
              Cardinality({p \in 1..(RanksIn(order)[i] - 1) : order[p] \in among}) + 1
                = Place(scores, among, i)
<1>1. order \in [1..n -> 1..n] /\ \E p \in 1..n : order[p] = i
  BY DEF BestOrder, Arrangement
<1>2. DOMAIN order = 1..n /\ i \in ToSet(order)
  BY <1>1 DEF ToSet
<1>3. RanksIn(order)[i] = CHOOSE p \in DOMAIN order : order[p] = i
  BY <1>2 DEF RanksIn
<1>4. PICK r \in 1..n : r = RanksIn(order)[i] /\ order[r] = i
  BY <1>1, <1>2, <1>3
<1>5. ASSUME NEW among \in SUBSET (1..n)
      PROVE  Cardinality({p \in 1..(r - 1) : order[p] \in among}) + 1 = Place(scores, among, i)
  <2> DEFINE P == {p \in 1..(r - 1) : order[p] \in among}
             Q == {j \in among : scores[j] > scores[i] \/ (scores[j] = scores[i] /\ j < i)}
  <2>1. ASSUME NEW p \in P
        PROVE  order[p] \in Q
    <3>1. p \in 1..n /\ p < r /\ order[p] \in among
      OBVIOUS
    <3>2. \/ scores[order[p]] > scores[order[r]]
          \/ scores[order[p]] = scores[order[r]] /\ order[p] < order[r]
      BY <3>1 DEF BestOrder
    <3> QED
      BY <1>4, <3>1, <3>2
  <2>2. ASSUME NEW j \in Q
        PROVE  \E p \in P : order[p] = j
    <3>1. PICK p \in 1..n : order[p] = j
      BY DEF BestOrder, Arrangement
    <3>2. scores[j] \in Int /\ scores[i] \in Int /\ j \in 1..n /\ j # i
      OBVIOUS
    <3>3. ~ (r < p)
      <4>1. r < p => \/ scores[order[r]] > scores[order[p]]
                     \/ scores[order[r]] = scores[order[p]] /\ order[r] < order[p]
        BY <3>1 DEF BestOrder
      <4> QED
        BY <1>4, <3>1, <3>2, <4>1
    <3>4. p # r
      BY <1>4, <3>1, <3>2
    <3> QED
      BY <3>1, <3>3, <3>4
  <2>4. P \in SUBSET (1..n)
    OBVIOUS
  <2> HIDE DEF P, Q
  <2>3. {order[p] : p \in P} = Q
    BY <2>1, <2>2
  <2>5. Cardinality(Q) = Cardinality(P)
    <3>1. Arrangement(n, order)
      BY DEF BestOrder
    <3>2. Cardinality({order[p] : p \in P}) = Cardinality(P)
      BY <2>4, <3>1, CountedAlong
    <3> QED
      BY <2>3, <3>2
  <2>6. Place(scores, among, i) = 1 + Cardinality(Q)
    BY DEF Place, Q
  <2>7. IsFiniteSet(P)
    <3>1. IsFiniteSet(1..n)
      BY FS_Interval
    <3> QED
      BY <2>4, <3>1, FS_Subset
  <2>8. Cardinality(P) + 1 = Place(scores, among, i)
    BY <2>5, <2>6, <2>7, FS_CardinalityType
  <2> QED
    BY <2>8 DEF P
<1> QED
  BY <1>4, <1>5

\* A rank is the number of those ahead and one: of more, or of as much and
\* seen earlier (buildMembers and buildTeams of rank.go).
THEOREM RanksCountThoseAhead ==
  ASSUME NEW n \in Nat, NEW scores \in [1..n -> 0..(Keys - 1)]
  PROVE  RanksIn(SortDescByScore(scores)) = [i \in 1..n |-> Place(scores, 1..n, i)]
<1>1. PICK order : order = SortDescByScore(scores)
  OBVIOUS
<1>2. BestOrder(n, scores, order)
  BY <1>1, SortIsStable
<1>3. scores \in [1..n -> Int]
  OBVIOUS
<1>4. ToSet(order) = 1..n
  BY <1>2 DEF ToSet, BestOrder, Arrangement
<1>5. ASSUME NEW i \in 1..n
      PROVE  RanksIn(order)[i] = Place(scores, 1..n, i)
  <2>1. PICK r \in 1..n : r = RanksIn(order)[i]
    BY <1>2, <1>3, RankCounts
  <2>2. Cardinality({p \in 1..(r - 1) : order[p] \in 1..n}) + 1 = Place(scores, 1..n, i)
    <3>1. PICK all : all = 1..n
      OBVIOUS
    <3>2. all \in SUBSET (1..n)
      BY <3>1
    <3>3. Cardinality({p \in 1..(r - 1) : order[p] \in all}) + 1 = Place(scores, all, i)
      BY <1>2, <1>3, <2>1, <3>2, RankCounts
    <3> QED
      BY <3>1, <3>3
  <2>3. {p \in 1..(r - 1) : order[p] \in 1..n} = 1..(r - 1)
    BY <1>2 DEF BestOrder, Arrangement
  <2>4. Cardinality(1..(r - 1)) = r - 1
    BY FS_Interval
  <2>5. Cardinality(1..(r - 1)) + 1 = Place(scores, 1..n, i)
    BY <2>2, <2>3
  <2> HIDE DEF Place
  <2> QED
    BY <2>1, <2>4, <2>5
<1>6. RanksIn(order) = [i \in 1..n |-> RanksIn(order)[i]]
  BY <1>4 DEF RanksIn
<1> QED
  BY <1>1, <1>5, <1>6

-----------------------------------------------------------------------------
(* The binary search, and the ties that it tells the width of.               *)

Half(g, p, b) ==
  IF p[(b[1] + b[2]) \div 2] THEN g[<<b[1], (b[1] + b[2]) \div 2>>]
  ELSE g[<<(b[1] + b[2]) \div 2 + 1, b[2]>>]

Halving(g, n, p) ==
  g = [b \in (0..n) \X (0..n) |-> IF b[1] >= b[2] THEN b[1] ELSE Half(g, p, b)]

LEMMA Middle ==
  ASSUME NEW lo \in Int, NEW hi \in Int, lo < hi
  PROVE  (lo + hi) \div 2 \in Int /\ lo <= (lo + hi) \div 2 /\ (lo + hi) \div 2 < hi
OBVIOUS

LEMMA HalvingExists ==
  ASSUME NEW n \in Nat, NEW p
  PROVE  \E g : Halving(g, n, p)
<1> DEFINE D == (0..n) \X (0..n)
           Upto(g, s) == /\ g = [b \in D |-> g[b]]
                         /\ \A b \in D :
                              b[2] - b[1] <= s =>
                                g[b] = IF b[1] >= b[2] THEN b[1] ELSE Half(g, p, b)
           Good == {s \in Nat : \E g : Upto(g, s)}
<1>1. 0 \in Good
  <2> DEFINE g == [b \in D |-> b[1]]
  <2>1. \A b \in D : g[b] = b[1] /\ b[1] \in Int /\ b[2] \in Int
    OBVIOUS
  <2>2. g = [b \in D |-> g[b]]
    OBVIOUS
  <2> HIDE DEF g, D
  <2>3. ASSUME NEW b \in D, b[2] - b[1] <= 0
        PROVE  g[b] = IF b[1] >= b[2] THEN b[1] ELSE Half(g, p, b)
    BY <2>1, <2>3
  <2>4. Upto(g, 0)
    BY <2>2, <2>3
  <2> QED
    BY <2>4
<1>2. ASSUME NEW s \in 0..(n - 1), s \in Good
      PROVE  s + 1 \in Good
  <2>1. PICK g : Upto(g, s)
    BY <1>2
  <2> DEFINE h == [b \in D |-> IF b[2] - b[1] = s + 1 THEN Half(g, p, b) ELSE g[b]]
  <2>2. ASSUME NEW b \in D
        PROVE  h[b] = IF b[2] - b[1] = s + 1 THEN Half(g, p, b) ELSE g[b]
    OBVIOUS
  <2>3. h = [b \in D |-> h[b]]
    OBVIOUS
  <2> HIDE DEF h
  <2>4. ASSUME NEW b \in D, b[2] - b[1] <= s + 1, b[1] < b[2]
        PROVE  Half(h, p, b) = Half(g, p, b)
    <3>1. PICK lo \in 0..n, hi \in 0..n : b[1] = lo /\ b[2] = hi
      OBVIOUS
    <3>2. PICK mid \in Int : mid = (lo + hi) \div 2 /\ lo <= mid /\ mid < hi
      BY <2>4, <3>1, Middle
    <3>3. mid \in 0..n /\ mid + 1 \in 0..n /\ mid - lo # s + 1 /\ hi - (mid + 1) # s + 1
      BY <2>4, <3>1, <3>2
    <3>4. h[<<lo, mid>>] = g[<<lo, mid>>]
      <4>1. <<lo, mid>> \in D /\ <<lo, mid>>[2] - <<lo, mid>>[1] # s + 1
        BY <3>3
      <4> HIDE DEF D
      <4> QED
        BY <2>2, <4>1
    <3>5. h[<<mid + 1, hi>>] = g[<<mid + 1, hi>>]
      <4>1. <<mid + 1, hi>> \in D /\ <<mid + 1, hi>>[2] - <<mid + 1, hi>>[1] # s + 1
        BY <3>3
      <4> HIDE DEF D
      <4> QED
        BY <2>2, <4>1
    <3> HIDE DEF D
    <3> QED
      BY <3>1, <3>2, <3>4, <3>5 DEF Half
  <2>5. ASSUME NEW b \in D, b[2] - b[1] <= s + 1
        PROVE  h[b] = IF b[1] >= b[2] THEN b[1] ELSE Half(h, p, b)
    <3>1. b[1] \in Int /\ b[2] \in Int /\ s \in Int
      OBVIOUS
    <3> HIDE DEF D
    <3>2. CASE b[2] - b[1] = s + 1
      <4>1. b[1] < b[2]
        BY <3>1, <3>2
      <4> QED
        BY <2>2, <2>4, <2>5, <3>1, <3>2, <4>1
    <3>3. CASE b[2] - b[1] # s + 1
      <4>1. b[2] - b[1] <= s
        BY <2>5, <3>1, <3>3
      <4>2. g[b] = IF b[1] >= b[2] THEN b[1] ELSE Half(g, p, b)
        BY <2>1, <4>1
      <4> QED
        BY <2>2, <2>4, <2>5, <3>1, <3>3, <4>2
    <3> QED
      BY <3>2, <3>3
  <2>6. Upto(h, s + 1)
    <3> HIDE DEF D
    <3> QED
      BY <2>3, <2>5
  <2> HIDE DEF Upto
  <2> QED
    BY <2>6
<1>3. n \in Good
  <2> HIDE DEF Good
  <2> QED
    BY <1>1, <1>2, UpTo
<1>4. PICK g : Upto(g, n)
  BY <1>3
<1>5. \A b \in D : b[2] - b[1] <= n
  OBVIOUS
<1>6. g = [b \in D |-> IF b[1] >= b[2] THEN b[1] ELSE Half(g, p, b)]
  <2> HIDE DEF D
  <2>1. \A b \in D : g[b] = IF b[1] >= b[2] THEN b[1] ELSE Half(g, p, b)
    BY <1>4, <1>5
  <2> QED
    BY <1>4, <2>1
<1> QED
  BY <1>6 DEF Halving

\* A predicate that does not cease to hold on 0..n-1.
Lasts(n, p) == \A i, j \in 0..(n - 1) : p[i] /\ i <= j => p[j]

\* A search finds where a predicate that lasts begins (sort.Search, by which
\* ties and names are found).
THEOREM SearchFinds ==
  ASSUME NEW n \in Nat, NEW p, Lasts(n, p)
  PROVE  /\ Search(n, p) \in 0..n
         /\ \A i \in 0..(n - 1) : p[i] <=> Search(n, p) <= i
<1> DEFINE g == CHOOSE f : Halving(f, n, p)
<1>1. Halving(g, n, p)
  BY HalvingExists
<1>2. Search(n, p) = g[<<0, n>>]
  BY Zenon DEF Search, Halving, Half
<1> HIDE DEF g
<1>3. ASSUME NEW lo \in 0..n, NEW hi \in 0..n
      PROVE  g[<<lo, hi>>] = IF lo >= hi THEN lo ELSE Half(g, p, <<lo, hi>>)
  BY <1>1 DEF Halving
<1> DEFINE Found(lo, hi) == /\ g[<<lo, hi>>] \in lo..hi
                            /\ \A i \in lo..(hi - 1) : p[i] <=> g[<<lo, hi>>] <= i
           Good == {s \in Nat : \A lo, hi \in 0..n : lo <= hi /\ hi - lo <= s => Found(lo, hi)}
<1>4. 0 \in Good
  <2> SUFFICES ASSUME NEW lo \in 0..n, NEW hi \in 0..n, lo <= hi, hi - lo <= 0
               PROVE  Found(lo, hi)
    OBVIOUS
  <2>1. lo = hi /\ lo..(hi - 1) = {}
    OBVIOUS
  <2>2. g[<<lo, hi>>] = lo
    BY <1>3, <2>1
  <2> QED
    BY <2>1, <2>2
<1>5. ASSUME NEW s \in 0..(n - 1), s \in Good
      PROVE  s + 1 \in Good
  <2> SUFFICES ASSUME NEW lo \in 0..n, NEW hi \in 0..n, lo <= hi, hi - lo <= s + 1
               PROVE  Found(lo, hi)
    BY <1>5
  <2>1. CASE hi - lo <= s
    BY <1>5, <2>1
  <2>2. CASE ~ (hi - lo <= s)
    <3>1. PICK mid \in Int : mid = (lo + hi) \div 2 /\ lo <= mid /\ mid < hi
      BY <2>2, Middle
    <3>2. /\ lo < hi /\ mid \in 0..n /\ mid + 1 \in 0..n /\ mid \in 0..(n - 1)
          /\ mid - lo <= s /\ hi - (mid + 1) <= s /\ mid + 1 <= hi
      BY <2>2, <3>1
    <3>3. Found(lo, mid) /\ Found(mid + 1, hi)
      BY <1>5, <3>1, <3>2
    <3>4. g[<<lo, hi>>] = IF p[mid] THEN g[<<lo, mid>>] ELSE g[<<mid + 1, hi>>]
      BY <1>3, <3>1, <3>2 DEF Half
    <3>5. CASE p[mid]
      <4>1. g[<<lo, hi>>] = g[<<lo, mid>>]
        BY <3>4, <3>5
      <4>2. \A i \in mid..(hi - 1) : p[i]
        BY <3>1, <3>2, <3>5 DEF Lasts
      <4> QED
        BY <3>1, <3>2, <3>3, <4>1, <4>2
    <3>6. CASE ~ p[mid]
      <4>1. g[<<lo, hi>>] = g[<<mid + 1, hi>>]
        BY <3>4, <3>6
      <4>2. \A i \in lo..mid : ~ p[i]
        BY <3>1, <3>2, <3>6 DEF Lasts
      <4> QED
        BY <3>1, <3>2, <3>3, <4>1, <4>2
    <3> QED
      BY <3>5, <3>6
  <2> QED
    BY <2>1, <2>2
<1>6. n \in Good
  <2> HIDE DEF Good
  <2> QED
    BY <1>4, <1>5, UpTo
<1>7. Found(0, n)
  BY <1>6
<1> QED
  BY <1>2, <1>7

\* The width of a tie is the number of those level (TieAt of views.go).
THEOREM TiesAreCounted ==
  ASSUME NEW n \in Nat, NEW scores \in [1..n -> Int], NEW rank \in 1..n,
         \A p, q \in 1..n : p <= q => scores[p] >= scores[q]
  PROVE  TieAt(scores, rank) = Cardinality({p \in 1..n : scores[p] = scores[rank]})
<1> DEFINE v == scores[rank]
           level == {p \in 1..n : scores[p] = v}
           above == [mid \in 0..(rank - 2) |-> scores[mid + 1] <= v]
           below == [mid \in 0..(n - rank - 1) |-> scores[rank + mid + 1] < v]
           alone == (rank = 1 \/ scores[rank - 1] # v) /\ (rank = n \/ scores[rank + 1] # v)
           first == Search(rank - 1, above)
           rest == Search(n - rank, below)
<1>1. Len(scores) = n /\ v \in Int
  BY FilledIs
<1>2. TieAt(scores, rank) = IF alone THEN 1 ELSE (rank + rest) - first
  <2>1. ~ (rank <= 0 \/ rank > n)
    OBVIOUS
  <2> QED
    BY <1>1, <2>1 DEF TieAt
<1>3. rank - 1 \in Nat /\ n - rank \in Nat /\ (rank - 1) - 1 = rank - 2
  OBVIOUS
<1>4. ASSUME NEW i \in 0..(rank - 2)
      PROVE  i + 1 \in 1..n /\ (above[i] <=> scores[i + 1] <= v)
  <2>1. i + 1 \in 1..n
    OBVIOUS
  <2>2. above[i] = (scores[i + 1] <= v)
    BY Zenon
  <2> QED
    BY <2>1, <2>2, Zenon
<1>5. ASSUME NEW i \in 0..(n - rank - 1)
      PROVE  rank + i + 1 \in 1..n /\ (below[i] <=> scores[rank + i + 1] < v)
  <2>1. rank + i + 1 \in 1..n
    OBVIOUS
  <2>2. below[i] = (scores[rank + i + 1] < v)
    BY Zenon
  <2> QED
    BY <2>1, <2>2, Zenon
<1>6. Lasts(rank - 1, above)
  <2> SUFFICES ASSUME NEW i \in 0..(rank - 2), NEW j \in 0..(rank - 2), above[i], i <= j
               PROVE  above[j]
    BY <1>3 DEF Lasts
  <2>1. scores[i + 1] <= v /\ scores[i + 1] \in Int /\ scores[j + 1] \in Int
        /\ scores[i + 1] >= scores[j + 1]
    BY <1>4
  <2> QED
    BY <1>1, <1>4, <2>1
<1>7. Lasts(n - rank, below)
  <2> SUFFICES ASSUME NEW i \in 0..(n - rank - 1), NEW j \in 0..(n - rank - 1), below[i], i <= j
               PROVE  below[j]
    BY DEF Lasts
  <2>1. /\ scores[rank + i + 1] < v /\ scores[rank + i + 1] >= scores[rank + j + 1]
        /\ scores[rank + i + 1] \in Int /\ scores[rank + j + 1] \in Int
    BY <1>5
  <2> QED
    BY <1>1, <1>5, <2>1
<1> HIDE DEF v, above, below
<1>8. first \in 0..(rank - 1) /\ \A i \in 0..(rank - 2) : above[i] <=> first <= i
  BY <1>3, <1>6, SearchFinds
<1>9. rest \in 0..(n - rank) /\ \A i \in 0..(n - rank - 1) : below[i] <=> rest <= i
  BY <1>3, <1>7, SearchFinds
<1> HIDE DEF first, rest
<1>10. ASSUME NEW p \in 1..n
       PROVE  scores[p] = v <=> p \in (first + 1)..(rank + rest)
  <2>1. v = scores[rank] /\ scores[p] \in Int
    BY DEF v
  <2>2. CASE p < rank
    <3>1. PICK i \in 0..(rank - 2) : p = i + 1
      BY <2>2
    <3>2. scores[p] <= v <=> first <= i
      BY <1>4, <1>8, <3>1
    <3>3. scores[p] >= v
      BY <2>1, <2>2
    <3> QED
      BY <1>1, <1>8, <1>9, <2>1, <3>1, <3>2, <3>3
  <2>3. CASE p = rank
    BY <1>8, <1>9, <2>1, <2>3
  <2>4. CASE p > rank
    <3>1. PICK i \in 0..(n - rank - 1) : p = rank + i + 1
      BY <2>4
    <3>2. scores[p] < v <=> rest <= i
      BY <1>5, <1>9, <3>1
    <3>3. scores[p] <= v
      BY <2>1, <2>4
    <3> QED
      BY <1>1, <1>8, <1>9, <2>1, <3>1, <3>2, <3>3
  <2> QED
    BY <2>2, <2>3, <2>4
<1>11. level = (first + 1)..(rank + rest)
  BY <1>8, <1>9, <1>10
<1>12. Cardinality(level) = (rank + rest) - first
  <2> HIDE DEF level
  <2>1. first + 1 \in Int /\ rank + rest \in Int /\ first + 1 <= rank + rest
    BY <1>8, <1>9
  <2>2. Cardinality((first + 1)..(rank + rest)) = (rank + rest) - (first + 1) + 1
    BY <2>1, FS_Interval
  <2> QED
    BY <1>8, <1>9, <1>11, <2>2
<1>13. ASSUME alone
       PROVE  first = rank - 1 /\ rest = 0
  <2>1. ASSUME first # rank - 1
        PROVE  FALSE
    <3>1. rank - 1 \in 1..n /\ rank - 1 \in (first + 1)..(rank + rest) /\ rank # 1
      BY <1>8, <1>9, <2>1
    <3> QED
      BY <1>10, <1>13, <3>1
  <2>2. ASSUME rest # 0
        PROVE  FALSE
    <3>1. rank + 1 \in 1..n /\ rank + 1 \in (first + 1)..(rank + rest) /\ rank # n
      BY <1>8, <1>9, <2>2
    <3> QED
      BY <1>10, <1>13, <3>1
  <2> QED
    BY <2>1, <2>2
<1> HIDE DEF alone, level
<1>14. TieAt(scores, rank) = Cardinality(level)
  <2>1. alone => (rank + rest) - first = 1
    BY <1>13
  <2> QED
    BY <1>2, <1>12, <2>1
<1> QED
  BY <1>14 DEF level, v

\* The standing of the month is the number of those who produced more, and one,
\* of those who produced at all (MonthStanding of views.go).
THEOREM StandingsAreCounted ==
  ASSUME NEW n \in Nat, NEW vals \in [1..n -> Int], NEW self \in Int, n # 0, self > 0,
         \A p, q \in 1..n : p <= q => vals[p] >= vals[q],
         \E p \in 1..n : vals[p] > 0
  PROVE  MonthStanding(vals, self) =
           <<1 + Cardinality({p \in 1..n : vals[p] > self}),
             Cardinality({p \in 1..n : vals[p] > 0})>>
<1> DEFINE upTo(v) == [i \in 0..(n - 1) |-> vals[i + 1] <= v]
           first(v) == Search(n, upTo(v))
<1>1. Len(vals) = n
  BY FilledIs
<1>2. MonthStanding(vals, self) = ShareOf(first(self) + 1, first(0))
  BY <1>1 DEF MonthStanding
<1>3. ASSUME NEW v \in Int
      PROVE  first(v) \in 0..n /\ first(v) = Cardinality({p \in 1..n : vals[p] > v})
  <2>1. ASSUME NEW i \in 0..(n - 1)
        PROVE  i + 1 \in 1..n /\ (upTo(v)[i] <=> vals[i + 1] <= v)
    <3>1. i + 1 \in 1..n
      OBVIOUS
    <3>2. upTo(v)[i] = (vals[i + 1] <= v)
      BY Zenon
    <3> QED
      BY <3>1, <3>2, Zenon
  <2> DEFINE p0 == upTo(v)
             r == Search(n, p0)
  <2>2. Lasts(n, p0)
    <3> SUFFICES ASSUME NEW i \in 0..(n - 1), NEW j \in 0..(n - 1), p0[i], i <= j
                 PROVE  p0[j]
      BY DEF Lasts
    <3> HIDE DEF upTo
    <3>1. /\ vals[i + 1] <= v /\ vals[i + 1] >= vals[j + 1]
          /\ vals[i + 1] \in Int /\ vals[j + 1] \in Int
      BY <2>1
    <3> QED
      BY <2>1, <3>1
  <2> HIDE DEF upTo, p0
  <2>3. r \in 0..n /\ \A i \in 0..(n - 1) : p0[i] <=> r <= i
    BY <2>2, SearchFinds
  <2> HIDE DEF r
  <2>4. ASSUME NEW p \in 1..n
        PROVE  vals[p] > v <=> p \in 1..r
    <3>1. PICK i \in 0..(n - 1) : p = i + 1
      OBVIOUS
    <3>2. vals[p] <= v <=> r <= i
      BY <2>1, <2>3, <3>1 DEF p0
    <3>3. vals[p] \in Int
      OBVIOUS
    <3> QED
      BY <2>3, <3>1, <3>2, <3>3
  <2>5. {p \in 1..n : vals[p] > v} = 1..r
    BY <2>3, <2>4
  <2>6. Cardinality(1..r) = r
    BY <2>3, FS_Interval
  <2> QED
    BY <2>3, <2>5, <2>6 DEF r, p0
<1> HIDE DEF first
<1>4. first(0) >= 1
  <2>1. PICK p \in 1..n : vals[p] > 0
    OBVIOUS
  <2> DEFINE above == {q \in 1..n : vals[q] > 0}
  <2>2. IsFiniteSet(1..n)
    BY FS_Interval
  <2>3. IsFiniteSet(above) /\ above # {}
    BY <2>1, <2>2, FS_Subset
  <2> HIDE DEF above
  <2>4. Cardinality(above) \in Nat /\ Cardinality(above) # 0
    BY <2>3, FS_EmptySet, FS_CardinalityType
  <2> QED
    BY <1>3, <2>4 DEF above
<1>5. PICK a \in 0..n : a = first(self) /\ a = Cardinality({p \in 1..n : vals[p] > self})
  BY <1>3
<1>6. PICK b \in 0..n : b = first(0) /\ b = Cardinality({p \in 1..n : vals[p] > 0})
  <2>1. 0 \in Int
    OBVIOUS
  <2> QED
    BY <1>3, <2>1
<1>7. ShareOf(a + 1, b) = <<1 + a, b>>
  BY <1>4, <1>6 DEF ShareOf
<1> QED
  BY <1>2, <1>5, <1>6, <1>7

-----------------------------------------------------------------------------
(* Teams, and movement.                                                      *)

\* The rank in a team counts those of the team that are ahead
\* (buildMembers of rank.go).
THEOREM TeamRanksCountThoseAhead ==
  ASSUME NEW c, NEW n \in Nat, DOMAIN c.members = 1..n,
         \A i \in 1..n : c.members[i].score \in 0..(Keys - 1),
         NEW slot \in 1..n
  PROVE  InTeamRank(c, MemberOrder(c), slot) =
           Place(ScoresOf(c.members), {j \in 1..n : c.members[j].team = c.members[slot].team}, slot)
<1> DEFINE scores == ScoresOf(c.members)
           order == MemberOrder(c)
           mates == {j \in 1..n : c.members[j].team = c.members[slot].team}
           r == RanksIn(order)[slot]
           P == {p \in 1..(r - 1) : order[p] \in mates}
           Q == {p \in 1..r : c.members[order[p]].team = c.members[slot].team}
<1>1. scores \in [1..n -> 0..(Keys - 1)]
  BY DEF ScoresOf
<1>2. order = SortDescByScore(scores)
  BY DEF MemberOrder
<1>3. InTeamRank(c, order, slot) = Cardinality(Q)
  BY DEF InTeamRank
<1> HIDE DEF scores, order
<1>4. BestOrder(n, scores, order)
  BY <1>1, <1>2, SortIsStable
<1>5. scores \in [1..n -> Int] /\ mates \in SUBSET (1..n)
  BY <1>1
<1> HIDE DEF mates
<1>6. r \in 1..n /\ order[r] = slot /\ Cardinality(P) + 1 = Place(scores, mates, slot)
  <2>0. n \in Nat /\ slot \in 1..n
    OBVIOUS
  <2>1. RanksIn(order)[slot] \in 1..n /\ order[RanksIn(order)[slot]] = slot
    BY ONLY <1>4, <1>5, <2>0, RankCounts
  <2>2. Cardinality({p \in 1..(RanksIn(order)[slot] - 1) : order[p] \in mates}) + 1
          = Place(scores, mates, slot)
    <3>1. PICK rank \in 1..n : rank = RanksIn(order)[slot]
      BY <2>1
    <3>2. Cardinality({p \in 1..(rank - 1) : order[p] \in mates}) + 1 = Place(scores, mates, slot)
      BY ONLY <1>4, <1>5, <2>0, <3>1, RankCounts
    <3> QED
      BY <3>1, <3>2
  <2> QED
    BY <2>1, <2>2
<1>7. order \in [1..n -> 1..n]
  BY <1>4 DEF BestOrder, Arrangement
<1> HIDE DEF r
<1>8. Q = P \cup {r} /\ r \notin P
  <2>1. \A p \in 1..r : order[p] \in 1..n
    BY <1>6, <1>7
  <2> QED
    BY <1>6, <2>1 DEF mates
<1>9. IsFiniteSet(P)
  <2>1. IsFiniteSet(1..(r - 1))
    <3>1. r - 1 \in Int /\ 1 \in Int
      BY <1>6
    <3> QED
      BY <3>1, FS_Interval
  <2> QED
    BY <2>1, FS_Subset
<1> HIDE DEF P, Q
<1>10. Cardinality(Q) = Cardinality(P) + 1
  BY <1>8, <1>9, FS_AddElement
<1>11. InTeamRank(c, order, slot) = Place(scores, mates, slot)
  BY <1>3, <1>6, <1>10
<1> QED
  BY <1>11 DEF order, scores, mates

LEMMA LeastOfTwo ==
  ASSUME NEW a \in Int, NEW b \in Int
  PROVE  Min({a, b}) = IF a <= b THEN a ELSE b
BY DEF Min

\* A corpus of n scores, of which those of the first base slots existed a day ago.
DayAgo(n, scores, last24, baseline, base, then) ==
  /\ n \in Nat \ {0} /\ baseline \in Nat \ {0}
  /\ base = IF baseline <= n THEN baseline ELSE n
  /\ scores \in [1..n -> Int]
  /\ \A i \in 1..n : HistScore(scores[i], last24[i]) \in 0..(Keys - 1)
  /\ \A i \in 1..base : then[i] = HistScore(scores[i], last24[i])

\* The places of a day ago, less the ranks of now.
PlacesGained(movement, base, then, nowRank) ==
  /\ DOMAIN movement = 1..base
  /\ \A i \in 1..base : movement[i] = Place(then, 1..base, i) - nowRank[i]

\* The movement of a day is the place then, among those that existed, less the
\* rank now (change24h of rank.go).
THEOREM MovementIsPlacesGained ==
  ASSUME NEW n, NEW scores, NEW last24, NEW baseline, NEW base, NEW then, NEW nowRank,
         DayAgo(n, scores, last24, baseline, base, then)
  PROVE  PlacesGained(Change24h(scores, last24, baseline, nowRank), base, then, nowRank)
<1> USE DEF DayAgo
<1>0. PICK movement : movement = Change24h(scores, last24, baseline, nowRank)
  OBVIOUS
<1> DEFINE past == [i \in 1..base |-> HistScore(scores[i], last24[i])]
           ranks == RanksIn(SortDescByScore(past))
<1>1. Len(scores) = n
  BY FilledIs
<1>2. base \in Nat /\ base # 0 /\ base <= n /\ base = Min({baseline, n})
  BY LeastOfTwo
<1>3. movement = [i \in 1..base |-> ranks[i] - nowRank[i]]
  BY <1>0, <1>1, <1>2 DEF Change24h
<1>4. past \in [1..base -> 0..(Keys - 1)]
  BY <1>2
<1>5. \A i \in 1..base : past[i] = then[i]
  OBVIOUS
<1> HIDE DEF past
<1>6. ranks = [i \in 1..base |-> Place(past, 1..base, i)]
  BY <1>2, <1>4, RanksCountThoseAhead
<1> HIDE DEF ranks
<1>7. ASSUME NEW i \in 1..base
      PROVE  movement[i] = Place(then, 1..base, i) - nowRank[i]
  <2>1. movement[i] = ranks[i] - nowRank[i] /\ ranks[i] = Place(past, 1..base, i)
    BY <1>3, <1>6
  <2>2. {j \in 1..base : past[j] > past[i] \/ (past[j] = past[i] /\ j < i)}
          = {j \in 1..base : then[j] > then[i] \/ (then[j] = then[i] /\ j < i)}
    BY <1>5
  <2>3. Place(past, 1..base, i) = Place(then, 1..base, i)
    BY <2>2 DEF Place
  <2> QED
    BY <2>1, <2>3
<1> QED
  BY <1>0, <1>3, <1>7 DEF PlacesGained

-----------------------------------------------------------------------------
(* The run: a corpus is answered by its tables.                              *)

RankInv ==
  subject = "ranking" =>
    /\ input \in Rankings
    /\ answer = Pending \/ answer = Tables(input)

LEMMA RankInvHolds == Spec => []RankInv
<1>1. Init => RankInv
  <2> SUFFICES ASSUME Init, subject = "ranking" PROVE RankInv
    BY DEF RankInv
  <2>1. \E x \in Rankings : Given("ranking", x)
    BY DEF Init, Given
  <2> QED
    BY <2>1 DEF RankInv, Given
<1>2. RankInv /\ [Next]_vars => RankInv'
  <2> SUFFICES ASSUME RankInv, [Next]_vars PROVE RankInv'
    OBVIOUS
  <2>1. CASE Ranked
    BY <2>1 DEF RankInv, Ranked, Answers
  <2>2. CASE UNCHANGED vars
    BY <2>2 DEF RankInv, vars
  <2>3. CASE subject # "ranking" /\ subject' = subject
    BY <2>3 DEF RankInv
  <2>4. \A s, x : Answers(s, x) => subject = s /\ subject' = subject
    BY DEF Answers
  <2>5. CASE Reconciled
    BY <2>3, <2>4, <2>5 DEF Reconciled
  <2>6. CASE Projected
    BY <2>3, <2>4, <2>6 DEF Projected
  <2>7. CASE Paged
    BY <2>3, <2>4, <2>7 DEF Paged
  <2>8. CASE Listed
    BY <2>3, <2>4, <2>8 DEF Listed
  <2>9. CASE Polled
    BY <2>3, <2>4, <2>9 DEF Polled
  <2>10. CASE Charted
    BY <2>3, <2>4, <2>10 DEF Charted
  <2>11. CASE Searched
    BY <2>3, <2>4, <2>11 DEF Searched
  <2>12. CASE Read
    BY <2>3, <2>4, <2>12 DEF Read
  <2>13. CASE Queried
    BY <2>3, <2>4, <2>13 DEF Queried
  <2>14. CASE Metered
    BY <2>3, <2>4, <2>14 DEF Metered
  <2> QED
    BY <2>1, <2>2, <2>5, <2>6, <2>7, <2>8, <2>9, <2>10, <2>11, <2>12, <2>13, <2>14 DEF Next
<1> QED
  BY <1>1, <1>2, PTL DEF Spec

LEMMA GreatestOfTwo ==
  ASSUME NEW a \in Int, NEW b \in Int
  PROVE  Max({a, b}) = IF a >= b THEN a ELSE b
BY DEF Max

\* What the tables of the run hold, in terms of the scores of its members.
LEMMA TablesAre ==
  ASSUME NEW r \in Rankings
  PROVE  LET c == Corpus(r.names, Scores(r))
             order == MemberOrder(c)
         IN /\ Scores(r) \in [1..4 -> 0..(Keys - 1)] /\ ScoresOf(c.members) = Scores(r)
            /\ DOMAIN c.members = 1..4 /\ order = SortDescByScore(Scores(r))
            /\ \A i \in 1..4 : c.members[i].score = Scores(r)[i] /\ c.members[i].team = TeamsOf[i]
            /\ Tables(r).ranks = RanksIn(order)
            /\ \A i \in 1..4 : Tables(r).inTeam[i] = InTeamRank(c, order, i)
            /\ Tables(r).ties = [i \in 1..4 |->
                 TieAt([p \in 1..4 |-> Scores(r)[order[p]]], RanksIn(order)[i])]
            /\ Tables(r).movement = Change24h(Scores(r), r.made, r.baseline, RanksIn(order))
<1> DEFINE c == Corpus(r.names, Scores(r))
           table == Build(c)
           order == MemberOrder(c)
<1>1. /\ r.then \in [1..4 -> {0, 1, 2}] /\ r.made \in [1..4 -> {-1, 0, 2}]
      /\ \A i \in 1..4 : r.then[i] + r.made[i] >= 0
  BY DEF Rankings
<1>2. Keys \in Nat /\ Keys > 4
  BY SortAssumption, WeightIs, ScoresAssumption DEF Keys
<1>3. Scores(r) \in [1..4 -> 0..(Keys - 1)]
  <2>1. ASSUME NEW i \in 1..4
        PROVE  r.then[i] + r.made[i] \in 0..(Keys - 1)
    BY <1>1, <1>2
  <2> QED
    BY <2>1 DEF Scores
<1>4. DOMAIN Scores(r) = 1..4
  BY DEF Scores
<1>5. DOMAIN c.members = 1..4
      /\ \A i \in 1..4 : c.members[i].score = Scores(r)[i] /\ c.members[i].team = TeamsOf[i]
  BY <1>4 DEF Corpus
<1> HIDE DEF c
<1>6. ScoresOf(c.members) = Scores(r)
  <2>1. ScoresOf(c.members) = [i \in 1..4 |-> Scores(r)[i]]
    BY <1>5 DEF ScoresOf
  <2> QED
    BY <1>3, <2>1
<1>7. order = SortDescByScore(Scores(r))
  BY <1>6 DEF MemberOrder
<1>8. /\ table.memberOrder = order /\ table.memberRank = RanksIn(order)
      /\ table.inTeamRank = [slot \in 1..4 |-> InTeamRank(c, order, slot)]
  BY <1>5 DEF Build
<1> HIDE DEF table, order
<1>9. /\ Tables(r).ranks = table.memberRank /\ Tables(r).inTeam = table.inTeamRank
      /\ Tables(r).ties = [i \in 1..4 |->
           TieAt([p \in 1..4 |-> Scores(r)[table.memberOrder[p]]], table.memberRank[i])]
      /\ Tables(r).movement = Change24h(Scores(r), r.made, r.baseline, table.memberRank)
  BY DEF Tables, table, c
<1> QED
  BY <1>3, <1>5, <1>6, <1>7, <1>8, <1>9 DEF order, c

\* Ranks, ties and movement are what they are said to be, in the order and the
\* counters of a publish (sortDescByScore, buildMembers, change24h and tieAt).
THEOREM RanksAreTrue == Spec => []RanksAreHonest
<1>1. RankInv => RanksAreHonest
  <2> SUFFICES ASSUME RankInv, subject = "ranking", answer # Pending
               PROVE  RanksAreHonest
    BY DEF RanksAreHonest
  <2>1. PICK r \in Rankings : r = input /\ answer = Tables(r)
    BY DEF RankInv
  <2>11. PICK now, c, order, ranks :
           /\ now = Scores(r) /\ c = Corpus(r.names, now)
           /\ order = MemberOrder(c) /\ ranks = RanksIn(order)
    OBVIOUS
  <2> DEFINE team(i) == {j \in 1..4 : TeamsOf[j] = TeamsOf[i]}
  <2>2. /\ now \in [1..4 -> 0..(Keys - 1)] /\ ScoresOf(c.members) = now
        /\ DOMAIN c.members = 1..4 /\ order = SortDescByScore(now)
        /\ \A i \in 1..4 : c.members[i].score = now[i] /\ c.members[i].team = TeamsOf[i]
        /\ answer.ranks = ranks
        /\ \A i \in 1..4 : answer.inTeam[i] = InTeamRank(c, order, i)
        /\ answer.ties = [i \in 1..4 |-> TieAt([p \in 1..4 |-> now[order[p]]], ranks[i])]
        /\ answer.movement = Change24h(now, r.made, r.baseline, ranks)
    BY <2>1, <2>11, TablesAre
  <2>3. /\ r.then \in [1..4 -> {0, 1, 2}] /\ r.made \in [1..4 -> {-1, 0, 2}]
        /\ r.baseline \in {0, 3, 4}
        /\ \A i \in 1..4 : now[i] = r.then[i] + r.made[i]
    BY <2>11 DEF Rankings, Scores
  <2>10. PICK n \in Nat : n = 4
    OBVIOUS
  <2>4. /\ BestOrder(n, now, order) /\ now \in [1..n -> Int]
        /\ now \in [1..n -> 0..(Keys - 1)] /\ order = SortDescByScore(now)
    <3>1. now \in [1..n -> 0..(Keys - 1)] /\ order = SortDescByScore(now)
      BY <2>2, <2>10
    <3>2. now \in [1..n -> Int]
      BY <3>1
    <3> QED
      BY <3>1, <3>2, SortIsStable
  <2>5. \A i \in 1..n : ranks[i] = Place(now, 1..n, i)
    <3>1. RanksIn(SortDescByScore(now)) = [i \in 1..n |-> Place(now, 1..n, i)]
      BY <2>4, RanksCountThoseAhead
    <3> HIDE DEF Place, RanksIn
    <3> QED
      BY <2>4, <2>11, <3>1
  <2>6. ASSUME NEW i \in 1..n
        PROVE  answer.inTeam[i] = Place(now, team(i), i)
    <3>1. i \in 1..4 /\ DOMAIN c.members = 1..n
          /\ \A j \in 1..n : c.members[j].score \in 0..(Keys - 1)
      BY <2>2, <2>10
    <3>2. InTeamRank(c, order, i) =
            Place(now, {j \in 1..n : c.members[j].team = c.members[i].team}, i)
      <4>1. InTeamRank(c, MemberOrder(c), i) =
              Place(ScoresOf(c.members), {j \in 1..n : c.members[j].team = c.members[i].team}, i)
        BY <3>1, TeamRanksCountThoseAhead
      <4> QED
        BY <2>2, <2>11, <4>1
    <3>3. {j \in 1..n : c.members[j].team = c.members[i].team} = team(i)
      BY <2>2, <2>10, <3>1
    <3> QED
      BY <2>2, <3>1, <3>2, <3>3
  <2>7. ASSUME NEW i \in 1..n
        PROVE  answer.ties[i] = Cardinality({j \in 1..n : now[j] = now[i]})
    <3> DEFINE along == [p \in 1..n |-> now[order[p]]]
               P == {p \in 1..n : along[p] = along[ranks[i]]}
    <3>1. ranks[i] \in 1..n /\ order[ranks[i]] = i
      BY <2>4, <2>11, RankCounts
    <3>2. \A p \in 1..n : order[p] \in 1..n
      BY <2>4 DEF BestOrder, Arrangement
    <3>3. along \in [1..n -> Int]
      BY <2>4, <3>2
    <3>4. ASSUME NEW p \in 1..n, NEW q \in 1..n, p <= q
          PROVE  along[p] >= along[q]
      <4>1. now[order[p]] \in Int /\ now[order[q]] \in Int
        BY <2>4, <3>2
      <4>2. p < q => now[order[p]] > now[order[q]] \/ now[order[p]] = now[order[q]]
        BY <2>4 DEF BestOrder
      <4>3. p = q \/ p < q
        BY <3>4
      <4> QED
        BY <4>1, <4>2, <4>3
    <3>5. P = {p \in 1..n : now[order[p]] = now[i]}
      BY <3>1
    <3> HIDE DEF along, P
    <3>6. TieAt(along, ranks[i]) = Cardinality(P)
      <4>1. PICK rank \in 1..n : rank = ranks[i]
        BY <3>1
      <4>2. TieAt(along, rank) = Cardinality({p \in 1..n : along[p] = along[rank]})
        BY <3>3, <3>4, TiesAreCounted
      <4> QED
        BY <4>1, <4>2 DEF P
    <3>7. {order[p] : p \in P} = {j \in 1..n : now[j] = now[i]}
      <4>1. ASSUME NEW p \in P
            PROVE  order[p] \in {j \in 1..n : now[j] = now[i]}
        BY <3>2, <3>5
      <4>2. ASSUME NEW j \in 1..n, now[j] = now[i]
            PROVE  \E p \in P : order[p] = j
        <5>1. PICK p \in 1..n : order[p] = j
          BY <2>4 DEF BestOrder, Arrangement
        <5> QED
          BY <3>5, <4>2, <5>1
      <4> QED
        BY <4>1, <4>2
    <3>8. Cardinality({order[p] : p \in P}) = Cardinality(P)
      BY <2>4, <3>5, CountedAlong DEF BestOrder
    <3>9. answer.ties[i] = TieAt(along, ranks[i])
      BY <2>2, <2>10 DEF along
    <3> QED
      BY <3>6, <3>7, <3>8, <3>9
  <2>8. /\ DOMAIN answer.movement = 1..r.baseline
        /\ \A i \in 1..r.baseline :
             answer.movement[i] = Place(r.then, 1..r.baseline, i) - Place(now, 1..n, i)
    <3>1. CASE r.baseline = 0
      <4>1. Len(now) = n /\ Min({0, n}) = 0
        <5>1. 0 \in Int /\ n \in Int /\ 0 <= n
          OBVIOUS
        <5>2. Len(now) = n
          BY <2>4, FilledIs
        <5> QED
          BY <5>1, <5>2, LeastOfTwo
      <4>2. answer.movement = << >>
        BY <2>2, <3>1, <4>1 DEF Change24h, NoMovement
      <4> QED
        BY <3>1, <4>2
    <3>2. CASE r.baseline # 0
      <4>1. PICK b, made, then, movement :
              b = r.baseline /\ made = r.made /\ then = r.then /\ movement = answer.movement
        OBVIOUS
      <4>2. b \in 1..n /\ b \in Nat /\ b # 0 /\ n # 0 /\ b <= n
        BY <2>3, <2>10, <3>2, <4>1
      <4>3. ASSUME NEW i \in 1..n
            PROVE  HistScore(now[i], made[i]) = then[i] /\ then[i] \in 0..(Keys - 1)
        <5>1. PICK x \in {0, 1, 2}, y \in {-1, 0, 2} :
                x = then[i] /\ y = made[i] /\ now[i] = x + y
          BY <2>3, <2>10, <4>1
        <5>2. x \in Int /\ 0 \in Int /\ x >= 0 /\ now[i] - made[i] = x
          BY <5>1
        <5>3. Max({x, 0}) = x
          BY <5>2, GreatestOfTwo
        <5>4. Keys \in Nat /\ Keys > 4
          BY SortAssumption, WeightIs, ScoresAssumption DEF Keys
        <5>5. HistScore(now[i], made[i]) = Max({now[i] - made[i], 0})
          BY DEF HistScore
        <5>6. HistScore(now[i], made[i]) = x
          BY <5>2, <5>3, <5>5
        <5> QED
          BY <5>1, <5>4, <5>6
      <4>4. movement = Change24h(now, made, b, ranks)
        BY <2>2, <4>1
      <4>5. \A i \in 1..n : HistScore(now[i], made[i]) \in 0..(Keys - 1)
        BY <4>3
      <4>6. \A i \in 1..b : then[i] = HistScore(now[i], made[i])
        BY <4>2, <4>3
      <4>7. /\ DOMAIN movement = 1..b
            /\ \A i \in 1..b : movement[i] = Place(then, 1..b, i) - ranks[i]
        <5>1. DayAgo(n, now, made, b, b, then)
          BY <2>4, <4>2, <4>5, <4>6 DEF DayAgo
        <5>2. PlacesGained(Change24h(now, made, b, ranks), b, then, ranks)
          BY <5>1, MovementIsPlacesGained
        <5> QED
          BY <4>4, <5>2 DEF PlacesGained
      <4>8. \A i \in 1..b : i \in 1..n
        BY <4>2
      <4> QED
        BY <2>5, <4>1, <4>7, <4>8
    <3> QED
      BY <3>1, <3>2
  <2>9. now = Scores(input)
    BY <2>1, <2>11
  <2> HIDE DEF Place
  <2> QED
    BY <2>1, <2>2, <2>5, <2>6, <2>7, <2>8, <2>9, <2>10 DEF RanksAreHonest
<1> QED
  BY <1>1, RankInvHolds, PTL
=============================================================================
