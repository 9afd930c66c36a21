----------------------------- MODULE Reconcile -----------------------------
(***************************************************************************)
(* What one snapshot pair contributes: src/internal/model/reconcile.go and *)
(* ValidateSnapshot of src/internal/model/state.go, as the ingest of       *)
(* src/internal/service/service.go chains them.                            *)
(*                                                                         *)
(* A file of the user feed gives each row (a name on a team) its           *)
(* cumulative counters, a file of the team feed each team its own; a row   *)
(* that a file does not hold is Absent.  The members of a team are rows    *)
(* of the user file, so claiming more than the team has takes one forged   *)
(* row.  int64 is an interval of integers whose upper end is MaxSum.       *)
(***************************************************************************)
EXTENDS Integers, FiniteSets, Functions

CONSTANTS
  Members,    \* the (name, team) pairs that the user feed has rows for
  Teams,      \* the team numbers, of the team feed or named by a member row
  TeamOf,     \* the team of each member
  Counters,   \* the cumulative columns of a row: the score and the work units
  Score,      \* the column that the tolerance applies to
  Absent,     \* what a file holds for an entity it has no row for
  WarnAt,     \* ReconcileWarnAt
  Tolerance,  \* ReconcileTolerance
  MaxSum      \* math.MaxInt64

ASSUME FiniteAssumption == IsFiniteSet(Members) /\ IsFiniteSet(Teams)
ASSUME TeamOfAssumption == TeamOf \in [Members -> Teams]
ASSUME CountersAssumption == Score \in Counters
ASSUME ThresholdAssumption ==
  /\ WarnAt \in Nat /\ Tolerance \in Nat /\ MaxSum \in Nat
  /\ WarnAt <= Tolerance

Row == [Counters -> Int]

ASSUME AbsentAssumption == Absent \notin Row

TeamFile == [Teams -> Row \cup {Absent}]
UserFile == [Members -> Row \cup {Absent}]

-----------------------------------------------------------------------------
(* The rows of a file and the sums over them. *)

Present(file) == {e \in DOMAIN file : file[e] # Absent}

Column(file, S, c) == [e \in S |-> file[e][c]]

Total(file, S, c) == SumFunction(Column(file, S, c))

\* The accumulating add of both functions refuses a negative value and a sum
\* past MaxInt64.  The sums are of non-negative values, so that the order of
\* the rows does not decide whether some add refuses.
Overflows(file, S, c) ==
  \/ \E e \in S : file[e][c] < 0
  \/ Total(file, S, c) > MaxSum

\* One half of ValidateSnapshot; the other feed's rows are summed separately.
ValidFile(file) == \A c \in Counters : ~ Overflows(file, Present(file), c)

-----------------------------------------------------------------------------
(* Reconcile. *)

Authoritative(teams, t, c) == IF t \in Present(teams) THEN teams[t][c] ELSE 0

Roster(users, t) == {m \in Present(users) : TeamOf[m] = t}

Claimed(users, t, c) == Total(users, Roster(users, t), c)

\* Mutants: the corpus total is not looked at; it implicates every team.
Overflow_TeamOnly(teams, users, t) ==
  \E c \in Counters : Overflows(users, Roster(users, t), c)

Overflow_Everyone(teams, users, t) ==
  \E c \in Counters : Overflows(users, Roster(users, t), c)
                      \/ Overflows(users, Present(users), c)

\* A counter whose corpus total overflows implicates every team that claims
\* more of it than it has.
Overflow(teams, users, t) ==
  \E c \in Counters :
    \/ Overflows(users, Roster(users, t), c)
    \/ /\ Overflows(users, Present(users), c)
       /\ Claimed(users, t, c) > Authoritative(teams, t, c)

Excess(teams, users, t) ==
  Claimed(users, t, Score) - Authoritative(teams, t, Score)

\* The teams that Reconcile returns.
Reported(teams, users) ==
  {t \in Teams : /\ Roster(users, t) # {}
                 /\ \/ Excess(teams, users, t) > WarnAt
                    \/ Overflow(teams, users, t)}

\* Mutant: a forged team is reported and kept.
Quarantined_OverflowOnly(teams, users) ==
  {t \in Reported(teams, users) : Overflow(teams, users, t)}

\* Those of them whose rows applyCycle drops.
Quarantined(teams, users) ==
  {t \in Reported(teams, users) : \/ Overflow(teams, users, t)
                                  \/ Excess(teams, users, t) > Tolerance}

\* DropTeams.
Admitted(teams, users) ==
  [m \in Members |->
     IF TeamOf[m] \in Quarantined(teams, users) THEN Absent ELSE users[m]]

\* The two validations of applyCycle: the team rows before reconciliation,
\* every row after it.
Accepts(teams, users) ==
  /\ ValidFile(teams)
  /\ ValidFile(Admitted(teams, users))
=============================================================================
