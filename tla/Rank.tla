------------------------------- MODULE Rank -------------------------------
(***************************************************************************)
(* The ranked views that a publish builds: src/internal/rank/rank.go and   *)
(* sort.go, with the rate of src/internal/metrics/window.go.               *)
(*                                                                         *)
(* A corpus is a record of two sequences, members and teams, in the order  *)
(* of their first sighting: a position is a slot, counted here from 1.  A  *)
(* member is a name on a team with its cumulative score and work units; a  *)
(* team is a number, a name and its own counters.  The figures of the      *)
(* rolling windows are sequences by slot.  A rank is counted from 1 and 0  *)
(* stands for none, as in the code.                                        *)
(***************************************************************************)
EXTENDS Integers, Sequences, FiniteSets, SequencesExt, FiniteSetsExt

CONSTANTS
  Base,                \* the digits of one pass of the sort, 256
  Digits,              \* the passes, 8: a score is below Base^Digits
  PseudoIdentityTeams, \* the team count above which a name is no one person
  Day,                 \* the length of a day in the unit of observed spans
  Broad                \* the candidates ranked per result of a search, 20

ASSUME SortAssumption == Base \in Nat \ {0, 1} /\ Digits \in Nat \ {0}
ASSUME RankAssumption ==
  PseudoIdentityTeams \in Nat /\ Day \in Nat \ {0} /\ Broad \in Nat \ {0}

Unranked == 0

Identity(n) == [i \in 1..n |-> i]

SumOver(S, F(_)) == MapThenSumSet(F, S)

-----------------------------------------------------------------------------
(* The sort.  A pass leaves the ids in the order of one digit of their     *)
(* keys and those of one digit in the order they came.  A key is the       *)
(* complement of the bits of a score, so that one below zero wraps round   *)
(* to the smallest keys.                                                   *)

\* What a digit counts for, Base to its power.
Weight[d \in 0..Digits] == IF d = 0 THEN 1 ELSE Base * Weight[d - 1]

Keys == Weight[Digits]

Key(score) == (Keys - 1 - score) % Keys

Digit(key, d) == (key \div Weight[d]) % Base

\* The first n entries of a buffer, as a sequence.
Filled(n, buffer) == SubSeq(buffer, 1, n)

\* The entries ahead of one: of smaller digits, or of its own and before it.
Ahead(digits, p) ==
  {q \in DOMAIN digits : digits[q] < digits[p] \/ (digits[q] = digits[p] /\ q < p)}

\* Every id goes to the place that the counts leave for it.
Pass(keys, order, d) ==
  LET n == Len(order)
      digits == Filled(n, [p \in 1..n |-> Digit(keys[order[p]], d)])
      place == Filled(n, [p \in 1..n |-> Cardinality(Ahead(digits, p)) + 1])
  IN Filled(n, [k \in 1..n |-> order[CHOOSE p \in 1..n : place[p] = k]])

\* From the lowest digit up.
Radix(keys) ==
  LET after[d \in 0..Digits] ==
        IF d = 0 THEN Identity(Len(keys)) ELSE Pass(keys, after[d - 1], d - 1)
  IN after[Digits]

\* Mutant: sorted ascending and reversed, which reverses the ties too.
SortDescByScore_Reversed(scores) == Reverse(Radix(scores))

SortDescByScore(scores) ==
  LET n == Len(scores) IN Radix(Filled(n, [i \in 1..n |-> Key(scores[i])]))

\* The rank of every id of an order.
RanksIn(order) == [id \in ToSet(order) |-> CHOOSE i \in DOMAIN order : order[i] = id]

-----------------------------------------------------------------------------
(* Build: the orders by lifetime score, the rosters and the donors. *)

ScoresOf(rows) == [i \in DOMAIN rows |-> rows[i].score]

TeamOrder(c) == SortDescByScore(ScoresOf(c.teams))

MemberOrder(c) == SortDescByScore(ScoresOf(c.members))

\* The members of a team, in the global order.
TeamMembers(c, order, team) ==
  SelectSeq(order, LAMBDA slot : c.members[slot].team = team)

\* What the counter of its team is at when the walk along the order is at it.
InTeamRank(c, order, slot) ==
  LET at == RanksIn(order)[slot]
  IN Cardinality({p \in 1..at : c.members[order[p]].team = c.members[slot].team})

\* Names with at least one member, in the order of their ids.
NamesHeld(c) ==
  SetToSortSeq({c.members[i].name : i \in DOMAIN c.members}, <)

MembersNamed(c, name) == {i \in DOMAIN c.members : c.members[i].name = name}

Aggregate(c, name) ==
  LET mine == MembersNamed(c, name)
  IN [name |-> name,
      score |-> SumOver(mine, LAMBDA i : c.members[i].score),
      wus |-> SumOver(mine, LAMBDA i : c.members[i].wus),
      teamCount |-> Cardinality(mine),
      likelyNotAPerson |-> Cardinality(mine) > PseudoIdentityTeams]

Donors(c) ==
  LET present == FoldLeft(LAMBDA rows, name : Append(rows, Aggregate(c, name)),
                          <<>>, NamesHeld(c))
      order == SortDescByScore(ScoresOf(present))
  IN [pos \in DOMAIN order |-> present[order[pos]]]

DonorIndex(donors, name) ==
  LET held == {i \in DOMAIN donors : donors[i].name = name}
  IN IF held = {} THEN Unranked ELSE CHOOSE i \in held : TRUE

\* The memberships of a donor, the strongest first.
DonorMembers(c, order, donor) ==
  SelectSeq(order, LAMBDA slot : c.members[slot].name = donor.name)

Build(c) ==
  LET donors == Donors(c)
      teams == TeamOrder(c)
      order == MemberOrder(c)
  IN [teamOrder |-> teams, teamRank |-> RanksIn(teams),
      memberOrder |-> order, memberRank |-> RanksIn(order),
      inTeamRank |-> [slot \in DOMAIN c.members |-> InTeamRank(c, order, slot)],
      donors |-> donors,
      donorMembers |-> [i \in DOMAIN donors |-> DonorMembers(c, order, donors[i])]]

\* The state may have grown past a table: a slot beyond it has no rank.
RankAt(ranks, slot) == IF slot \in DOMAIN ranks THEN ranks[slot] ELSE Unranked

-----------------------------------------------------------------------------
(* Movement over 24 hours.  The baseline counts the slots that existed a   *)
(* day ago, and 0 is no full day observed yet.                             *)

HistScore(score, last24) == Max({score - last24, 0})

NoMovement == <<>>

Change24h(scores, last24, baseline, nowRank) ==
  LET base == Min({baseline, Len(scores)})
      then == RanksIn(SortDescByScore(
                [i \in 1..base |-> HistScore(scores[i], last24[i])]))
  IN IF base = 0 THEN NoMovement
     ELSE [i \in 1..base |-> then[i] - nowRank[i]]

\* Of a donor, over those of its memberships that existed; the past order of
\* two donors level a day ago is the order that they have now.
DonorChange24h(c, donors, last24, baseline) ==
  LET base == Min({baseline, Len(c.members)})
      early(d) == {i \in 1..base : c.members[i].name = donors[d].name}
      known == SelectSeq(Identity(Len(donors)), LAMBDA d : early(d) # {})
      hist(d) == SumOver(early(d), LAMBDA i : HistScore(c.members[i].score, last24[i]))
      then == RanksIn(SortDescByScore([i \in DOMAIN known |-> hist(known[i])]))
  IN [d \in ToSet(known) |-> then[CHOOSE i \in DOMAIN known : known[i] = d] - d]

\* Whoever is beyond the baseline arrived since; none while there is no movement.
NewSince24h(c, knownDonors, baseline, teamBaseline) ==
  IF knownDonors = 0 \/ baseline = 0 \/ teamBaseline = 0 THEN NoMovement
  ELSE <<Max({Len(Donors(c)) - knownDonors, 0}),
         Max({Len(c.teams) - Min({teamBaseline, Len(c.teams)}), 0}),
         Max({Len(c.members) - Min({baseline, Len(c.members)}), 0})>>

MemberArrivedSince24h(slot, baseline) == baseline # 0 /\ slot > baseline

-----------------------------------------------------------------------------
(* The orders of the leaderboards' columns. *)

SortKeys == {"lifetime", "per_day", "today", "this_week", "this_month",
             "last_24h", "wus", "members", "teams"}

SortAliases ==
  [daily |-> "today", weekly |-> "this_week", monthly |-> "this_month",
   points_total |-> "lifetime", points_per_day_24h_avg |-> "per_day",
   points_today_utc |-> "today", points_this_week_utc |-> "this_week",
   points_this_month_utc |-> "this_month", points_last_24h |-> "last_24h",
   wus_total |-> "wus", members_total |-> "members", team_count |-> "teams"]

NoKey == "none"

NormalizeSort(k) ==
  LET key == IF k \in DOMAIN SortAliases THEN SortAliases[k] ELSE k
  IN IF key \in SortKeys THEN key ELSE NoKey

\* Integer division to the nearest, a half away from zero.
RoundDiv(a, b) ==
  IF a >= 0 THEN (2 * a + b) \div (2 * b) ELSE - ((b - 2 * a) \div (2 * b))

\* The rate of points over an observed span, at most a week of it.
PerDay(points, span) ==
  IF span >= 7 * Day THEN RoundDiv(points, 7)
  ELSE IF span <= 0 THEN 0
  ELSE RoundDiv(points * Day, span)

PerDay24(points, span) == PerDay(points, Min({span, Day}))

\* A rollup that is short or absent reads as zeros.
Indexed(s, n) == [i \in 1..n |-> IF i <= Len(s) THEN s[i] ELSE 0]

\* A donor's production: the sums over its members, observed since the first
\* of them was.  w holds the figures of the windows and the month by slot.
DonorTotals(c, w, donor) ==
  LET mine == MembersNamed(c, donor.name)
      total(s) == SumOver(mine, LAMBDA i : s[i])
      observed == Max({w.span[i] : i \in mine})
  IN [last_24h |-> total(w.last24), last_7d |-> total(w.last7d),
      today |-> total(w.today), this_week |-> total(w.week),
      this_month |-> total(Indexed(w.month, Len(c.members))),
      last_update |-> total(w.update),
      per_day |-> PerDay24(total(w.last24), observed),
      per_day_7d |-> PerDay(total(w.last7d), observed),
      wus |-> donor.wus, teams |-> donor.teamCount, lifetime |-> donor.score]

\* A column that donors do not have falls back to their lifetime order.
DonorOrderFor(c, w, donors, key) ==
  IF key \in {"lifetime", "members"} THEN Identity(Len(donors))
  ELSE SortDescByScore([d \in DOMAIN donors |-> DonorTotals(c, w, donors[d])[key]])

\* The same of teams, from the windows of the teams.
TeamValue(c, w, key, i) ==
  CASE key = "per_day" -> PerDay24(w.last24[i], w.span[i])
    [] key = "today" -> w.today[i]
    [] key = "this_week" -> w.week[i]
    [] key = "this_month" -> Indexed(w.month, Len(c.teams))[i]
    [] key = "last_24h" -> w.last24[i]
    [] key = "wus" -> c.teams[i].wus
    [] key = "members" -> Cardinality({m \in DOMAIN c.members : c.members[m].team = c.teams[i].id})
    [] OTHER -> c.teams[i].score

TeamOrderFor(c, w, key) ==
  SortDescByScore([i \in DOMAIN c.teams |-> TeamValue(c, w, key, i)])

-----------------------------------------------------------------------------
(* Search by prefix.  A name is a sequence of letters <<letter, case>>;    *)
(* Fold forgets the case.  nameOrder lists the ids by their folded names,  *)
(* those of equal ones in any order (sort.Slice is not stable).            *)

Fold(name) == [i \in DOMAIN name |-> name[i][1]]

HasPrefixFold(name, q) == IsPrefix(Fold(q), Fold(name))

LessFold(a, b) ==
  LET x == Fold(a)
      y == Fold(b)
      both == 1..Min({Len(x), Len(y)})
      differ == {i \in both : x[i] # y[i]}
  IN IF differ = {} THEN Len(x) < Len(y) ELSE x[Min(differ)] < y[Min(differ)]

IsNameOrder(order, names) ==
  /\ ToSet(order) = DOMAIN names
  /\ \A i, j \in DOMAIN order :
       i < j => ~ LessFold(names[order[j]], names[order[i]])

\* The positions of the index that the scan takes; a scan of enough hits stops.
Hits(order, names, q) ==
  SelectSeq(order, LAMBDA id : HasPrefixFold(names[id], q))

\* Donors are in rank order: the exact name first, then the lowest ids.
DonorPrefix(order, names, q, limit) ==
  LET exact == {id \in DOMAIN names : names[id] = q}
      others == SelectSeq(Hits(order, names, q), LAMBDA id : id \notin exact)
      cap == Max({limit * Broad - Cardinality(exact), 1})
      taken == ToSet(SubSeq(others, 1, Min({cap, Len(others)})))
      ranked == SetToSortSeq(exact, <) \o SetToSortSeq(taken, <)
  IN SubSeq(ranked, 1, Min({limit, Len(ranked)}))

\* Mutant: the scan stops at enough hits, as that of the donors does.
TeamPrefix_StopsAtEnough(order, names, rank, q, limit) ==
  LET hits == Hits(order, names, q)
      taken == ToSet(SubSeq(hits, 1, Min({limit * Broad, Len(hits)})))
      before(a, b) == rank[a] < rank[b]
      exact == {id \in taken : names[id] = q}
      ranked == SetToSortSeq(exact, before) \o SetToSortSeq(taken \ exact, before)
  IN SubSeq(ranked, 1, Min({limit, Len(ranked)}))

\* Teams may share a name: every one as long as the query is taken, and past
\* that the scan stops at enough hits.
TeamPrefix(order, names, rank, q, limit) ==
  LET hits == Hits(order, names, q)
      stop == {i \in DOMAIN hits : i > limit * Broad /\ Len(names[hits[i]]) > Len(q)}
      taken == IF stop = {} THEN ToSet(hits) ELSE ToSet(SubSeq(hits, 1, Min(stop) - 1))
      before(a, b) == rank[a] < rank[b]
      exact == {id \in taken : names[id] = q}
      ranked == SetToSortSeq(exact, before) \o SetToSortSeq(taken \ exact, before)
  IN SubSeq(ranked, 1, Min({limit, Len(ranked)}))
=============================================================================
