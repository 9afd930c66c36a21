----------------------------- MODULE MCFigures -----------------------------
(***************************************************************************)
(* The algorithms of a publish and of the API over bounded inputs, each    *)
(* worked in one step: the reconciliation of every pair of small files,    *)
(* and the tables, pages, searches and projections of small corpora.       *)
(***************************************************************************)
EXTENDS Reconcile, Insights

CONSTANTS
  m1, m2, m3, t1, t2,     \* two rows on the first team, one on the second
  Work,                   \* the other column
  Pending                 \* no answer yet

ASSUME PendingAssumption ==
  Pending # Absent /\ Pending \notin UserFile /\ Absent \notin UserFile

\* The scores of the tables below are among those that the sort tells apart.
ASSUME ScoresAssumption == Keys > 4

MCTeamOf == [m \in {m1, m2, m3} |-> IF m = m3 THEN t2 ELSE t1]

VARIABLES
  subject,  \* the algorithm that is asked
  input,    \* what it is asked about
  answer    \* what it says, or Pending

vars == <<subject, input, answer>>

Given(s, x) == subject = s /\ input = x /\ answer = Pending

Answers(s, x) ==
  /\ subject = s /\ answer = Pending
  /\ answer' = x
  /\ UNCHANGED <<subject, input>>

-----------------------------------------------------------------------------
(* Reconciliation: values below zero, and up to the largest sum. *)

Rows(scores, work) ==
  {r \in [Counters -> scores \cup work] : r[Score] \in scores /\ r[Work] \in work}

Pairs ==
  [teams : [Teams -> Rows({-1, 0, 2, 4}, {0, 2}) \cup {Absent}],
   users : [Members -> Rows({-1, 1, 3, 4}, {0, 3}) \cup {Absent}]]

Reconciled ==
  Answers("pair", IF Accepts(input.teams, input.users)
                  THEN Admitted(input.teams, input.users) ELSE Absent)

\* No row of the user feed costs anyone else the cycle: a pair is rejected
\* for its team file only, whatever the member rows claim, because dropping
\* the teams they implicate leaves sums that fit (reconcile.go:70-71, 145-150).
OnlyTheTeamFileRejects ==
  subject = "pair" /\ answer = Absent => ~ ValidFile(input.teams)

Applied == subject = "pair" /\ answer \notin {Pending, Absent}

\* What a forged row can add to a team is the tolerance: in an applied cycle
\* no team's members hold more than that above the team's own score
\* (reconcile.go:36-42).
ForgeryIsCapped ==
  Applied =>
    \A t \in Teams : Claimed(answer, t, Score)
                       <= Authoritative(input.teams, t, Score) + Tolerance

\* A team whose rows are no negative number and sum to no more than the team
\* has, in every column, keeps them: another team's forgery never drops it
\* (reconcile.go:120-122, 149-150).
Honest(t) ==
  \A c \in Counters :
    /\ \A m \in Roster(input.users, t) : input.users[m][c] >= 0
    /\ Claimed(input.users, t, c) <= Authoritative(input.teams, t, c)

HonestTeamsAreKept ==
  Applied => \A m \in Members : Honest(TeamOf[m]) => answer[m] = input.users[m]

-----------------------------------------------------------------------------
(* Ranking: four members of three names on two teams, what each had a day  *)
(* ago and its production since; those past the baseline arrived since.    *)

NamesOf == {<<2, 1, 2, 3>>, <<1, 2, 3, 3>>}
TeamsOf == <<1, 1, 2, 1>>

Corpus(names, scores) ==
  [members |-> [i \in DOMAIN scores |->
                 [name |-> names[i], team |-> TeamsOf[i], score |-> scores[i], wus |-> scores[i]]],
   teams |-> [t \in 1..2 |->
     LET total == SumOver({i \in DOMAIN scores : TeamsOf[i] = t}, LAMBDA i : scores[i])
     IN [id |-> t, score |-> total, wus |-> total]]]

\* Who arrived since the baseline had nothing then; with none before it there
\* is no movement, and one table is enough.
Rankings ==
  {r \in [names : NamesOf, then : [1..4 -> {0, 1, 2}], made : [1..4 -> {-1, 0, 2}],
          baseline : {0, 3, 4}] :
     /\ \A i \in 1..4 : r.then[i] + r.made[i] >= 0
     /\ \A i \in 1..4 : i > r.baseline => r.then[i] = 0
     /\ r.baseline = 4 => r.names = <<2, 1, 2, 3>>}

Scores(r) == [i \in 1..4 |-> r.then[i] + r.made[i]]

\* The rank among some of them by a score, one seen earlier before its equals.
Place(score, among, i) ==
  1 + Cardinality({j \in among : score[j] > score[i] \/ (score[j] = score[i] /\ j < i)})

\* What the donors held a day ago, in the memberships that existed then, and now.
Earlier(n) == {i \in 1..input.baseline : input.names[i] = n}

Total24h(n) == SumOver(Earlier(n), LAMBDA i : input.then[i])

TotalNow(n) == SumOver({i \in 1..4 : input.names[i] = n}, LAMBDA i : Scores(input)[i])

KnownDonors(r) == {r.names[i] : i \in 1..r.baseline}

\* The places that a donor gained since it was ranked a day ago.
Gained(n) ==
  Place([x \in KnownDonors(input) |-> Total24h(x)], KnownDonors(input), n)
    - Place([x \in 1..3 |-> TotalNow(x)], 1..3, n)

Tables(r) ==
  LET c == Corpus(r.names, Scores(r))
      table == Build(c)
      movement == Change24h(Scores(r), r.made, r.baseline, table.memberRank)
  IN [ranks |-> table.memberRank, inTeam |-> table.inTeamRank,
      ties |-> [i \in 1..4 |->
        TieAt([p \in 1..4 |-> Scores(r)[table.memberOrder[p]]], table.memberRank[i])],
      movement |-> movement, donors |-> table.donors,
      movers |-> MoverView(table.memberOrder, movement, "both", 3, 2),
      new |-> NewSince24h(c, Cardinality(KnownDonors(r)), r.baseline, 2),
      donorMovement |-> DonorChange24h(c, table.donors, r.made, r.baseline)]

Ranked == Answers("ranking", Tables(input))

-----------------------------------------------------------------------------
(* Rosters: four members of one team, each idle, slowing, steady, new or   *)
(* set back by a correction.                                               *)

Figures ==
  {[last24 |-> 0, last7d |-> 0, span |-> 14], [last24 |-> 0, last7d |-> 3, span |-> 14],
   [last24 |-> 1, last7d |-> 3, span |-> 14], [last24 |-> 1, last7d |-> 1, span |-> 1],
   [last24 |-> -1, last7d |-> 1, span |-> 14]}

\* Lifetime scores with a tie, not in the order of the slots.
Lifetime == <<3, 5, 3, 1>>

Rosters == [figures : [1..4 -> Figures], month : {<<>>, <<0, 2, 1>>, <<0, 2, 2>>}]

RosterCorpus == Corpus(<<1, 2, 3, 1>>, Lifetime)

RosterOrder == MemberOrder(RosterCorpus)

InTeam1 == SelectSeq(RosterOrder, LAMBDA slot : TeamsOf[slot] = 1)

WindowsOf(r) ==
  LET column(f(_)) == [i \in 1..4 |-> f(r.figures[i])]
  IN [last24 |-> column(LAMBDA f : f.last24), last7d |-> column(LAMBDA f : f.last7d),
      span |-> column(LAMBDA f : f.span), today |-> column(LAMBDA f : f.last24),
      week |-> column(LAMBDA f : f.last7d), update |-> column(LAMBDA f : f.last24),
      month |-> r.month]

\* The same figures summed by team; a team is seen as long as its first member.
TeamWindowsOf(w) ==
  LET mine(t) == {i \in 1..4 : TeamsOf[i] = t}
      column(s) == [t \in 1..2 |-> SumOver(mine(t), LAMBDA i : s[i])]
  IN [last24 |-> column(w.last24), last7d |-> column(w.last7d), today |-> column(w.today),
      week |-> column(w.week), update |-> column(w.update),
      span |-> [t \in 1..2 |-> Max({w.span[i] : i \in mine(t)})],
      month |-> column(Indexed(w.month, 4))]

Columns == {"lifetime", "per_day", "last_24h", "this_month", "members"}

Asked == [sort : Columns, active : BOOLEAN, per : 1..3]

\* Every page of the first team's roster and of a donor's memberships, and one
\* past the last.
Paged ==
  LET w == WindowsOf(input)
      mine == DonorMembers(RosterCorpus, RosterOrder, [name |-> 1])
  IN Answers("roster",
       [rosters |-> [q \in Asked |->
          [p \in 1..4 |-> RosterPage(RosterCorpus, RosterOrder, w, 1, q.sort, q.active, p, q.per)]],
        teams |-> [per \in 1..3 |->
          [p \in 1..4 |-> DonorTeamsPage(w, mine, TRUE, p, per)]],
        strongest |-> Breakdown(w, mine, TRUE)])

\* The pages of the entities ranked around one of them, and the page it is on.
Neighbourhoods ==
  {r \in [n : 1..5, self : 1..5, per : 1..3, span : 0..3] : r.self <= r.n}

Listed ==
  LET order == Identity(input.n)
      entity == [id \in 1..input.n |->
                  [points |-> input.n - id, rate |-> id % 2, rate7d |-> id % 3]]
  IN Answers("list",
       [pages |-> [p \in 1..6 |-> Rivals(order, entity, input.self, p, input.per)],
        near |-> Rivals(order, entity, input.self, Unasked, input.per),
        told |-> McpRivals(order, entity, input.self, input.span)])

\* A client that asks for what changed, and again since the answer it has.
Polls == [deltas : SUBSET ((1..3) \X (1..3)), at : 1..3]

Polled ==
  LET c == Corpus(<<1, 2, 1>>, <<2, 0, 3>>)
      ranks == RanksIn(MemberOrder(c))
      asked(since, now) ==
        [kind \in {"members", "donors"} |->
          Changes(c, Donors(c), ranks, input.deltas, kind, since, now)]
  IN Answers("changes", <<asked(0, input.at), asked(input.at, 3)>>)

\* What a member is ranked by, nothing below zero counting as production.
Worth(w, slot, sort) ==
  CASE sort = "per_day" -> Max({0, (w.last24[slot] * 2) \div Min({w.span[slot], 2})})
    [] sort = "last_24h" -> Max({0, w.last24[slot]})
    [] sort = "this_month" -> IF slot <= Len(w.month) THEN w.month[slot] ELSE 0
    [] OTHER -> 0

Ids(rows) == [i \in DOMAIN rows |-> rows[i].id]

\* Pages, neighbourhoods and polls, against the lists that they are cut from.
PagesAreComplete ==
  answer # Pending =>
    /\ subject = "roster" =>
         LET w == WindowsOf(input)
             mine == StableDesc(SelectSeq(RosterOrder, LAMBDA s : s \in {1, 4}),
                                w.last7d)
         IN /\ \A q \in Asked :
                 LET kept == SelectSeq(InTeam1, LAMBDA s : q.active => w.last7d[s] > 0)
                 IN FlattenSeq(answer.rosters[q]) =
                      StableDesc(kept, [s \in 1..4 |-> Worth(w, s, q.sort)])
            /\ \A per \in 1..3 : FlattenSeq(answer.teams[per]) = mine
            /\ answer.strongest.truncated \/ answer.strongest.rows = mine
    /\ subject = "list" =>
         LET shown == Ids(answer.told)
         IN /\ FlattenSeq([p \in 1..6 |-> Ids(answer.pages[p])]) = Identity(input.n)
            /\ input.self \in ToSet(Ids(answer.near))
            /\ input.self \in ToSet(shown)
            /\ Len(shown) = Min({2 * input.span + 1, input.n})
            /\ \A i \in 1..Len(shown) - 1 : shown[i + 1] = shown[i] + 1
    /\ subject = "changes" =>
         LET told == {k \in 1..2 : answer[k].members # BadRequest}
             ids(k) == ToSet(answer[k].members)
             rank == <<2, 3, 1>>
         IN /\ told = 1..2 => ids(1) \cup ids(2) = {d[1] : d \in input.deltas}
            /\ \A k \in told, i, j \in 1..3 :
                 i < j /\ j <= Len(answer[k].members) =>
                   rank[answer[k].members[i]] < rank[answer[k].members[j]]
            /\ \A k \in told : answer[k].donors =
                 (IF ids(k) \cap {1, 3} # {} THEN <<1>> ELSE <<>>) \o
                 (IF 2 \in ids(k) THEN <<2>> ELSE <<>>)

-----------------------------------------------------------------------------
(* The boards: the orders of the columns, the standings of the month, what *)
(* is different on a roster and the totals, from the same figures.         *)

BoardKeys == {"per_day", "last_24h", "this_month", "members", "teams"}

\* The name by which a request asks for each.
Spelling(k) ==
  CASE k = "per_day" -> "points_per_day_24h_avg"
    [] k = "this_month" -> "monthly"
    [] k = "members" -> "members_total"
    [] OTHER -> k

Standing(order, val) ==
  [id \in ToSet(order) |-> MonthStanding([i \in DOMAIN order |-> val[order[i]]], val[id])]

Charted ==
  LET c == RosterCorpus
      w == WindowsOf(input)
      tw == TeamWindowsOf(w)
      donors == Donors(c)
      month == DonorOrderFor(c, w, donors, "this_month")
  IN Answers("board",
       [teams |-> [k \in BoardKeys |-> TeamOrderFor(c, tw, NormalizeSort(Spelling(k)))],
        donors |-> [k \in BoardKeys |-> DonorOrderFor(c, w, donors, NormalizeSort(Spelling(k)))],
        standing |-> Standing(month,
          [d \in DOMAIN donors |-> DonorTotals(c, w, donors[d]).this_month]),
        activity |-> TeamActivity(c, w, InTeam1, 3),
        totals |-> Totals(c, donors, w, tw)])

\* The value of an entity in a column; of teams it is that of their own.
DonorWorth(w, key, d) ==
  DonorTotals(RosterCorpus, w, Donors(RosterCorpus)[d])[IF key = "members" THEN "lifetime" ELSE key]

TeamWorth(w, key, t) == TeamValue(RosterCorpus, TeamWindowsOf(w), key, t)

BestFirst(order, Val(_)) ==
  \A i, j \in DOMAIN order :
    i < j => \/ Val(order[i]) > Val(order[j])
             \/ Val(order[i]) = Val(order[j]) /\ order[i] < order[j]

\* Every board is best first, equal values in the order of the ids, whatever the
\* figures of its column (rank.go:388-404, sort.go:10-19).  A total that a
\* correction has put below zero is sorted above all others (sort.go:33-35).
BoardsAreBestFirst ==
  subject = "board" /\ answer # Pending =>
    LET w == WindowsOf(input)
    IN \A k \in BoardKeys :
         /\ BestFirst(answer.teams[k], LAMBDA t : TeamWorth(w, k, t))
         /\ BestFirst(answer.donors[k], LAMBDA d : DonorWorth(w, k, d))

\* A rank is the number of those ahead and one, globally and in the team; the
\* width of its tie is the number of its equals; and the movement is the rank
\* of the day before among those that existed then, less the rank now
\* (sort.go:10-19, rank.go:440-483 and 649-719, views.go:516-559).
RanksAreHonest ==
  subject = "ranking" /\ answer # Pending =>
    LET now == Scores(input)
        team(i) == {j \in 1..4 : TeamsOf[j] = TeamsOf[i]}
    IN /\ \A i \in 1..4 :
            /\ answer.ranks[i] = Place(now, 1..4, i)
            /\ answer.inTeam[i] = Place(now, team(i), i)
            /\ answer.ties[i] = Cardinality({j \in 1..4 : now[j] = now[i]})
       /\ DOMAIN answer.movement = 1..input.baseline
       /\ \A i \in 1..input.baseline :
            answer.movement[i] = Place(input.then, 1..input.baseline, i) - Place(now, 1..4, i)

DonorsMovedHonestly ==
  \A d \in DOMAIN answer.donorMovement :
    LET n == answer.donors[d].name
    IN (\A x \in KnownDonors(input) \ {n} : Total24h(x) # Total24h(n)) =>
         answer.donorMovement[d] = Gained(n)

MoversAreTheLargest ==
  LET top == {i \in DOMAIN answer.movement : answer.ranks[i] <= 3}
      moved(i) == answer.movement[i]
      up == answer.movers.climbed
      down == answer.movers.fell
  IN /\ Len(up) = Min({2, Cardinality({i \in top : moved(i) > 0})})
     /\ Len(down) = Min({2, Cardinality({i \in top : moved(i) < 0})})
     /\ \A i \in top \ ToSet(up), k \in DOMAIN up : 0 < moved(up[k]) /\ moved(i) <= moved(up[k])
     /\ \A i \in top \ ToSet(down), k \in DOMAIN down : moved(down[k]) < 0 /\ moved(down[k]) <= moved(i)

\* What boards, standings, donors and movers show, against the figures they are of.
BoardsAreHonest ==
  answer # Pending =>
    /\ subject = "ranking" => DonorsMovedHonestly /\ MoversAreTheLargest
    /\ subject = "board" =>
         LET w == WindowsOf(input)
             month(d) == DonorWorth(w, "this_month", d)
         IN /\ \A k \in BoardKeys :
                 /\ (\A t \in 1..2 : TeamWorth(w, k, t) >= 0) =>
                      BestFirst(answer.teams[k], LAMBDA t : TeamWorth(w, k, t))
                 /\ (\A d \in 1..3 : DonorWorth(w, k, d) >= 0) =>
                      BestFirst(answer.donors[k], LAMBDA d : DonorWorth(w, k, d))
            /\ \A d \in 1..3 :
                 answer.standing[d] =
                   IF month(d) <= 0 THEN NoStanding
                   ELSE <<1 + Cardinality({x \in 1..3 : month(x) > month(d)}),
                          Cardinality({x \in 1..3 : month(x) > 0})>>

\* The pages of a roster, whatever their size, show every member that the
\* filter keeps once, by the column, then by lifetime rank, and so for those of
\* a donor's memberships and of its rivals; a page past the end is empty; the
\* page and the neighbourhood shown unasked hold the one they are of; and who
\* polls for changes since its last answer is told of every one, the best
\* ranked first (views.go:357-430, handlers.go:160-211, server.go:499-550,
\* mcp.go:1501-1512, changes.go:64-178).
\* And the lists that a publish ranks are in their order: on a board where nothing
\* is below zero the best come first, the standing of the month is a rank of those
\* who produced, the same for equals, the movers are those that moved the most,
\* and a donor moves by the places that it gained, unless another one was level
\* with it the day before (rank.go:388-404 and 721-769, views.go:185-206,
\* sort.go:10-19).
ListsAreComplete == PagesAreComplete /\ BoardsAreHonest

-----------------------------------------------------------------------------
(* Search: the names a, A, ab, Ab, b and 7 in any order of rank, an index  *)
(* that lists equal folded names in either order, and team 7 is the first  *)
(* or the third slot, or there is none.                                    *)

Letter(x, case) == <<9 + x, case>>

Numeral(x) == <<x, 0>>

SearchNames ==
  {<<Letter(1, 0)>>, <<Letter(1, 1)>>, <<Letter(1, 0), Letter(2, 0)>>,
   <<Letter(1, 1), Letter(2, 0)>>, <<Letter(2, 0)>>, <<Numeral(7)>>}

NameOrders(names) == {o \in Permutations(1..4) : IsNameOrder(o, names)}

Searches ==
  {s \in [names : [1..4 -> SearchNames], ranks : {<<1, 2, 3, 4>>, <<4, 2, 1, 3>>},
          ids : {<<3, 4, 5, 6>>, <<7, 8, 9, 6>>, <<3, 8, 7, 6>>},
          q : SearchNames \cup {<<Letter(2, 1)>>, <<Numeral(0), Numeral(7)>>}, limit : 1..2] :
     /\ IsInjective(s.names) \/ s.ranks = <<4, 2, 1, 3>>
     /\ ReadsAsNumber(s.q) \/ s.ids = <<3, 4, 5, 6>>}

Searched ==
  /\ subject = "search"
  /\ \E order \in NameOrders(input.names) :
       Answers("search",
         [found |-> SearchTeams(order, input.names, input.ranks, input.ids, input.q, input.limit),
          told |-> McpSearchTeams(order, input.names, input.ranks, input.ids, input.q, input.limit),
          donors |-> IF IsInjective(input.names)
                     THEN SearchDonors(order, input.names, input.q, input.limit) ELSE NotFound])

\* What may be found, the best first: the team of the number, those of the exact
\* name and the rest, each by rank.
Foundable(numbered, rank) ==
  LET exact == {i \in 1..4 : input.names[i] = input.q} \ numbered
      other == {i \in 1..4 : HasPrefixFold(input.names[i], input.q)} \ (numbered \cup exact)
      before(a, b) == rank[a] < rank[b]
  IN [best |-> FlattenSeq(<<SetToSeq(numbered), SetToSortSeq(exact, before),
                            SetToSortSeq(other, before)>>),
      lead |-> Cardinality(numbered \cup exact)]

Shows(hits, found) ==
  LET most == Min({input.limit, Len(found.best)})
      sure == IF Len(found.best) <= input.limit * Broad THEN most ELSE Min({most, found.lead})
  IN /\ IsInjective(hits) /\ ToSet(hits) \subseteq ToSet(found.best)
     /\ Len(hits) = most
     /\ SubSeq(hits, 1, sure) = SubSeq(found.best, 1, sure)

\* A search shows as many as match and were asked for, each once: the team whose
\* number it is, the exact names by rank, whatever case variants there are of them,
\* and of the rest the best ranked as long as not too many match; it is called exact
\* if and only if the first is of that number or that name; and the tool of the MCP
\* server tells the same, and at most one more (rank.go:867-993, handlers.go:357-413,
\* types.go:524-528, mcp.go:568-594).
SearchFindsTheBest ==
  subject = "search" /\ answer # Pending =>
    LET numbered == {i \in 1..4 : ReadsAsNumber(input.q) /\ input.ids[i] = 7}
        teams == Foundable(numbered, input.ranks)
        donors == Foundable({}, <<1, 2, 3, 4>>)
        found == answer.found
    IN /\ Shows(found.teams, teams)
       /\ found.exactTeam <=> teams.lead > 0
       /\ IsPrefix(found.teams, answer.told) /\ IsInjective(answer.told)
       /\ Len(answer.told) <= input.limit + 1
       /\ IsInjective(input.names) =>
            /\ Shows(answer.donors.donors, donors)
            /\ answer.donors.exactDonor <=> donors.lead > 0

-----------------------------------------------------------------------------
(* Projections between two entities. *)

Entity == [points : 0..5, rate : -1..3]

\* The ranks that the other may have of the two, and what is told of it.
RanksOf(self, target) ==
  {rank \in 1..2 : IF rank = 1 THEN target.points >= self.points ELSE self.points >= target.points}

ForTheRank(self, target, rank) ==
  LET held == AtRank(<<rank, 3 - rank>>, <<target, self>>, rank)
      placed == [points |-> self.points, rate |-> self.rate, rank |-> 3 - rank]
  IN [goal |-> Goal(self, held), told |-> McpGoal(placed, held, rank)]

Projections(self, target) ==
  [goal |-> Goal(self, target),
   told |-> McpGoal(self, target, 0),
   by |-> [days \in Horizons |-> GoalBy(self, target, days)],
   still |-> Goal(self, PointsTarget(target.points)),
   atRank |-> {ForTheRank(self, target, rank) : rank \in RanksOf(self, target)},
   versus |-> Compare(self, target),
   back |-> ProjectOvertake(target, self)]

Projected == Answers("goal", Projections(input.self, input.target))

After(e, days) == e.points + e.rate * days

\* A swap is projected, the same from either side, for the day on which the one
\* behind draws level, and for no day if it does not within the horizon; the
\* rate for a horizon is the least that arrives in time, and none is asked of
\* who arrives standing still, nor for a date; a total that stands still is
\* reached when it is held; and both surfaces agree on who needs nothing, but for
\* a rank, which the tool calls reached by whoever is at it or above, although
\* that lead may be shrinking (rivals.go:21-62, insights.go:114-217,
\* mcp.go:1059-1224).
ProjectionsMeet ==
  subject = "goal" /\ answer # Pending =>
    LET a == input.self
        b == input.target
        g == answer.goal
        level(d) == (After(a, d) - After(b, d)) * (a.points - b.points) <= 0
        asked == {h[1] : h \in g.horizons}
    IN /\ answer.back = g.overtake
       /\ IF g.overtake.days = Never THEN \A d \in 0..OvertakeHorizonDays : ~ level(d)
          ELSE LET d == CeilDiv(g.overtake.days, 100)
               IN level(d) /\ \A x \in 0..d - 1 : ~ level(x)
       /\ \A h \in g.horizons :
            /\ a.points + h[2] * h[1] >= After(b, h[1])
            /\ a.points + (h[2] - 1) * h[1] < After(b, h[1])
            /\ answer.by[h[1]] = h[2]
       /\ \A h \in Horizons \ asked : a.points >= After(b, h) /\ answer.by[h] = 0
       /\ g.alreadyReached <=> answer.told = "past"
       /\ answer.still.holding /\ a.rate >= 0 => answer.still.alreadyReached
       /\ \A x \in answer.atRank :
            /\ x.goal = g
            /\ x.told = "at rank" => g.holding
            /\ IF g.alreadyReached THEN x.told \in {"at rank", "past"} ELSE x.told # "past"
       /\ answer.versus.leader = "tie" <=> g.gap = 0
       /\ answer.versus.overtake = g.overtake

-----------------------------------------------------------------------------
(* The trailing figures: the days of one entity, and the seconds at which  *)
(* requests were counted before the second that asks.                      *)

Records ==
  [days : SUBSET (1..6), wus : {<<1, 0, 1, 0, 1, 0>>, <<0, 0, 0, 0, 0, 0>>},
   today : 6..7, floor : {0, 1, 5}]

DaysOf(r) == [d \in r.days |-> [points |-> d, wus |-> r.wus[d]]]

\* The days of two memberships: one holds the odd ones a second time.
RowsOf(r, m) ==
  {[member |-> m, day |-> d, points |-> d, wus |-> r.wus[d]] :
     d \in {x \in r.days : m = 2 \/ x % 2 = 1}}

\* An entity observed for three half days for each day on record.
Read ==
  LET recent == RecentOf(DaysOf(input), input.today, input.floor)
      streak == StreakOf(input.days, input.today)
  IN Answers("days",
       [streak |-> streak, recent |-> recent, atFloor |-> AtCollectionFloor(streak, input.floor),
        merged |-> DonorDays(<<1, 2>>, <<RowsOf(input, 1), RowsOf(input, 2)>>),
        windows |-> PerDayWindows(3 * Cardinality(input.days), 3, 4, recent, input.floor, 1)])

Requests == {s \in [1..4 -> 1..8] : \A i \in 1..3 : s[i] <= s[i + 1]}

Metered == Answers("requests", RateTotal(Counted(SubSeq(input, 1, 3)), input[4]))

\* The range of a history, and the series of a donor that it is asked of.
Queries ==
  [gran : {Unasked, "cycle", "hourly", "daily", "yearly"},
   from : {Unasked} \cup 0..5, to : {Unasked} \cup 0..7, team : {Unasked, 1, 2, 3}]

Reach == [hourly |-> 2, daily |-> 3]

Longest == [hourly |-> 3, daily |-> 5]

Queried ==
  Answers("query",
    [range |-> ParseHistoryQuery(input.gran, input.from, input.to, 6, 1, Reach, Longest),
     series |-> DonorSeries(RosterCorpus, RosterOrder, input.team)])

Run(days, a, b) == a <= b /\ a..b \subseteq days

\* The longest streak is the longest run of days; the current one is the run
\* up to today or, while today may still come, to yesterday; the recent work is
\* that of the days the window and the record cover; days on several
\* memberships add up; a window not called partial was observed but for an hour
\* at most; and the request rate is that of the last window of seconds, however
\* long nothing was counted.  A history that is answered is of some time, of no
\* more than its granularity serves, and reaches to now unless told otherwise;
\* and the totals of the donors lose nothing of their members'
\* (daily.go:24-56, 69-98 and 163-214, rate.go:29-82, handlers.go:442-496,
\* rank.go:264-300, activity.go:45-84).
TrailingFiguresAreWhole ==
  answer # Pending =>
    /\ subject = "days" =>
         LET s == answer.streak
             ends == {b \in {input.today - 1, input.today} : b \in input.days}
             from == Max({input.today - RecentWindowDays + 1, input.floor})
             recent == {d \in input.days : d >= from}
         IN /\ s.longest = Max({p[2] - p[1] + 1 : p \in
                                 {x \in (1..6) \X (1..6) : Run(input.days, x[1], x[2])}} \cup {0})
            /\ s.current = Max({p[2] - p[1] + 1 : p \in
                                 {x \in (1..6) \X ends : Run(input.days, x[1], x[2])}} \cup {0})
            /\ s.current > 0 => s.since \in input.days /\ s.since - 1 \notin input.days
            /\ IF answer.recent = NoRecent THEN \A d \in recent : input.wus[d] = 0
               ELSE /\ answer.recent.points = SumOver(recent, LAMBDA d : d)
                    /\ answer.recent.days = Cardinality(from..input.today)
            /\ DOMAIN answer.merged = input.days
            /\ \A d \in input.days : answer.merged[d].points = IF d % 2 = 1 THEN 2 * d ELSE d
            /\ \A k \in 1..2 :
                 ~ answer.windows[k].partial => answer.windows[k].covers >= <<2, 14>>[k] - 1
    /\ subject = "requests" =>
         answer = Cardinality({i \in 1..3 : input[i] > input[4] - RateWindow})
    /\ subject = "query" =>
         /\ answer.range # BadRequest =>
              /\ answer.range.from < answer.range.to
              /\ answer.range.to - answer.range.from <= Longest[answer.range.gran]
              /\ answer.range.defaulted => 6 \in answer.range.from .. answer.range.to - 1
         /\ answer.series = NotFound <=> input.team = 3
         /\ answer.series # NotFound =>
              \/ answer.series.truncated
              \/ ToSet(answer.series.members) =
                   {i \in 1..4 : input.team \in {Unasked, TeamsOf[i]}}
    /\ subject = "board" =>
         LET w == WindowsOf(input)
             a == answer.activity
         IN /\ \A k \in {"last_24h", "last_7d", "this_month"} :
                 SumOver(1..3, LAMBDA d : DonorTotals(RosterCorpus, w, Donors(RosterCorpus)[d])[k]) =
                   answer.totals[k]
            /\ a.stopped.total + a.surging.total + a.joined.total <= Len(InTeam1)

-----------------------------------------------------------------------------
Init ==
  \/ \E x \in Rosters : Given("roster", x)
  \/ \E x \in Rosters : Given("board", x)
  \/ \E x \in Neighbourhoods : Given("list", x)
  \/ \E x \in Polls : Given("changes", x)
  \/ \E x \in Searches : Given("search", x)
  \/ \E x \in [self : Entity, target : Entity] : Given("goal", x)
  \/ \E x \in Records : Given("days", x)
  \/ \E x \in Queries : Given("query", x)
  \/ \E x \in Requests : Given("requests", x)
  \/ \E x \in Pairs : Given("pair", x)
  \/ \E x \in Rankings : Given("ranking", x)

Next ==
  \/ Reconciled
  \/ Ranked
  \/ Paged
  \/ Listed
  \/ Polled
  \/ Charted
  \/ Searched
  \/ Projected
  \/ Read
  \/ Queried
  \/ Metered

Spec == Init /\ [][Next]_vars
=============================================================================
