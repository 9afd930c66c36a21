------------------------------- MODULE Views -------------------------------
(***************************************************************************)
(* The views of a published snapshot: the pages, rosters, ties, standings  *)
(* and collections of src/internal/api (views.go, server.go, handlers.go,  *)
(* changes.go, activity.go, snapshot.go), from the table of Rank.          *)
(*                                                                         *)
(* Of the windows of the members, w holds the figures of a slot: last24,   *)
(* last7d, today, week, update and the observed span, and the month to     *)
(* date, which may be shorter than the corpus.  A page is a half-open      *)
(* interval of offsets, as the slices of the code.                         *)
(***************************************************************************)
EXTENDS Rank

CONSTANTS
  DefaultPerPage,     \* the rows of a page unless asked for, 50
  MaxPerPage,         \* the most rows of a page
  MaxEmbeddedTeams,   \* the memberships on a donor's own page, 100
  MaxChangesWindow,   \* how far back a diff is answered, a week
  MaxActivityMembers, \* the members named in a change of a roster, 25
  Unasked,            \* a parameter that a request leaves out
  BadRequest          \* the refusal of a request

ASSUME PageAssumption ==
  /\ DefaultPerPage \in 1..MaxPerPage /\ MaxPerPage \in Nat
  /\ MaxChangesWindow \in Nat /\ MaxEmbeddedTeams \in Nat \ {0} /\ MaxActivityMembers \in Nat \ {0}

\* The elements at offsets lo up to hi of a sequence, as s[lo:hi].
Slice(s, lo, hi) == SubSeq(s, lo + 1, Min({hi, Len(s)}))

\* The ids by value, the largest first, equal ones in the order they had.
StableDesc(ids, value) ==
  LET before(a, b) ==
        \/ value[ids[a]] > value[ids[b]]
        \/ value[ids[a]] = value[ids[b]] /\ a < b
      order == SetToSortSeq(DOMAIN ids, before)
  IN [i \in DOMAIN order |-> ids[order[i]]]

\* The first offset in 0..n at which p holds, a function of the offsets before
\* n that never stops holding (sort.Search).
Search(n, p) ==
  LET Mid(lo, hi) == (lo + hi) \div 2
      go[b \in (0..n) \X (0..n)] ==
        IF b[1] >= b[2] THEN b[1]
        ELSE IF p[Mid(b[1], b[2])] THEN go[<<b[1], Mid(b[1], b[2])>>]
        ELSE go[<<Mid(b[1], b[2]) + 1, b[2]>>]
  IN go[<<0, n>>]

-----------------------------------------------------------------------------
(* Pages. *)

\* The bounds of the page asked for among n items; without a page, the first
\* one or the one that holds the item at position anchor.
Paginate(page, perPage, n, anchor) ==
  LET per == IF perPage = Unasked THEN DefaultPerPage ELSE perPage
      first == IF anchor > 0 /\ per > 0 THEN (anchor - 1) \div per + 1 ELSE 1
      asked == IF page = Unasked THEN first ELSE page
      pages == (n + per - 1) \div per
      lo == IF asked <= pages THEN (asked - 1) * per ELSE n
  IN IF asked < 1 \/ per \notin 1..MaxPerPage THEN BadRequest
     ELSE [lo |-> lo, hi |-> Min({lo + per, n}), page |-> asked, pages |-> pages]

\* The neighbourhood that a tool of the MCP server shows: 2 * span + 1 places
\* around an offset, moved to stay within the order.
Around(i, span, n) ==
  LET up == IF i - span < 0 THEN <<0, Min({2 * span + 1, n})>>
            ELSE <<i - span, i + span + 1>>
  IN IF up[2] > n THEN <<Max({0, up[1] - (up[2] - n)}), n>> ELSE up

-----------------------------------------------------------------------------
(* Rosters. *)

RosterValue(c, w, slot, k) ==
  CASE k = "per_day" -> PerDay24(w.last24[slot], w.span[slot])
    [] k = "today" -> w.today[slot]
    [] k = "last_24h" -> w.last24[slot]
    [] k = "this_week" -> w.week[slot]
    [] k = "this_month" -> Indexed(w.month, slot)[slot]
    [] k = "wus" -> c.members[slot].wus
    [] OTHER -> c.members[slot].score

\* The rate is positive exactly when its total is.
RosterRanks(c, w, slot, k) ==
  IF k = "per_day" THEN w.last24[slot] > 0 ELSE RosterValue(c, w, slot, k) > 0

Keeps(w, slot, activeOnly) == activeOnly => w.last7d[slot] > 0

RosterHead(c, w, slots, k, activeOnly) ==
  LET head == SelectSeq(slots, LAMBDA slot :
                /\ Keeps(w, slot, activeOnly)
                /\ k = "lifetime" \/ RosterRanks(c, w, slot, k))
  IN IF k = "lifetime" THEN head
     ELSE StableDesc(head, [slot \in ToSet(head) |-> RosterValue(c, w, slot, k)])

\* Mutant: the tail is skipped by the offset of the page, the head included.
OrderRoster_SkipsByOffset(c, w, slots, k, activeOnly, lo, hi) ==
  LET head == RosterHead(c, w, slots, k, activeOnly)
      tail == SelectSeq(slots, LAMBDA slot :
                Keeps(w, slot, activeOnly) /\ ~ RosterRanks(c, w, slot, k))
  IN Slice(head, lo, hi) \o
     IF k = "lifetime" \/ hi <= Len(head) THEN <<>>
     ELSE Slice(tail, lo, hi - Len(head))

\* A page of a roster: of the sorted head, then of those with nothing in the
\* column, in the order they are stored.
OrderRoster(c, w, slots, k, activeOnly, lo, hi) ==
  LET head == RosterHead(c, w, slots, k, activeOnly)
      skip == Max({lo - Len(head), 0})
      need == hi - Len(head) - skip
      tail == SelectSeq(slots, LAMBDA slot :
                Keeps(w, slot, activeOnly) /\ ~ RosterRanks(c, w, slot, k))
  IN IF lo = hi THEN <<>>
     ELSE Slice(head, lo, hi) \o
          IF k = "lifetime" \/ hi <= Len(head) THEN <<>>
          ELSE Slice(tail, skip, skip + need)

\* Counted when the snapshot is built: producing in the trailing week is active.
TeamMemberCounts(c, w, team) ==
  LET all == {i \in DOMAIN c.members : c.members[i].team = team}
  IN [total |-> Cardinality(all),
      active |-> Cardinality({i \in all : w.last7d[i] > 0})]

\* One page of the members of a team.
RosterPage(c, order, w, team, sort, activeOnly, page, perPage) ==
  LET k == IF sort \in {"members", "teams"} THEN "lifetime" ELSE sort
      count == TeamMemberCounts(c, w, team)
      bounds == Paginate(page, perPage, IF activeOnly THEN count.active ELSE count.total, 0)
  IN IF bounds = BadRequest THEN BadRequest
     ELSE OrderRoster(c, w, TeamMembers(c, order, team), k, activeOnly, bounds.lo, bounds.hi)

\* The memberships of a donor, by lifetime points or by the last seven days.
OrderMembers(w, members, byProduction) ==
  IF byProduction THEN StableDesc(members, w.last7d) ELSE members

Breakdown(w, members, byProduction) ==
  LET ordered == OrderMembers(w, members, byProduction)
  IN [rows |-> Slice(ordered, 0, MaxEmbeddedTeams),
      truncated |-> Len(ordered) > MaxEmbeddedTeams]

DonorTeamsPage(w, members, byProduction, page, perPage) ==
  LET bounds == Paginate(page, perPage, Len(members), 0)
  IN IF bounds = BadRequest THEN BadRequest
     ELSE Slice(OrderMembers(w, members, byProduction), bounds.lo, bounds.hi)

-----------------------------------------------------------------------------
(* Ties and standings: questions to an order that is sorted by the value.  *)

\* How many share the value at a rank of an order, whose values scores lists;
\* 0 for no rank of the order.
TieAt(scores, rank) ==
  LET n == Len(scores)
      v == scores[rank]
      alone == (rank = 1 \/ scores[rank - 1] # v) /\ (rank = n \/ scores[rank + 1] # v)
      first == Search(rank - 1, [mid \in 0..rank - 2 |-> scores[mid + 1] <= v])
      past == rank + Search(n - rank, [mid \in 0..n - rank - 1 |-> scores[rank + mid + 1] < v])
  IN IF rank <= 0 \/ rank > n THEN 0
     ELSE IF alone THEN 1
     ELSE past - first

NoStanding == <<0, 0>>

\* A position of a field, which the code gives as a percentage.
ShareOf(rank, of) == IF rank <= 0 \/ of <= 0 THEN NoStanding ELSE <<rank, of>>

\* The place by this month's production among those who produced; vals lists
\* the production along the order of the month.
MonthStanding(vals, self) ==
  LET n == Len(vals)
      firstUpTo(v) == Search(n, [i \in 0..n - 1 |-> vals[i + 1] <= v])
  IN IF self <= 0 \/ n = 0 THEN NoStanding
     ELSE ShareOf(firstUpTo(self) + 1, firstUpTo(0))

-----------------------------------------------------------------------------
(* What has moved: the deltas that the database holds of each cycle are a  *)
(* set of <<id, time>>.                                                    *)

Changed(deltas, since, until) ==
  {d[1] : d \in {e \in deltas : e[2] > since /\ e[2] <= until}}

\* The ids by rank, those without one last.
RankOrder(ids, rankOf) ==
  LET ranked == {i \in ids : rankOf[i] > 0}
      before(a, b) == rankOf[a] < rankOf[b]
  IN SetToSortSeq(ranked, before) \o SetToSeq(ids \ ranked)

TooFarBack(since, now, window) == since < now - window

\* The rows of /v1/changes for a cursor: members or teams, or the donors of the members.
ChangedMembers(deltas, since, now, ranks) ==
  LET slots == Changed(deltas, since, now)
  IN RankOrder(slots, [slot \in slots |-> RankAt(ranks, slot)])

ChangedDonors(c, donors, deltas, since, now) ==
  LET named == {DonorIndex(donors, c.members[slot].name) :
                 slot \in Changed(deltas, since, now) \cap DOMAIN c.members}
  IN RankOrder(named \ {Unranked}, [d \in named |-> d])

Changes(c, donors, ranks, deltas, kind, since, now) ==
  IF TooFarBack(since, now, MaxChangesWindow) THEN BadRequest
  ELSE IF kind \in {"members", "teams"} THEN ChangedMembers(deltas, since, now, ranks)
  ELSE ChangedDonors(c, donors, deltas, since, now)

-----------------------------------------------------------------------------
(* What is different on a roster: who stopped, surges or joined.           *)

\* The members of a class, the largest amounts first (equal ones in any order,
\* here as stored), and how many there are.
Largest(slots, amount) ==
  [total |-> Len(slots), members |-> Slice(StableDesc(slots, amount), 0, MaxActivityMembers)]

TeamActivity(c, w, roster, baseline) ==
  LET joined(s) == MemberArrivedSince24h(s, baseline)
      rate(s) == PerDay(w.last7d[s], w.span[s])
      stopped(s) == ~ joined(s) /\ w.last7d[s] > 0 /\ w.last24[s] = 0
      surging(s) == /\ ~ joined(s) /\ w.last24[s] > 0
                    /\ rate(s) > 0 /\ 2 * w.last24[s] >= 3 * rate(s)
  IN [stopped |-> Largest(SelectSeq(roster, stopped), w.last7d),
      surging |-> Largest(SelectSeq(roster, surging),
                          [s \in ToSet(roster) |-> w.last24[s] - rate(s)]),
      joined |-> Largest(SelectSeq(roster, joined), ScoresOf(c.members)),
      newKnown |-> baseline # 0 /\ roster # <<>>]

\* The project as one entity: the teams are authoritative for its production.
Totals(c, donors, w, tw) ==
  LET sum(s) == FoldLeft(+, 0, s)
  IN [points |-> sum(ScoresOf(c.teams)), last_24h |-> sum(tw.last24),
      last_7d |-> sum(tw.last7d), today |-> sum(tw.today),
      this_week |-> sum(tw.week), this_month |-> sum(tw.month),
      last_cycle |-> sum(tw.update),
      teams |-> Len(c.teams), donors |-> Len(donors), members |-> Len(c.members),
      teamsActive |-> Cardinality({i \in DOMAIN c.teams : tw.last7d[i] > 0}),
      donorsActive |-> Cardinality({d \in DOMAIN donors :
                         DonorTotals(c, w, donors[d]).last_7d > 0})]
-----------------------------------------------------------------------------
(* A search of the API, and of the MCP server.  Letters 0 to 9 are digits. *)

ReadsAsNumber(q) == \A i \in DOMAIN q : q[i][1] \in 0..9

NumberOf(q) == FoldLeft(LAMBDA n, letter : 10 * n + letter[1], 0, q)

\* The slot of the team whose number the query reads as, if there is one.
TeamNumbered(ids, q) ==
  SelectSeq(Identity(Len(ids)), LAMBDA slot : ReadsAsNumber(q) /\ ids[slot] = NumberOf(q))

\* Led by the team of that number, which may be among the hits again.
LedBy(numbered, hits) == numbered \o SelectSeq(hits, LAMBDA slot : slot \notin ToSet(numbered))

SearchTeams(order, names, rank, ids, q, limit) ==
  LET hits == TeamPrefix(order, names, rank, q, limit)
      numbered == TeamNumbered(ids, q)
  IN [teams |-> Slice(LedBy(numbered, hits), 0, limit),
      exactTeam |-> numbered # <<>> \/ \E slot \in ToSet(hits) : names[slot] = q]

SearchDonors(order, names, q, limit) ==
  LET hits == DonorPrefix(order, names, q, limit)
  IN [donors |-> hits, exactDonor |-> \E d \in ToSet(hits) : names[d] = q]

\* The tool shows the team of that number besides as many hits as it was asked for.
McpSearchTeams(order, names, rank, ids, q, limit) ==
  LedBy(TeamNumbered(ids, q), TeamPrefix(order, names, rank, q, limit))
=============================================================================
