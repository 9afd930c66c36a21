----------------------------- MODULE Insights -----------------------------
(***************************************************************************)
(* What the API derives from the views of two entities or from the record  *)
(* of one: src/internal/api/rivals.go, insights.go and daily.go with the   *)
(* tools of mcp.go over the same figures, the queries of handlers.go, the  *)
(* request rate of rate.go and the days of src/internal/store/daily.go.    *)
(*                                                                         *)
(* An entity is a record of its rank, its lifetime points and its rates    *)
(* over the rolling day and week.  The formatting of the tools is left     *)
(* out: what they decide to say is kept.                                   *)
(***************************************************************************)
EXTENDS Views

CONSTANTS
  OvertakeHorizonDays,  \* the days past which no swap is projected, 3650
  Horizons,             \* the days that a goal is asked for, 30, 90 and 365
  RecentWindowDays,     \* the days of the recent ratio, 30
  MaxHistoryTeams,      \* the memberships summed into one series, 100
  RateWindow,           \* the seconds of the request rate, 60
  NotFound,             \* the answer for an entity that there is not
  Never,                \* no swap within the horizon
  NoRecent              \* no work in the recent window

ASSUME InsightAssumption ==
  /\ OvertakeHorizonDays \in Nat /\ Horizons \subseteq Nat \ {0}
  /\ RecentWindowDays \in Nat \ {0} /\ MaxHistoryTeams \in Nat \ {0}
  /\ RateWindow \in Nat \ {0} /\ Never \notin Int

Abs(x) == IF x < 0 THEN - x ELSE x

CeilDiv(a, b) == - ((- a) \div b)

-----------------------------------------------------------------------------
(* When two entities swap places. *)

\* The gap and the hundredths of days until it is closed: whoever is behind
\* has to gain.
ProjectOvertake(self, rival) ==
  LET gap == Abs(self.points - rival.points)
      closing == IF self.points > rival.points THEN rival.rate - self.rate
                 ELSE self.rate - rival.rate
  IN [gap |-> gap,
      days |-> IF gap = 0 THEN 0
               ELSE IF closing <= 0 \/ gap > OvertakeHorizonDays * closing THEN Never
               ELSE RoundDiv(100 * gap, closing)]

Compare(a, b) ==
  [overtake |-> ProjectOvertake(a, b),
   leader |-> IF a.points > b.points THEN "a" ELSE IF b.points > a.points THEN "b" ELSE "tie"]

\* A page of an order around one of its entities, each with its swap; there is
\* none with oneself.
Rivals(order, entity, self, page, perPage) ==
  LET at == CHOOSE i \in DOMAIN order : order[i] = self
      bounds == Paginate(page, perPage, Len(order), at)
      row(id) == [id |-> id, self |-> id = self,
                  overtake |-> IF id = self THEN [gap |-> 0, days |-> Never]
                               ELSE ProjectOvertake(entity[self], entity[id])]
      rows == Slice(order, bounds.lo, bounds.hi)
  IN IF bounds = BadRequest THEN BadRequest ELSE [i \in DOMAIN rows |-> row(rows[i])]

\* The neighbourhood that the tool of the MCP server tells, with the rate over
\* the week (mcp.go:1431).
McpRivals(order, entity, self, span) ==
  LET at == CHOOSE i \in DOMAIN order : order[i] = self
      bounds == Around(at - 1, span, Len(order))
      weekly(id) == [points |-> entity[id].points, rate |-> entity[id].rate7d]
      rows == Slice(order, bounds[1], bounds[2])
  IN [i \in DOMAIN rows |->
       [id |-> rows[i], self |-> rows[i] = self,
        overtake |-> ProjectOvertake(weekly(self), weekly(rows[i]))]]

-----------------------------------------------------------------------------
(* What a target would take. *)

\* Mutant: the target stands still.
RequiredRate_OfToday(self, target, days) == CeilDiv(target.points - self.points, days)

\* The rate to average to be where the target will be after some days.
RequiredRate(self, target, days) ==
  CeilDiv(target.points + target.rate * days - self.points, days)

Goal(self, target) ==
  LET holding == self.points >= target.points
      rate(days) == Max({0, RequiredRate(self, target, days)})
  IN [holding |-> holding,
      alreadyReached |-> holding /\ self.rate >= target.rate,
      gap |-> Abs(self.points - target.points),
      overtake |-> ProjectOvertake(self, target),
      horizons |-> {<<days, rate(days)>> : days \in {d \in Horizons : rate(d) # 0}}]

\* By a date some days away, the rate is all that is told.
GoalBy(self, target, days) ==
  IF days <= 0 THEN BadRequest ELSE Max({0, RequiredRate(self, target, days)})

\* A target is a rank of an order, a fixed total or another entity.
AtRank(order, entity, rank) ==
  IF rank \notin DOMAIN order THEN BadRequest ELSE entity[order[rank]]

PointsTarget(points) == [points |-> points, rate |-> 0]

\* What the tool says of a goal: at or above the rank, past the target,
\* keeping a lead or making up for one.
McpGoal(self, target, targetRank) ==
  IF targetRank > 0 /\ self.rank <= targetRank THEN "at rank"
  ELSE IF self.points >= target.points /\ target.rate <= self.rate THEN "past"
  ELSE IF self.points >= target.points THEN "holding"
  ELSE "behind"

-----------------------------------------------------------------------------
(* The biggest movements near the top of an order.  changeOf gives the     *)
(* movement of those that have one.                                        *)

MoverView(order, changeOf, direction, within, limit) ==
  LET top == SelectSeq(Slice(order, 0, within), LAMBDA id :
               id \in DOMAIN changeOf /\ changeOf[id] # 0)
      sorted == StableDesc(top, changeOf)
      climbed == SelectSeq(sorted, LAMBDA id : changeOf[id] > 0)
      fell == SelectSeq(Reverse(sorted), LAMBDA id : changeOf[id] < 0)
  IN [climbed |-> IF direction = "down" THEN <<>> ELSE Slice(climbed, 0, limit),
      fell |-> IF direction = "up" THEN <<>> ELSE Slice(fell, 0, limit)]

-----------------------------------------------------------------------------
(* The days of one entity: a function from the days it produced on to its  *)
(* points and work units.                                                  *)

NoRun == [activeDays |-> 0, longest |-> 0, current |-> 0, since |-> 0]

\* The rows of several memberships, each with its member, summed by day.
MemberDays(rows) ==
  LET days == {r.day : r \in rows}
      on(d) == {r \in rows : r.day = d}
  IN [d \in days |-> [points |-> SumOver(on(d), LAMBDA r : r.points),
                      wus |-> SumOver(on(d), LAMBDA r : r.wus)]]

DonorDays(members, rowsOf) ==
  MemberDays(UNION {rowsOf[m] : m \in ToSet(Slice(members, 0, MaxHistoryTeams))})

\* The runs of the days: the last one is current if it reaches today, which is
\* in progress, or yesterday.
StreakOf(days, today) ==
  LET seq == SetToSortSeq(days, <)
      step(acc, i) ==
        LET run == IF i > 1 /\ seq[i] = seq[i - 1] + 1 THEN acc.run + 1 ELSE 1
        IN [run |-> run, longest |-> Max({acc.longest, run})]
      end == FoldLeft(step, [run |-> 0, longest |-> 0], Identity(Len(seq)))
      last == seq[Len(seq)]
      current == last = today \/ last = today - 1
  IN IF days = {} THEN NoRun
     ELSE [activeDays |-> Len(seq), longest |-> end.longest,
           current |-> IF current THEN end.run ELSE 0,
           since |-> IF current THEN last - end.run + 1 ELSE 0]

\* A run that reaches the first day on record is a lower bound.
AtCollectionFloor(streak, floor) == streak.current > 0 /\ streak.since <= floor

\* The work of the trailing window, which the record may cut short.
RecentOf(days, today, floor) ==
  LET from == Max({today - RecentWindowDays + 1, floor})
      within == {d \in DOMAIN days : d >= from}
      wus == SumOver(within, LAMBDA d : days[d].wus)
  IN IF wus <= 0 THEN NoRecent
     ELSE [days |-> today - from + 1, wus |-> wus,
           points |-> SumOver(within, LAMBDA d : days[d].points)]

\* The rates over each window that can be answered for, and whether it is
\* partial: shorter than its name by more than one interval of publishes.
PerDayWindows(observed, last24, last7d, recent, interval, hour) ==
  LET slack == IF interval <= 0 \/ interval > hour THEN hour ELSE interval
      win(nominal, points) ==
        [rate |-> PerDay(points, Min({observed, nominal})),
         covers |-> Min({observed, nominal}),
         partial |-> observed < nominal - slack]
      month == [rate |-> PerDay(recent.points, recent.days * Day),
                covers |-> recent.days * Day,
                partial |-> recent.days < RecentWindowDays]
  IN <<win(Day, last24), win(7 * Day, last7d)>> \o
     IF recent = NoRecent THEN <<>> ELSE <<month>>

-----------------------------------------------------------------------------
(* The range of a history: by granularity the default reach back and the   *)
(* longest span, given as functions.                                       *)

ParseHistoryQuery(gran, from, to, now, hour, reach, longest) ==
  LET g == IF gran = "cycle" \/ gran = Unasked THEN "hourly" ELSE gran
      start == IF from = Unasked THEN now - reach[g] ELSE from
      end == IF to = Unasked THEN now + hour ELSE to
  IN IF g \notin DOMAIN reach \/ end <= start \/ end - start > longest[g] THEN BadRequest
     ELSE [gran |-> g, from |-> start, to |-> end,
           defaulted |-> from = Unasked /\ to = Unasked]

\* A series of the members of a donor, all or those on one team.
DonorSeries(c, members, team) ==
  LET chosen == IF team = Unasked THEN members
                ELSE SelectSeq(members, LAMBDA slot : c.members[slot].team = team)
  IN IF team # Unasked /\ chosen = <<>> THEN NotFound
     ELSE [members |-> Slice(chosen, 0, MaxHistoryTeams),
           truncated |-> Len(chosen) > MaxHistoryTeams]

-----------------------------------------------------------------------------
(* Requests per second: a ring of counts, one for each second of a window, *)
(* and the second of the newest.                                           *)

EmptyRing == [s \in 0..RateWindow - 1 |-> 0]

\* Mutant: only the second that is counted now is cleared.
Advance_ClearsOne(c, sec) ==
  [ring |-> IF sec = c.last THEN c.ring ELSE [c.ring EXCEPT ![sec % RateWindow] = 0],
   last |-> sec]

Advance(c, sec) ==
  IF sec - c.last >= RateWindow \/ sec < c.last
  THEN [ring |-> EmptyRing, last |-> sec]
  ELSE [ring |-> [s \in DOMAIN c.ring |->
                   IF \E t \in c.last + 1 .. sec : t % RateWindow = s THEN 0 ELSE c.ring[s]],
        last |-> sec]

Add(c, sec) ==
  LET now == Advance(c, sec)
  IN [now EXCEPT !.ring[sec % RateWindow] = @ + 1]

RateTotal(c, sec) == LET now == Advance(c, sec) IN SumOver(DOMAIN now.ring, LAMBDA s : now.ring[s])

\* A counter that has seen requests at a sequence of seconds.
Counted(seconds) == FoldLeft(Add, [ring |-> EmptyRing, last |-> 0], seconds)
=============================================================================
