------------------------------- MODULE Window -------------------------------
(***************************************************************************)
(* The rolling and calendar production windows of                          *)
(* src/internal/metrics/window.go, kept incrementally cycle by cycle and   *)
(* rebuilt from the stored deltas when the process starts                  *)
(* (restoreWindows of src/internal/service/service.go, DeltasSince of      *)
(* src/internal/store/history.go).                                         *)
(*                                                                         *)
(* An entity is its slot, numbered in first-seen order; the deltas of a    *)
(* cycle are a function on the slots that moved.  Time is in whole units,  *)
(* of which a day has Day and the seven-day window WeekSpan.               *)
(***************************************************************************)
EXTENDS Integers, Sequences, Functions, SequencesExt

CONSTANTS
  Day,         \* the rolling day
  WeekSpan,    \* the rolling week
  WeekOffset,  \* how far into a calendar week time 0 is
  MaxSlots     \* bound: the entities ever seen

ASSUME SpanAssumption ==
  /\ Day \in Nat \ {0} /\ WeekSpan \in Nat /\ WeekSpan >= Day
  /\ WeekOffset \in 0..(WeekSpan - 1)
  /\ MaxSlots \in Nat

Slots == 0..(MaxSlots - 1)

\* The Window that New returns; every array has an entry for each slot there
\* may be, and size is how many of them the window covers.
New ==
  [cycles |-> <<>>, idx24 |-> 0, size |-> 0,
   last24 |-> [s \in Slots |-> 0], last7d |-> [s \in Slots |-> 0],
   today |-> [s \in Slots |-> 0], week |-> [s \in Slots |-> 0],
   update |-> [s \in Slots |-> 0], prev |-> {},
   at |-> 0, firstAt |-> 0, dayStart |-> -1, weekStart |-> -1]

Grow(w, n) == IF n <= w.size THEN w ELSE [w EXCEPT !.size = n]

DayOf(t) == t \div Day
WeekOf(t) == (t + WeekOffset) \div WeekSpan

\* What a cycle's deltas, or the cycles at some indexes, move a slot by.
Moved(deltas, s) == IF s \in DOMAIN deltas THEN deltas[s] ELSE 0

Made(cycles, I, s) == SumFunctionOnSet([i \in I |-> Moved(cycles[i].deltas, s)], I)

Add(array, deltas) == [s \in Slots |-> array[s] + Moved(deltas, s)]

SubtractAll(array, cycles, I) == [s \in Slots |-> array[s] - Made(cycles, I, s)]

\* Mutant: a cycle exactly as old as the window stays in it.
AgedOut_Late(cycles, from, cutoff) ==
  CHOOSE n \in from..Len(cycles) :
    /\ \A i \in (from + 1)..n : cycles[i].at < cutoff
    /\ n < Len(cycles) => cycles[n + 1].at >= cutoff

\* Where a loop that starts at an index stops: at the first cycle after a cutoff.
AgedOut(cycles, from, cutoff) ==
  CHOOSE n \in from..Len(cycles) :
    /\ \A i \in (from + 1)..n : cycles[i].at <= cutoff
    /\ n < Len(cycles) => cycles[n + 1].at > cutoff

\* expire: the day's boundary first, then the week's, which drops cycles.
Expire24(w) ==
  LET n == AgedOut(w.cycles, w.idx24, w.at - Day)
  IN [w EXCEPT
        !.last24 = SubtractAll(@, w.cycles, (w.idx24 + 1)..n),
        !.idx24 = n]

\* Mutant: the day's boundary is reset, not moved, when cycles are dropped.
Expire7d_ResetsIndex(w) ==
  LET n == AgedOut(w.cycles, 0, w.at - WeekSpan)
  IN [w EXCEPT
        !.last7d = SubtractAll(@, w.cycles, 1..n),
        !.cycles = SubSeq(@, n + 1, Len(@)),
        !.idx24 = IF n > 0 THEN 0 ELSE @]

Expire7d(w) ==
  LET n == AgedOut(w.cycles, 0, w.at - WeekSpan)
  IN [w EXCEPT
        !.last7d = SubtractAll(@, w.cycles, 1..n),
        !.cycles = SubSeq(@, n + 1, Len(@)),
        !.idx24 = IF @ < n THEN 0 ELSE @ - n]

Zero(array, slots) == [s \in Slots |-> IF s \in slots THEN 0 ELSE array[s]]

Record(w, t, deltas) ==
  LET today == IF DayOf(t) = w.dayStart THEN w.today ELSE Zero(w.today, Slots)
      week == IF WeekOf(t) = w.weekStart THEN w.week ELSE Zero(w.week, Slots)
  IN [w EXCEPT
        !.firstAt = IF @ = 0 THEN t ELSE @,
        !.dayStart = DayOf(t),
        !.weekStart = WeekOf(t),
        !.last24 = Add(@, deltas),
        !.last7d = Add(@, deltas),
        !.today = Add(today, deltas),
        !.week = Add(week, deltas),
        !.update = Add(Zero(@, w.prev \cup DOMAIN deltas), deltas),
        !.cycles = Append(@, [at |-> t, deltas |-> deltas, count |-> w.size]),
        !.prev = DOMAIN deltas,
        !.at = t]

Push(w, t, deltas) ==
  IF w.at # 0 /\ t <= w.at THEN w ELSE Expire7d(Expire24(Record(w, t, deltas)))

\* What the window answers.  A result that does not exist is -1.
Baseline(w) == IF w.idx24 = 0 THEN -1 ELSE w.cycles[w.idx24].count

PreviousAt(w) ==
  IF Len(w.cycles) < 2 THEN -1 ELSE w.cycles[Len(w.cycles) - 1].at

Span(w) == IF w.firstAt = 0 THEN 0 ELSE w.at - w.firstAt

Complete(w) == Span(w) >= WeekSpan

AvgInterval(w) ==
  IF Len(w.cycles) < 2 THEN 0
  ELSE (w.at - w.cycles[1].at) \div (Len(w.cycles) - 1)

CoveredSpan(w) ==
  IF w.cycles = <<>> THEN 0
  ELSE LET span == w.at - w.cycles[1].at
           whole == IF w.cycles[1].at = w.firstAt THEN span
                    ELSE span + AvgInterval(w)
       IN IF whole > WeekSpan THEN WeekSpan ELSE whole

ObservedSpan(w, s) ==
  IF w.cycles = <<>> THEN 0
  ELSE IF s < w.cycles[1].count THEN CoveredSpan(w)
  ELSE IF \A i \in DOMAIN w.cycles : w.cycles[i].count <= s THEN 0
  ELSE w.at - w.cycles[SelectInSeq(w.cycles, LAMBDA c : c.count > s)].at

-----------------------------------------------------------------------------
(* The process: cycles are committed and pushed, and a restart replays them. *)

CONSTANTS
  Gaps,       \* the times that pass between two cycles
  Deltas,     \* the productions of an entity in a cycle
  MaxCycles   \* bound: the cycles ever committed

ASSUME RunAssumption ==
  /\ Gaps \subseteq Nat \ {0} /\ Deltas \subseteq Int /\ MaxCycles \in Nat

VARIABLES
  stored,   \* the cycles table and its deltas, oldest first
  members,  \* len(state.Members), which a restart loads back
  window    \* Service.memberWin, or teamWin

windowVars == <<stored, members, window>>

WindowInit ==
  /\ stored = <<>>
  /\ members = 0
  /\ window = New

\* The end of applyCycle: some entities are new, some known ones moved.
ApplyCycle ==
  /\ Len(stored) < MaxCycles
  /\ \E gap \in Gaps, fresh \in 0..1,
        moved \in SUBSET (0..(members - 1)) :
       \E deltas \in [moved -> Deltas] :
         LET t == window.at + gap
         IN /\ members + fresh <= MaxSlots
            /\ members' = members + fresh
            /\ stored' = Append(stored, [at |-> t, deltas |-> deltas,
                                         fresh |-> fresh])
            /\ window' = Push(Grow(window, members'), t, deltas)

\* Mutant: every replayed cycle is stamped with today's size.
SizeAt_Today(cycles, i) == members

\* The entities that the cycles at some indexes brought.
Brought(cycles, I) == SumFunctionOnSet([i \in I |-> cycles[i].fresh], I)

\* The sizes are worked out backwards from the current one.
SizeAt(cycles, i) == members - Brought(cycles, (i + 1)..Len(cycles))

Replay(cycles) ==
  LET after[i \in 0..Len(cycles)] ==
        IF i = 0 THEN New
        ELSE Push(Grow(after[i - 1], SizeAt(cycles, i)), cycles[i].at, cycles[i].deltas)
  IN Grow(after[Len(cycles)], members)

\* The table is in the order of time: what is not before an instant is its tail.
DeltasSince(since) == SubSeq(stored, AgedOut(stored, 0, since - 1) + 1, Len(stored))

\* restoreWindows.
Restored ==
  IF stored = <<>> THEN New
  ELSE Replay(DeltasSince(stored[Len(stored)].at - WeekSpan))

Restart ==
  /\ window' = Restored
  /\ UNCHANGED <<stored, members>>

WindowNext == ApplyCycle \/ Restart

WindowSpec == WindowInit /\ [][WindowNext]_windowVars

-----------------------------------------------------------------------------
(* Properties, against the whole record of cycles. *)

Now == window.at
Age(i) == Now - stored[i].at

\* Every window is the sum of the deltas of its period, although each is kept
\* by adding the entering cycle and subtracting the leaving ones, across
\* outages longer than a day or a week and across restarts
\* (window.go:4-10, 17-20, 128-133).
WindowsAreTheirSums ==
  \A s \in Slots :
    /\ window.last24[s] = Made(stored, {i \in DOMAIN stored : Age(i) < Day}, s)
    /\ window.last7d[s] = Made(stored, {i \in DOMAIN stored : Age(i) < WeekSpan}, s)
    /\ window.today[s] = Made(stored, {i \in DOMAIN stored : DayOf(stored[i].at) = DayOf(Now)}, s)
    /\ window.week[s] = Made(stored, {i \in DOMAIN stored : WeekOf(stored[i].at) = WeekOf(Now)}, s)
    /\ window.update[s] = Made(stored, {i \in DOMAIN stored : Age(i) = 0}, s)

\* The corpus size a day back is that of the newest cycle at or before then
\* that the window still holds, replayed or not: the cycles after it are the
\* ones that Last24h sums (window.go:207-221, service.go:167-180).
SizeThen(t) == Brought(stored, {i \in DOMAIN stored : stored[i].at <= t})

BaselineIsTheDayBefore ==
  LET held == {i \in DOMAIN stored : Age(i) \in Day..(WeekSpan - 1)}
  IN Baseline(window) = IF held = {} THEN -1
                        ELSE SizeThen(stored[CHOOSE i \in held :
                                               \A j \in held : j <= i].at)

\* What a restart rebuilds answers as the window that ran all along, but for
\* when it began to observe (service.go:151-180).
Figures(w) ==
  [last24 |-> w.last24, last7d |-> w.last7d, today |-> w.today, week |-> w.week,
   update |-> w.update, baseline |-> Baseline(w), previous |-> PreviousAt(w),
   at |-> w.at, size |-> w.size,
   counts |-> [i \in DOMAIN w.cycles |-> w.cycles[i].count]]

RestartKeepsFigures == Figures(Restored) = Figures(window)

\* A full week of observation is not lost again: the qualifier it ends is of
\* figures that converge "and then stay converged forever" (server.go:301-303).
\* The code loses it at a restart, as with Gaps = {1, 3} (README, Disagreements).
StaysConverged == [][Complete(window) => Complete(window')]_windowVars

\* An entity is not claimed to have been watched before it was first seen
\* (window.go:321-324, "never longer").  One that was first seen in the oldest
\* cycle still held is, as with Gaps = {1} (README, Disagreements).
FirstSeen(s) ==
  stored[CHOOSE i \in DOMAIN stored :
           /\ SizeThen(stored[i].at) > s
           /\ \A j \in 1..(i - 1) : SizeThen(stored[j].at) <= s].at

NeverLongerThanSeen ==
  \A s \in 0..(members - 1) : ObservedSpan(window, s) <= Now - FirstSeen(s)
=============================================================================
