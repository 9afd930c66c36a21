---------------------------- MODULE DaemonProofs ----------------------------
(***************************************************************************)
(* The schedule of the daily maintenance, of the polls and of the purges,  *)
(* for any delays and cadence, and any number of failures and restarts.    *)
(***************************************************************************)
EXTENDS Daemon, FiniteSetTheorems, WellFoundedInduction, TLAPS

-----------------------------------------------------------------------------
(* The schedule of maintenance: its inductive invariant. *)

Times == Nat \union {None}

Formed ==
  /\ now \in Nat /\ due \in Nat /\ done \in Nat /\ upSince \in Nat
  /\ marker \in Times /\ failed \in Times
  /\ stage \in {"wait", "compact", "prune", "mark"} /\ unmarked \in BOOLEAN

\* What is recorded is not ahead of what was done; it is that, unless a record was
\* lost, or is about to be written, of a pass that is done by now.
Recorded ==
  /\ done <= now
  /\ marker # None => marker <= done
  /\ stage # "mark" => unmarked \/ marker = done
  /\ stage = "mark" => done = now

\* A pass that waits is due no later than its cause says, and it has not been
\* passed over.
NotLate ==
  stage = "wait" =>
    /\ now <= due
    /\ \/ due <= done + Every
       \/ due <= upSince + Delay
       \/ failed # None /\ due <= failed + Retry

\* A pass is due, and is under way, no sooner than the process is old enough and,
\* unless a record was lost, a day after the last one.
NotEarly(at) == at >= upSince + Delay /\ (unmarked \/ at >= done + Every)
NotSoon ==
  /\ stage = "wait" => NotEarly(due)
  /\ stage \in {"compact", "prune"} => NotEarly(now)
  /\ stage = "mark" => now >= upSince + Delay

IInv == Formed /\ Recorded /\ NotLate /\ NotSoon

-----------------------------------------------------------------------------

\* The invariant holds at the start: no record is there to be lost.
LEMMA InitIInv == Init => IInv
BY DaemonAssumption DEF Init, IInv, Formed, Times, Recorded, NotLate, NotSoon, NotEarly

\* Every step keeps it.
LEMMA StepIInv == IInv /\ [Next]_vars => IInv'
<1> SUFFICES ASSUME IInv, [Next]_vars PROVE IInv'
  OBVIOUS
<1> USE DaemonAssumption DEF IInv, Formed, Times
<1>1. CASE UNCHANGED <<now, maintenance, upSince>>
  BY <1>1 DEF maintenance, Recorded, NotLate, NotSoon, NotEarly
<1>2. CASE Tick
  BY <1>2 DEF Tick, maintenance, Recorded, NotLate, NotSoon, NotEarly
<1>3. CASE StartPass
  BY <1>3 DEF StartPass, Recorded, NotLate, NotSoon, NotEarly
<1>4. CASE PassGoesOn
  <2>1. UNCHANGED <<now, marker, unmarked, upSince>>
    BY <1>4 DEF PassGoesOn
  <2>2. CASE stage = "compact" /\ stage' = "prune" /\ UNCHANGED <<due, done, failed>>
    BY <2>1, <2>2 DEF Recorded, NotLate, NotSoon, NotEarly
  <2>3. CASE stage = "prune" /\ stage' = "mark" /\ done' = now /\ UNCHANGED <<due, failed>>
    BY <2>1, <2>3 DEF Recorded, NotLate, NotSoon, NotEarly
  <2>4. CASE /\ stage \in {"compact", "prune"} /\ stage' = "wait"
             /\ due' = now + Retry /\ failed' = now /\ UNCHANGED done
    BY <2>1, <2>4 DEF Recorded, NotLate, NotSoon, NotEarly
  <2> QED
    BY <1>4, <2>2, <2>3, <2>4 DEF PassGoesOn
<1>5. CASE MarkPass
  <2>1. /\ stage = "mark" /\ stage' = "wait" /\ due' = now + Every
        /\ UNCHANGED <<now, done, failed, upSince>>
    BY <1>5 DEF MarkPass
  <2>2. CASE marker' = now /\ unmarked' = FALSE
    <3>1. marker' = done' /\ due' = done' + Every /\ now >= upSince + Delay
      BY <2>1, <2>2 DEF Recorded, NotSoon
    <3>2. unmarked' \in BOOLEAN
      BY <2>2
    <3> QED
      BY <2>1, <2>2, <3>1, <3>2 DEF Recorded, NotLate, NotSoon, NotEarly
  <2>3. CASE unmarked' = TRUE /\ UNCHANGED marker
    BY <2>1, <2>3 DEF Recorded, NotLate, NotSoon, NotEarly
  <2> QED
    BY <1>5, <2>2, <2>3 DEF MarkPass
<1>6. CASE Restart
  <2>1. /\ stage' = "wait" /\ upSince' = now /\ UNCHANGED <<now, marker, done, failed>>
    BY <1>6 DEF Restart
  <2>2. PICK read \in {marker, None} :
          /\ due' = NextDue(read)
          /\ unmarked' = (unmarked \/ stage = "mark" \/ read # marker)
    BY <1>6 DEF Restart
  <2>3. CASE read = None
    <3>1. due' = now + Delay
      BY <2>2, <2>3 DEF NextDue
    <3>2. unmarked' \in BOOLEAN /\ (unmarked' \/ marker = done)
      BY <2>2, <2>3 DEF Recorded
    <3>3. unmarked'
      BY <3>2, <2>3, <2>2 DEF Recorded
    <3> QED
      BY <2>1, <3>1, <3>3 DEF Recorded, NotLate, NotSoon, NotEarly
  <2>4. CASE read # None
    <3>1. marker # None /\ marker \in Nat /\ marker <= done
      BY <2>2, <2>4 DEF Recorded
    <3>2. due' \in Nat /\ due' >= marker + Every /\ due' >= now + Delay
          /\ (due' = marker + Every \/ due' = now + Delay)
      BY <2>2, <2>4, <3>1 DEF NextDue, Most
    <3>3. unmarked' \in BOOLEAN /\ (unmarked' \/ marker = done)
      BY <2>2 DEF Recorded
    <3> QED
      BY <2>1, <3>1, <3>2, <3>3 DEF Recorded, NotLate, NotSoon, NotEarly
  <2> QED
    BY <2>3, <2>4
<1>7. CASE \/ UpstreamPublishes \/ Poll \/ PollFails \/ Publish \/ AskPurge
           \/ \E at \in sending : PurgeLands(at) \/ PurgeFails(at)
           \/ EdgeAsks \/ EdgeKeeps
  BY <1>1, <1>7 DEF UpstreamPublishes, Poll, PollFails, Publish, AskPurge, PurgeLands, PurgeFails,
                    EdgeAsks, EdgeKeeps, maintenance
<1>8. CASE UNCHANGED vars
  BY <1>1, <1>8 DEF vars
<1> QED
  BY <1>2, <1>3, <1>4, <1>5, <1>6, <1>7, <1>8 DEF Next

\* A day after the last full pass the next one is under way, unless the process is
\* younger than the delay or a pass has just failed, and none begins sooner unless a
\* record was lost (main.go, nextDue and maintain).
THEOREM Timely == Spec => []MaintenanceIsTimely
<1>1. IInv => MaintenanceIsTimely
  BY DaemonAssumption DEF IInv, Formed, Times, NotLate, NotSoon, NotEarly, MaintenanceIsTimely
<1> QED
  BY <1>1, InitIInv, StepIInv, PTL DEF Spec

-----------------------------------------------------------------------------
(* The estimate. *)

\* A non-empty set of times has a least one.
LEMMA LeastExists ==
  ASSUME NEW S \in SUBSET Nat, S # {}
  PROVE  \E x \in S : \A s \in S : x <= s
<1> DEFINE Below(x) == {s \in S : s <= x}
           Heads == {Below(x) : x \in S}
<1>1. Heads \subseteq FiniteSubsetsOf(S)
  BY FS_BoundedSetOfNaturals DEF FiniteSubsetsOf
<1>2. PICK T \in Heads : \A U \in Heads : <<U, T>> \notin StrictSubsetOrdering(S)
  <2>1. Heads # {}
    OBVIOUS
  <2> HIDE DEF Heads
  <2> QED
    BY <1>1, <2>1, WFMin, FS_StrictSubsetOrderingWellFounded
<1>3. PICK x \in S : T = Below(x)
  BY <1>2
<1>4. ASSUME NEW s \in S, s < x
      PROVE  FALSE
  <2>1. \A y \in S : y <= s => y <= x
    BY <1>4
  <2>2. x <= x /\ ~ (x <= s)
    BY <1>4
  <2>3. Below(s) \subseteq Below(x) /\ Below(s) # Below(x)
    BY <2>1, <2>2, Zenon
  <2>4. <<Below(s), T>> \in StrictSubsetOrdering(S)
    BY <2>3, <1>3 DEF StrictSubsetOrdering
  <2> QED
    BY <2>4, <1>2
<1> QED
  BY <1>4

\* Whatever was observed, the estimate is a number of ticks: the median exists.
LEMMA EstimateIsNat ==
  ASSUME cycles \in Seq(Nat)
  PROVE  Estimate \in Nat
<1> USE DaemonAssumption
<1>1. CASE Plausible = {}
  BY <1>1 DEF Estimate
<1>2. CASE Plausible # {}
  <2> DEFINE S == {v \in MinInterval..MaxInterval : OverHalf(v)}
  <2>1. Plausible \subseteq 1..(Len(cycles) - 1)
    BY DEF Plausible
  <2>2. IsFiniteSet(Plausible)
    <3>1. Len(cycles) - 1 \in Int /\ 1 \in Int
      OBVIOUS
    <3>2. IsFiniteSet(1..(Len(cycles) - 1))
      BY <3>1, FS_Interval
    <3> QED
      BY <2>1, <3>2, FS_Subset
  <2>3. Cardinality(Plausible) \in Nat /\ Cardinality(Plausible) # 0
    BY <1>2, <2>2, FS_CardinalityType, FS_EmptySet
  <2>4. Plausible = {i \in Plausible : Interval(i) <= MaxInterval}
    BY DEF Plausible
  <2>5. OverHalf(MaxInterval)
    <3>1. OverHalf(MaxInterval) <=> 2 * Cardinality(Plausible) > Cardinality(Plausible)
      BY <2>4, Zenon DEF OverHalf
    <3> QED
      BY <2>3, <3>1
  <2>6. MaxInterval \in S /\ S \subseteq Nat
    <3>1. MinInterval \in Nat /\ MaxInterval \in Nat /\ MinInterval <= MaxInterval
      OBVIOUS
    <3> QED
      BY <2>5, <3>1
  <2>7. PICK x \in S : \A s \in S : x <= s
    BY <2>6, LeastExists
  <2>8. \E v \in MinInterval..MaxInterval :
          OverHalf(v) /\ \A u \in MinInterval..MaxInterval : OverHalf(u) => v <= u
    BY <2>7
  <2>9. Estimate \in MinInterval..MaxInterval
    BY <1>2, <2>8, Zenon DEF Estimate
  <2> QED
    BY <2>9
<1> QED
  BY <1>1, <1>2

-----------------------------------------------------------------------------
(* The polls. *)

PollFormed ==
  /\ now \in Nat /\ pub \in Nat /\ pub <= now
  /\ cycles \in Seq(Nat) /\ timer \in Nat /\ late \in BOOLEAN
  /\ poller \in {"wait", "captured", "published", "loaded", "reloaded"}
  /\ poller # "wait" => cycles # <<>>
  /\ cycles # <<>> => At \in Nat /\ At <= pub

\* A timer that is set at an instant when nothing is due is bounded by that instant;
\* from the moment a publish waits, by the moment it came.
Expected == NextAfter(At)
Asked == IF pub = At THEN now ELSE pub
InTime == timer <= Asked + Idle /\ (timer <= Asked + Close \/ timer <= Expected - Close)

\* No poll is passed over.  Between a capture and the next timer the clock stands
\* still; and after a restart a poll is due at once.
PollsComeInTime ==
  /\ poller = "wait" => now <= timer
  /\ poller \in {"captured", "published"} => pub \in {At, now}
  /\ poller \in {"loaded", "reloaded"} => timer = now
  /\ poller \notin {"captured", "published"} /\ cycles # <<>> /\ ~late => InTime

PInv == PollFormed /\ PollsComeInTime

\* What is assumed of the delays.
LEMMA Delays ==
  /\ Samples \in Nat /\ Samples >= 1 /\ Nominal \in Nat
  /\ Close \in Nat /\ Close >= 1 /\ Idle \in Nat /\ Close <= Idle
  /\ Margin \in Nat /\ MinAge \in Nat /\ MinAge >= 1 /\ MaxAge \in Nat
  /\ Gaps \subseteq Nat /\ None \notin Nat
BY DaemonAssumption

\* The database keeps the newest cycles: whichever fall off, the last one stays.
LEMMA RecentKeepsTheLast ==
  ASSUME NEW c \in Seq(Nat), NEW x \in Nat
  PROVE  LET r == Recent(Append(c, x)) IN r \in Seq(Nat) /\ r # <<>> /\ Last(r) = x
<1> DEFINE d == Append(c, x)
<1>1. d \in Seq(Nat) /\ Len(d) = Len(c) + 1 /\ d[Len(d)] = x /\ Len(c) \in Nat
  OBVIOUS
<1>2. CASE Len(d) > Samples + 1
  <2>1. Tail(d) \in Seq(Nat) /\ Len(Tail(d)) = Len(d) - 1 /\ Len(d) - 1 >= 1
    BY <1>1, <1>2, Delays
  <2>2. Tail(d)[Len(d) - 1] = d[Len(d)]
    BY <1>1, <2>1
  <2>3. Tail(d) # <<>>
    BY <2>1
  <2> QED
    BY <1>1, <1>2, <2>1, <2>2, <2>3 DEF Recent, Last
<1>3. CASE ~ (Len(d) > Samples + 1)
  <2>1. d # <<>>
    BY <1>1
  <2> QED
    BY <1>1, <1>3, <2>1 DEF Recent, Last
<1> QED
  BY <1>2, <1>3

\* The next poll is within the idle interval, and within closeInterval unless the
\* window has not opened when it comes.
LEMMA PollDelayIsShort ==
  ASSUME PollFormed
  PROVE  /\ PollDelay \in Nat /\ PollDelay <= Idle
         /\ cycles # <<>> =>
              /\ Expected \in Nat
              /\ PollDelay <= Close \/ now + PollDelay <= Expected - Close
<1> USE Delays DEF PollFormed
<1>1. CASE cycles = <<>>
  BY <1>1 DEF PollDelay, At
<1>2. CASE cycles # <<>>
  <2>1. At \in Nat /\ At # None
    BY <1>2
  <2>2. Expected \in Nat
    BY <2>1, EstimateIsNat DEF Expected, NextAfter
  <2> QED
    BY <1>2, <2>1, <2>2 DEF PollDelay, Least, Expected
<1> QED
  BY <1>1, <1>2

\* The invariant holds at the start, when a poll is due.
LEMMA InitPInv == Init => PInv
<1> SUFFICES ASSUME Init
             PROVE  PInv
  OBVIOUS
<1>1. now = 0 /\ pub = 0 /\ cycles = <<>> /\ poller = "wait" /\ timer = 0 /\ late = FALSE
  BY DEF Init
<1>2. cycles \in Seq(Nat)
  BY <1>1
<1>3. late \in BOOLEAN
  BY <1>1
<1> QED
  BY <1>1, <1>2, <1>3 DEF PInv, PollFormed, PollsComeInTime

\* Every step keeps it: a timer that was in time stays so while a publish waits, for
\* what the estimate is made of changes with a capture only.
LEMMA StepPInv == PInv /\ [Next]_vars => PInv'
<1> SUFFICES ASSUME PInv, [Next]_vars
             PROVE  PInv'
  OBVIOUS
<1> USE Delays DEF PInv, PollFormed
<1>0. cycles # <<>> => Expected \in Nat
  BY PollDelayIsShort
<1>1. ASSUME UNCHANGED cycles
      PROVE  At' = At /\ Expected' = Expected
  BY <1>1 DEF Expected, At, NextAfter, Estimate, OverHalf, Plausible, Interval
<1>2. CASE UNCHANGED <<now, pub, polling>>
  BY <1>1, <1>2 DEF polling, PollsComeInTime, InTime, Asked
<1>3. CASE UpstreamPublishes
  <2>1. /\ pub' = now /\ now' = now /\ cycles' = cycles /\ timer' = timer
        /\ late' = late /\ poller' = poller
    BY <1>3 DEF UpstreamPublishes, polling
  <2>2. PollFormed'
    BY <1>1, <2>1
  <2>3. PollsComeInTime'
    BY <1>0, <1>1, <2>1 DEF PollsComeInTime, InTime, Asked
  <2> QED
    BY <2>2, <2>3
<1>4. CASE Tick
  <2>1. /\ pub' = pub /\ now' = now + 1 /\ cycles' = cycles /\ timer' = timer
        /\ late' = late /\ poller' = poller /\ poller = "wait" /\ now < timer
    BY <1>4 DEF Tick, polling, upstream
  <2>2. PollFormed'
    BY <1>1, <2>1
  <2>3. PollsComeInTime'
    BY <1>0, <1>1, <2>1 DEF PollsComeInTime, InTime, Asked
  <2> QED
    BY <2>2, <2>3
<1>5. CASE Poll
  <2>1. poller = "wait" /\ now = timer /\ now' = now /\ pub' = pub
    BY <1>5 DEF Poll, upstream
  <2>2. CASE pub # At
    <3>1. /\ cycles' = Recent(Append(cycles, pub)) /\ poller' = "captured"
          /\ late' = FALSE /\ timer' = timer
      BY <1>5, <2>2 DEF Poll
    <3>2. cycles' \in Seq(Nat) /\ cycles' # <<>> /\ At' = pub
      BY <3>1, RecentKeepsTheLast DEF At
    <3>3. late' \in BOOLEAN /\ pub' = pub /\ pub <= now
      BY <2>1, <3>1
    <3>4. PollFormed'
      BY <2>1, <3>1, <3>2, <3>3
    <3>5. PollsComeInTime'
      BY <2>1, <3>1, <3>2 DEF PollsComeInTime
    <3> QED
      BY <3>4, <3>5
  <2>3. CASE pub = At
    <3>1. cycles' = cycles /\ poller' = poller /\ late' = late /\ timer' = now + PollDelay
      BY <1>5, <2>3 DEF Poll
    <3>2. PollFormed'
      BY <1>1, <2>1, <3>1, PollDelayIsShort
    <3>3. PollsComeInTime'
      BY <1>1, <2>1, <2>3, <3>1, PollDelayIsShort DEF PollsComeInTime, InTime, Asked
    <3> QED
      BY <3>2, <3>3
  <2> QED
    BY <2>2, <2>3
<1>6. CASE PollFails
  <2>1. /\ poller = "wait" /\ now' = now /\ pub' = pub /\ cycles' = cycles /\ late' = TRUE
        /\ poller' = poller /\ timer' \in {now + PollDelay, now + Idle}
    BY <1>6 DEF PollFails, upstream
  <2>2. PollFormed'
    BY <1>1, <2>1, PollDelayIsShort
  <2>3. PollsComeInTime'
    BY <1>1, <2>1, PollDelayIsShort DEF PollsComeInTime
  <2> QED
    BY <2>2, <2>3
<1>7. CASE Publish
  <2>1. /\ now' = now /\ pub' = pub /\ cycles' = cycles /\ late' = late /\ timer' = timer
        /\ \/ poller = "captured" /\ poller' = "published"
           \/ poller = "loaded" /\ poller' = "reloaded"
    BY <1>7 DEF Publish, upstream
  <2> QED
    BY <1>1, <2>1 DEF PollsComeInTime, InTime, Asked
<1>8. CASE AskPurge
  <2>1. /\ now' = now /\ pub' = pub /\ cycles' = cycles /\ late' = late /\ poller' = "wait"
        /\ \/ poller = "published" /\ timer' = now + PollDelay
           \/ poller = "reloaded" /\ timer' = timer
    BY <1>8 DEF AskPurge, upstream
  <2>2. PollFormed'
    BY <1>1, <2>1, PollDelayIsShort
  <2>3. CASE poller = "published"
    <3>1. timer' = now + PollDelay /\ pub \in {At, now}
      BY <2>1, <2>3 DEF PollsComeInTime
    <3>2. PollsComeInTime'
      BY <1>1, <2>1, <3>1, PollDelayIsShort DEF PollsComeInTime, InTime, Asked
    <3> QED
      BY <2>2, <3>2
  <2>4. CASE poller = "reloaded"
    <3>1. timer' = now
      BY <2>1, <2>4 DEF PollsComeInTime
    <3>2. PollsComeInTime'
      BY <1>1, <2>1, <2>4, <3>1 DEF PollsComeInTime, InTime, Asked
    <3> QED
      BY <2>2, <3>2
  <2> QED
    BY <2>1, <2>3, <2>4
<1>9. CASE Restart
  <2>1. /\ now' = now /\ pub' = pub /\ cycles' = cycles /\ late' = late /\ timer' = now
        /\ \/ cycles = <<>> /\ poller' = "wait"
           \/ cycles # <<>> /\ poller' = "loaded"
    BY <1>9 DEF Restart, upstream
  <2>2. PollFormed'
    BY <1>1, <2>1
  <2>3. PollsComeInTime'
    BY <1>0, <1>1, <2>1 DEF PollsComeInTime, InTime, Asked
  <2> QED
    BY <2>2, <2>3
<1>10. CASE \/ \E at \in sending : PurgeLands(at) \/ PurgeFails(at)
            \/ EdgeAsks \/ EdgeKeeps \/ StartPass \/ PassGoesOn \/ MarkPass
  BY <1>2, <1>10 DEF PurgeLands, PurgeFails, EdgeAsks, EdgeKeeps, StartPass, PassGoesOn, MarkPass,
                     upstream
<1>11. CASE UNCHANGED vars
  BY <1>2, <1>11 DEF vars, upstream
<1> QED
  BY <1>3, <1>4, <1>5, <1>6, <1>7, <1>8, <1>9, <1>10, <1>11 DEF Next

\* A publish that comes no earlier than the window opens is captured within one
\* closeInterval, and any within the idle interval, unless a poll fails, whatever the
\* publish cadence has been (cadence.go, PollDelay).
THEOREM Captured == Spec => []CapturedSoon
<1>1. PInv => CapturedSoon
  <2> SUFFICES ASSUME PInv, At # None, pub # At, ~late
               PROVE  now - pub <= IF pub >= NextAfter(At) - Close THEN Close ELSE Idle
    BY DEF CapturedSoon
  <2> USE Delays DEF PInv, PollFormed
  <2>1. cycles # <<>>
    BY DEF At
  <2>2. Expected \in Nat /\ Expected = NextAfter(At)
    BY <2>1, PollDelayIsShort DEF Expected
  <2>3. CASE poller \in {"captured", "published"}
    BY <2>2, <2>3 DEF PollsComeInTime
  <2>4. CASE poller \in {"wait", "loaded", "reloaded"}
    BY <2>1, <2>2, <2>4 DEF PollsComeInTime, InTime, Asked
  <2> QED
    BY <2>3, <2>4
<1> QED
  BY <1>1, InitPInv, StepPInv, PTL DEF Spec

-----------------------------------------------------------------------------
(* The edge. *)

ServeFormed ==
  /\ since \in Nat /\ since <= now
  /\ snap # None => snap \in [at : Nat, next : Nat]
  /\ edge # None => edge \in [at : Nat, next : Nat, until : Int]
  /\ fetching # None => fetching \in [at : Nat, next : Nat, age : Int, cut : BOOLEAN]
  /\ lastAt # None => lastAt \in Nat

\* What is served is the newest cycle, except between a capture and its publication;
\* and the purger is never ahead of it.
ServesTheNewest ==
  /\ poller = "wait" /\ snap # None => snap.at = At
  /\ poller \in {"published", "reloaded"} => snap.at = At /\ since = now
  /\ poller = "captured" /\ snap # None => snap.at # At
  /\ poller = "loaded" => snap = None
  /\ lastAt # None => cycles # <<>> /\ lastAt <= At
  /\ poller \in {"captured", "published"} => lastAt # At
  /\ poller \in {"loaded", "reloaded"} => lastAt = None

\* A copy of what was replaced is one that a purge has missed, or that a purge will
\* find: it was asked for, or will be, within the instant of the replacement.
Missed(at) ==
  \/ at \in unpurged
  \/ at \in sending /\ since = now
  \/ poller \in {"published", "reloaded"}
OldCopiesAreMissed ==
  snap # None =>
    /\ edge # None /\ edge.at # snap.at => Missed(snap.at)
    /\ fetching # None /\ fetching.at # snap.at =>
         since = now /\ (Missed(snap.at) \/ fetching.cut)

\* A copy lasts until a little before the next publish, or for the shortest max-age
\* from the last instant at which its snapshot was served.
Lasts(until, next, at) == until <= next - Margin \/ until <= at + MinAge
CopiesLast ==
  /\ edge # None => Lasts(edge.until, edge.next, now)
  /\ edge # None /\ snap # None /\ edge.at # snap.at => Lasts(edge.until, edge.next, since)
  /\ fetching # None => Lasts(now + fetching.age, fetching.next, now)

SInv == ServeFormed /\ ServesTheNewest /\ OldCopiesAreMissed /\ CopiesLast

\* A copy is good until a little before the next publish, or for the shortest max-age.
LEMMA CopyLasts ==
  ASSUME now \in Nat, NEW s \in [at : Nat, next : Nat]
  PROVE  MaxAgeOf(s) \in Int /\ Lasts(now + MaxAgeOf(s), s.next, now)
BY Delays DEF MaxAgeOf, Least, Most, Lasts

\* The invariant holds at the start, when nothing is served.
LEMMA InitSInv == Init => SInv
BY Delays DEF Init, SInv, ServeFormed, ServesTheNewest, OldCopiesAreMissed, CopiesLast

\* A step of the clock finds no request on its way, so that what is missed was missed by
\* a purge for good.
LEMMA TickSInv == PInv /\ SInv /\ Tick => SInv'
<1> SUFFICES ASSUME PInv, SInv, Tick
             PROVE  SInv'
  OBVIOUS
<1> USE Delays DEF PInv, SInv, PollFormed, ServeFormed
<1>1. /\ now' = now + 1 /\ poller = "wait" /\ sending = {} /\ fetching = None
      /\ cycles' = cycles /\ poller' = poller /\ snap' = snap /\ since' = since
      /\ lastAt' = lastAt /\ sending' = sending /\ unpurged' = unpurged
      /\ edge' = edge /\ fetching' = fetching
  BY DEF Tick, polling, serving, purging, cdn
<1>2. At' = At
  BY <1>1 DEF At
<1>3. ServeFormed'
  BY <1>1
<1>4. ServesTheNewest'
  BY <1>1, <1>2 DEF ServesTheNewest
<1>5. OldCopiesAreMissed'
  BY <1>1 DEF OldCopiesAreMissed, Missed
<1>6. CopiesLast'
  BY <1>1 DEF CopiesLast, Lasts
<1> QED
  BY <1>3, <1>4, <1>5, <1>6

\* A capture is of a publish later than what is served and than what was purged.
LEMMA PollSInv == PInv /\ SInv /\ Poll => SInv'
<1> SUFFICES ASSUME PInv, SInv, Poll
             PROVE  SInv'
  OBVIOUS
<1> USE Delays DEF PInv, SInv, PollFormed, ServeFormed
<1>1. /\ poller = "wait" /\ now' = now
      /\ snap' = snap /\ since' = since /\ lastAt' = lastAt
      /\ sending' = sending /\ unpurged' = unpurged /\ edge' = edge /\ fetching' = fetching
  BY DEF Poll, serving, purging, cdn
<1>2. CASE cycles' = cycles /\ poller' = poller
  <2>1. At' = At
    BY <1>2 DEF At
  <2> QED
    BY <1>1, <1>2, <2>1 DEF ServesTheNewest, OldCopiesAreMissed, Missed, CopiesLast, Lasts
<1>3. CASE pub # At /\ cycles' = Recent(Append(cycles, pub)) /\ poller' = "captured"
  <2>1. cycles' # <<>> /\ At' = pub
    BY <1>3, RecentKeepsTheLast DEF At
  <2>2. ServesTheNewest'
    BY <1>1, <1>3, <2>1 DEF ServesTheNewest
  <2>3. OldCopiesAreMissed'
    BY <1>1, <1>3 DEF OldCopiesAreMissed, Missed
  <2>4. CopiesLast' /\ ServeFormed'
    BY <1>1, <1>3 DEF CopiesLast, Lasts
  <2> QED
    BY <2>2, <2>3, <2>4
<1> QED
  BY <1>2, <1>3 DEF Poll

\* A publication replaces what was served at this very instant, and its purge is next.
LEMMA PublishSInv == PInv /\ SInv /\ Publish => SInv'
<1> SUFFICES ASSUME PInv, SInv, Publish
             PROVE  SInv'
  OBVIOUS
<1> USE Delays DEF PInv, SInv, PollFormed, ServeFormed
<1>1. /\ now' = now /\ cycles' = cycles /\ lastAt' = lastAt
      /\ sending' = sending /\ unpurged' = unpurged /\ edge' = edge /\ fetching' = fetching
      /\ snap' = [at |-> At, next |-> NextAfter(At)]
      /\ \/ poller = "captured" /\ poller' = "published"
         \/ poller = "loaded" /\ poller' = "reloaded"
  BY DEF Publish, purging, cdn
<1>2. since' = now
  BY <1>1 DEF Publish, ServesTheNewest
<1>3. At' = At /\ cycles # <<>> /\ At \in Nat /\ NextAfter(At) \in Nat
  BY <1>1, PollDelayIsShort DEF At, Expected
<1>4. snap' \in [at : Nat, next : Nat] /\ snap'.at = At
  BY <1>1, <1>3
<1>5. ServeFormed'
  BY <1>1, <1>2, <1>4
<1>6. ServesTheNewest'
  BY <1>1, <1>2, <1>3, <1>4 DEF ServesTheNewest
<1>7. OldCopiesAreMissed'
  BY <1>1, <1>2 DEF OldCopiesAreMissed, Missed
<1>8. CopiesLast'
  BY <1>1, <1>2 DEF CopiesLast, Lasts
<1> QED
  BY <1>5, <1>6, <1>7, <1>8

\* The purge is asked for, or the snapshot counts as missed: a purge of the same
\* snapshot cannot have been made before.
LEMMA AskPurgeSInv == PInv /\ SInv /\ AskPurge => SInv'
<1> SUFFICES ASSUME PInv, SInv, AskPurge
             PROVE  SInv'
  OBVIOUS
<1> USE Delays DEF PInv, SInv, PollFormed, ServeFormed
<1>1. /\ now' = now /\ cycles' = cycles /\ edge' = edge /\ fetching' = fetching
      /\ snap' = snap /\ since' = since
      /\ poller \in {"published", "reloaded"} /\ poller' = "wait"
  BY DEF AskPurge, serving, cdn
<1>2. At' = At /\ cycles # <<>> /\ At \in Nat /\ snap.at = At /\ since = now
  BY <1>1 DEF At, ServesTheNewest
<1>3. lastAt # snap.at
  BY <1>1, <1>2 DEF ServesTheNewest
<1>4. \/ unpurged' = unpurged \union {snap.at} /\ sending' = sending /\ lastAt' = lastAt
      \/ sending' = sending \union {snap.at} /\ unpurged' = unpurged /\ lastAt' = snap.at
  BY <1>3 DEF AskPurge
<1>5. ServeFormed'
  BY <1>1, <1>2, <1>4
<1>6. ServesTheNewest'
  BY <1>1, <1>2, <1>4 DEF ServesTheNewest
<1>7. OldCopiesAreMissed'
  BY <1>1, <1>2, <1>4 DEF OldCopiesAreMissed, Missed
<1>8. CopiesLast'
  BY <1>1 DEF CopiesLast, Lasts
<1> QED
  BY <1>5, <1>6, <1>7, <1>8

\* A purge takes the old copy, and marks the answer that will come after it; one that
\* fails leaves the snapshot missed.
LEMMA SendSInv ==
  ASSUME NEW at \in sending
  PROVE  SInv /\ (PurgeLands(at) \/ PurgeFails(at)) => SInv'
<1> SUFFICES ASSUME SInv, PurgeLands(at) \/ PurgeFails(at)
             PROVE  SInv'
  OBVIOUS
<1> USE Delays DEF SInv, ServeFormed
<1>1. /\ now' = now /\ cycles' = cycles /\ poller' = poller /\ lastAt' = lastAt
      /\ snap' = snap /\ since' = since /\ sending' = sending \ {at}
  BY DEF PurgeLands, PurgeFails, serving, polling
<1>2. At' = At
  BY <1>1 DEF At
<1>3. ServesTheNewest'
  BY <1>1, <1>2 DEF ServesTheNewest
<1>4. CASE PurgeLands(at)
  <2>1. edge' = None /\ unpurged' = unpurged
    BY <1>4 DEF PurgeLands
  <2>2. CASE fetching = None
    <3>1. fetching' = None
      BY <1>4, <2>2 DEF PurgeLands
    <3> QED
      BY <1>1, <1>3, <2>1, <3>1 DEF OldCopiesAreMissed, CopiesLast
  <2>3. CASE fetching # None
    <3>1. fetching' = [fetching EXCEPT !.cut = TRUE]
      BY <1>4, <2>3 DEF PurgeLands
    <3>2. /\ fetching' \in [at : Nat, next : Nat, age : Int, cut : BOOLEAN]
          /\ fetching'.at = fetching.at /\ fetching'.next = fetching.next
          /\ fetching'.age = fetching.age /\ fetching'.cut = TRUE
      BY <2>3, <3>1
    <3>3. ServeFormed'
      BY <1>1, <2>1, <3>2
    <3>4. OldCopiesAreMissed'
      BY <1>1, <2>1, <2>3, <3>2 DEF OldCopiesAreMissed
    <3>5. CopiesLast'
      BY <1>1, <2>1, <2>3, <3>2 DEF CopiesLast, Lasts
    <3> QED
      BY <1>3, <3>3, <3>4, <3>5
  <2> QED
    BY <2>2, <2>3
<1>5. CASE PurgeFails(at)
  <2>1. edge' = edge /\ fetching' = fetching /\ unpurged' = unpurged \union {at}
    BY <1>5 DEF PurgeFails, cdn
  <2>2. OldCopiesAreMissed'
    BY <1>1, <2>1 DEF OldCopiesAreMissed, Missed
  <2>3. ServeFormed' /\ CopiesLast'
    BY <1>1, <2>1 DEF CopiesLast, Lasts
  <2> QED
    BY <1>3, <2>2, <2>3
<1> QED
  BY <1>4, <1>5

\* The edge asks for what is served now.  An answer that comes after a replacement was
\* asked for at the same instant, and one that a purge overtook counts as missed.
LEMMA EdgeSInv == PInv /\ SInv /\ (EdgeAsks \/ EdgeKeeps) => SInv'
<1> SUFFICES ASSUME PInv, SInv, EdgeAsks \/ EdgeKeeps
             PROVE  SInv'
  OBVIOUS
<1> USE Delays DEF PInv, SInv, PollFormed, ServeFormed
<1>1. /\ now' = now /\ cycles' = cycles /\ poller' = poller /\ lastAt' = lastAt
      /\ snap' = snap /\ since' = since /\ sending' = sending
  BY DEF EdgeAsks, EdgeKeeps, serving, polling, purging
<1>2. At' = At
  BY <1>1 DEF At
<1>3. ServesTheNewest'
  BY <1>1, <1>2 DEF ServesTheNewest
<1>4. CASE EdgeAsks
  <2>1. /\ snap # None /\ edge' = edge /\ unpurged' = unpurged
        /\ fetching' = [at |-> snap.at, next |-> snap.next, age |-> MaxAgeOf(snap), cut |-> FALSE]
    BY <1>4 DEF EdgeAsks, purging
  <2>2. MaxAgeOf(snap) \in Int /\ Lasts(now + MaxAgeOf(snap), snap.next, now)
    BY <2>1, CopyLasts
  <2>3. /\ fetching' \in [at : Nat, next : Nat, age : Int, cut : BOOLEAN]
        /\ fetching'.at = snap.at /\ fetching'.next = snap.next
        /\ fetching'.age = MaxAgeOf(snap)
    BY <2>1, <2>2
  <2>4. ServeFormed'
    BY <1>1, <2>1, <2>3
  <2>5. OldCopiesAreMissed'
    BY <1>1, <2>1, <2>3 DEF OldCopiesAreMissed, Missed
  <2>6. CopiesLast'
    BY <1>1, <2>1, <2>2, <2>3 DEF CopiesLast, Lasts
  <2> QED
    BY <1>3, <2>4, <2>5, <2>6
<1>5. CASE EdgeKeeps
  <2>1. /\ fetching # None /\ fetching' = None
        /\ edge' = [at |-> fetching.at, next |-> fetching.next, until |-> now + fetching.age]
        /\ unpurged' = IF fetching.cut /\ snap # None THEN unpurged \union {snap.at}
                       ELSE unpurged
    BY <1>5 DEF EdgeKeeps
  <2>2. /\ edge' \in [at : Nat, next : Nat, until : Int]
        /\ edge'.at = fetching.at /\ edge'.next = fetching.next
        /\ edge'.until = now + fetching.age
    BY <2>1
  <2>3. ServeFormed'
    BY <1>1, <2>1, <2>2
  <2>4. OldCopiesAreMissed'
    BY <1>1, <2>1, <2>2 DEF OldCopiesAreMissed, Missed
  <2>5. CopiesLast'
    BY <1>1, <2>1, <2>2 DEF OldCopiesAreMissed, CopiesLast, Lasts
  <2> QED
    BY <1>3, <2>3, <2>4, <2>5
<1> QED
  BY <1>4, <1>5

\* A restart serves nothing until it publishes what the database has, and its purger
\* remembers nothing.
LEMMA RestartSInv == PInv /\ SInv /\ Restart => SInv'
<1> SUFFICES ASSUME PInv, SInv, Restart
             PROVE  SInv'
  OBVIOUS
<1> USE Delays DEF PInv, SInv, PollFormed, ServeFormed
<1>1. /\ now' = now /\ cycles' = cycles /\ since' = since /\ snap' = None /\ lastAt' = None
      /\ edge' = edge /\ fetching' = fetching /\ poller' \in {"wait", "loaded"}
  BY DEF Restart, cdn
<1> QED
  BY <1>1 DEF ServesTheNewest, OldCopiesAreMissed, CopiesLast, Lasts

\* Every step keeps it.
LEMMA StepSInv == PInv /\ SInv /\ [Next]_vars => SInv'
<1> SUFFICES ASSUME PInv, SInv, [Next]_vars
             PROVE  SInv'
  OBVIOUS
<1>1. CASE UNCHANGED <<now, cycles, poller, serving, purging, cdn>>
  <2>1. At' = At
    BY <1>1 DEF At
  <2> QED
    BY <1>1, <2>1 DEF serving, purging, cdn, SInv, ServeFormed, ServesTheNewest,
                      OldCopiesAreMissed, Missed, CopiesLast, Lasts
<1>2. CASE UpstreamPublishes \/ PollFails \/ StartPass \/ PassGoesOn \/ MarkPass
  BY <1>1, <1>2 DEF UpstreamPublishes, PollFails, StartPass, PassGoesOn, MarkPass, polling
<1>3. CASE UNCHANGED vars
  BY <1>1, <1>3 DEF vars, polling
<1> QED
  BY <1>2, <1>3, TickSInv, PollSInv, PublishSInv, AskPurgeSInv, SendSInv, EdgeSInv, RestartSInv
     DEF Next

\* What was replaced is served for no longer than the shortest max-age, unless it came
\* ahead of its estimate by more than the margin and no purge found the copy
\* (purge.go, and cacheControl of api/server.go).
THEOREM Fresh == Spec => []EdgeIsFresh
<1>1. PInv /\ SInv => EdgeIsFresh
  <2> SUFFICES ASSUME PInv, SInv, edge # None, snap # None, edge.at # snap.at,
                      edge.until > now, now >= since + MinAge
               PROVE  snap.at \in unpurged /\ since < edge.next - Margin
    BY Delays DEF EdgeIsFresh, PInv, PollFormed, SInv, ServeFormed
  <2> USE Delays DEF PInv, PollFormed, SInv, ServeFormed
  <2>1. edge.until <= edge.next - Margin
    BY DEF CopiesLast, Lasts
  <2>2. since # now
    OBVIOUS
  <2>3. snap.at \in unpurged
    BY <2>2 DEF OldCopiesAreMissed, Missed, ServesTheNewest
  <2> QED
    BY <2>1, <2>3
<1> QED
  BY <1>1, InitPInv, StepPInv, InitSInv, StepSInv, PTL DEF Spec
=============================================================================
