------------------------------- MODULE Daemon -------------------------------
(***************************************************************************)
(* The background loops of the daemon and what they keep fresh: the poller *)
(* that follows the predicted publish (main.go, archiver.go, cadence.go),  *)
(* the publication of a snapshot, the purge of the CDN and the expiry that *)
(* stands behind it (purge.go, api/server.go), and the daily maintenance   *)
(* (main.go).  Ingest and Archive say what a pass and a fetch do; here     *)
(* they either work or do not, and what matters is when.                   *)
(*                                                                         *)
(* The clock counts in ticks.  What falls due at an instant is done before *)
(* the clock moves on, and so are requests on their way: a tick is longer  *)
(* than the ten seconds a purge may take.                                  *)
(***************************************************************************)
EXTENDS Naturals, Integers, Sequences, SequencesExt, FiniteSets

CONSTANTS
  None,
  Gaps,           \* upstream: how long after a publish the next may come
  Nominal,        \* nominalInterval
  MinInterval, MaxInterval,
  Samples,        \* cadenceSamples
  Close,          \* closeInterval
  Idle,           \* -poll
  Margin,         \* publishMargin
  MinAge, MaxAge, \* bounds of max-age
  PurgeFloor,     \* purgeMinInterval
  Delay, Every, Retry,    \* maintenanceDelay, maintenanceEvery, maintenanceRetry
  MaxNow,         \* bound: the clock
  MaxFaults       \* bound: restarts, and calls that fail

ASSUME DaemonAssumption ==
  /\ Gaps \subseteq Nat \ {0} /\ Gaps # {}
  /\ {Nominal, MinInterval, MaxInterval, Samples, Close, Idle, Margin, MinAge, MaxAge,
      PurgeFloor, Delay, Every, Retry} \subseteq Nat \ {0}
  /\ Close <= Idle /\ MinAge <= MaxAge /\ MinInterval <= Nominal /\ Nominal <= MaxInterval
  /\ MaxNow \in Nat /\ MaxFaults \in Nat
  /\ None \notin Nat

VARIABLES
  now,
  pub, nextPub,   \* upstream: its latest publish, and when the next one comes
  cycles,         \* the newest cycles in the database, oldest first
  poller,         \* "wait"; "captured", "published"; "loaded", "reloaded" at a start
  timer,          \* when the next poll is
  snap,           \* Server.snap: [at, next], or None
  since,          \* history: when the snapshot was first served
  lastAt, lastRun,    \* purger
  sending,        \* the snapshots whose purge is on its way
  unpurged,       \* history: snapshots of which no purge took the old copies
  edge,           \* the CDN's copy: [at, next, until], or None
  fetching,       \* the edge's request: [at, next, age, cut], or None
  stage,          \* maintain: "wait", "compact", "prune", "mark"
  due,            \* when the next pass is
  marker,         \* last_maintenance_at, or None
  done, failed, upSince,  \* history: last full pass, last failure, last start
  unmarked,       \* history: a pass was not recorded, or its record not read
  late,           \* history: polls failed since the last capture
  faults

upstream == <<pub, nextPub>>
polling == <<cycles, poller, timer, late>>
serving == <<snap, since>>
purging == <<lastAt, lastRun, sending, unpurged>>
cdn == <<edge, fetching>>
maintenance == <<stage, due, marker, done, failed, unmarked>>
vars == <<now, upstream, polling, serving, purging, cdn, maintenance, upSince, faults>>

Fault == faults < MaxFaults /\ faults' = faults + 1
Least(a, b) == IF a <= b THEN a ELSE b
Most(a, b) == IF a >= b THEN a ELSE b

(***************************************************************************)
(* Cadence.                                                                *)
(***************************************************************************)

\* RecentCycles, of Samples + 1
Recent(c) == IF Len(c) > Samples + 1 THEN Tail(c) ELSE c

\* Observe: the median of the intervals that can be one, the upper of the two in
\* the middle
Interval(i) == cycles[i + 1] - cycles[i]
Plausible == {i \in 1..(Len(cycles) - 1) : Interval(i) \in MinInterval..MaxInterval}
OverHalf(v) == 2 * Cardinality({i \in Plausible : Interval(i) <= v}) > Cardinality(Plausible)
Estimate ==
  IF Plausible = {} THEN Nominal
  ELSE CHOOSE v \in MinInterval..MaxInterval :
         OverHalf(v) /\ \A u \in MinInterval..MaxInterval : OverHalf(u) => v <= u

At == IF cycles = <<>> THEN None ELSE Last(cycles)
NextAfter(at) == at + Estimate

\* mutant: the window is left as soon as the publish is due
DelayUntilDue ==
  IF At = None THEN Idle
  ELSE LET untilWindow == NextAfter(At) - Close - now
       IN IF untilWindow <= 0 /\ now <= NextAfter(At) THEN Close
          ELSE IF untilWindow > 0 THEN Least(untilWindow, Idle) ELSE Idle

\* PollDelay: slow while nothing is due, fast from a little before it is
PollDelay ==
  IF At = None THEN Idle
  ELSE LET untilWindow == NextAfter(At) - Close - now
       IN IF untilWindow <= 0 THEN Close ELSE Least(untilWindow, Idle)

(***************************************************************************)
(* Upstream, and the clock.                                                *)
(***************************************************************************)
UpstreamPublishes ==
  /\ now = nextPub
  /\ pub' = now
  /\ \E g \in Gaps : nextPub' = now + g
  /\ UNCHANGED <<now, polling, serving, purging, cdn, maintenance, upSince, faults>>

Tick ==
  /\ now < MaxNow /\ now < nextPub
  /\ poller = "wait" /\ now < timer
  /\ sending = {} /\ fetching = None
  /\ stage = "wait" /\ now < due
  /\ now' = now + 1
  /\ UNCHANGED <<upstream, polling, serving, purging, cdn, maintenance, upSince, faults>>

(***************************************************************************)
(* The poller: a new publish is captured and ingested, then served, then   *)
(* the purge is asked for.                                                 *)
(***************************************************************************)
Poll ==
  /\ poller = "wait" /\ now = timer
  /\ IF pub # At
     THEN /\ cycles' = Recent(Append(cycles, pub))
          /\ poller' = "captured" /\ late' = FALSE
          /\ UNCHANGED timer
     ELSE /\ timer' = now + PollDelay
          /\ UNCHANGED <<cycles, poller, late>>
  /\ UNCHANGED <<now, upstream, serving, purging, cdn, maintenance, upSince, faults>>

\* nothing was captured, or it could not be ingested; or upstream asked for quiet
PollFails ==
  /\ poller = "wait" /\ now = timer
  /\ Fault
  /\ late' = TRUE
  /\ timer' \in {now + PollDelay, now + Idle}
  /\ UNCHANGED <<now, upstream, cycles, poller, serving, purging, cdn, maintenance, upSince>>

\* publish
Publish ==
  /\ poller \in {"captured", "loaded"}
  /\ poller' = IF poller = "captured" THEN "published" ELSE "reloaded"
  /\ snap' = [at |-> At, next |-> NextAfter(At)]
  /\ since' = IF snap # None /\ snap.at = At THEN since ELSE now
  /\ UNCHANGED <<now, upstream, cycles, timer, late, purging, cdn, maintenance, upSince,
                 faults>>

\* Purge, whose request runs on a goroutine of its own; then the next poll is set
AskPurge ==
  /\ poller \in {"published", "reloaded"}
  /\ poller' = "wait"
  /\ timer' = IF poller = "published" THEN now + PollDelay ELSE timer
  /\ IF (lastAt # None /\ snap.at <= lastAt) \/ (lastRun # None /\ now - lastRun < PurgeFloor)
     THEN /\ unpurged' = (IF lastAt = snap.at THEN unpurged ELSE unpurged \union {snap.at})
          /\ UNCHANGED <<lastAt, lastRun, sending>>
     ELSE /\ lastAt' = snap.at /\ lastRun' = now
          /\ sending' = sending \union {snap.at}
          /\ UNCHANGED unpurged
  /\ UNCHANGED <<now, upstream, cycles, late, serving, cdn, maintenance, upSince, faults>>

\* send
PurgeLands(at) ==
  /\ at \in sending
  /\ sending' = sending \ {at}
  /\ edge' = None
  /\ fetching' = IF fetching = None THEN None ELSE [fetching EXCEPT !.cut = TRUE]
  /\ UNCHANGED <<now, upstream, polling, serving, lastAt, lastRun, unpurged, maintenance,
                 upSince, faults>>

PurgeFails(at) ==
  /\ at \in sending
  /\ Fault
  /\ sending' = sending \ {at}
  /\ unpurged' = unpurged \union {at}
  /\ UNCHANGED <<now, upstream, polling, serving, lastAt, lastRun, cdn, maintenance, upSince>>

(***************************************************************************)
(* The edge keeps an answer for as long as cacheControl says.              *)
(***************************************************************************)

\* mutant: an answer is good for a fixed time
FixedAge(s) == MaxAge

\* cacheControl
MaxAgeOf(s) == Least(Most(s.next - now - Margin, MinAge), MaxAge)

EdgeAsks ==
  /\ fetching = None /\ snap # None
  /\ edge # None => now >= edge.until
  /\ fetching' = [at |-> snap.at, next |-> snap.next, age |-> MaxAgeOf(snap), cut |-> FALSE]
  /\ UNCHANGED <<now, upstream, polling, serving, purging, edge, maintenance, upSince, faults>>

\* an answer that was under way when a purge landed is kept all the same
EdgeKeeps ==
  /\ fetching # None
  /\ edge' = [at |-> fetching.at, next |-> fetching.next, until |-> now + fetching.age]
  /\ fetching' = None
  /\ unpurged' = (IF fetching.cut /\ snap # None THEN unpurged \union {snap.at} ELSE unpurged)
  /\ UNCHANGED <<now, upstream, polling, serving, lastAt, lastRun, sending, maintenance,
                 upSince, faults>>

(***************************************************************************)
(* Maintenance.                                                            *)
(***************************************************************************)

\* mutant: a ticker of a day, started anew with the process
DueInADay(last) == now + Every

\* nextDue
NextDue(last) == IF last = None THEN now + Delay ELSE Most(last + Every, now + Delay)

StartPass ==
  /\ stage = "wait" /\ now = due
  /\ stage' = "compact"
  /\ UNCHANGED <<now, upstream, polling, serving, purging, cdn, due, marker, done, failed,
                 unmarked, upSince, faults>>

\* compaction, then thinning, each of which may fail and have the pass tried again
PassGoesOn ==
  /\ stage \in {"compact", "prune"}
  /\ \/ /\ stage' = IF stage = "compact" THEN "prune" ELSE "mark"
        /\ done' = (IF stage = "prune" THEN now ELSE done)
        /\ UNCHANGED <<due, failed, faults>>
     \/ /\ Fault
        /\ stage' = "wait" /\ due' = now + Retry
        /\ failed' = now
        /\ UNCHANGED done
  /\ UNCHANGED <<now, upstream, polling, serving, purging, cdn, marker, unmarked, upSince>>

\* SetMeta, whose failure is only logged
MarkPass ==
  /\ stage = "mark"
  /\ stage' = "wait" /\ due' = now + Every
  /\ \/ marker' = now /\ unmarked' = FALSE /\ UNCHANGED faults
     \/ Fault /\ unmarked' = TRUE /\ UNCHANGED marker
  /\ UNCHANGED <<now, upstream, polling, serving, purging, cdn, done, failed, upSince>>

(***************************************************************************)
(* A restart.  The initial ingest publishes what the database has, and the *)
(* poller begins with a poll; the marker may not be readable.              *)
(***************************************************************************)
Restart ==
  /\ Fault
  /\ poller' = (IF cycles = <<>> THEN "wait" ELSE "loaded")
  /\ timer' = now
  /\ snap' = None
  /\ lastAt' = None /\ lastRun' = None /\ sending' = {}
  /\ unpurged' = unpurged \union sending
  /\ stage' = "wait"
  /\ \E read \in {marker, None} :
       /\ due' = NextDue(read)
       /\ unmarked' = (unmarked \/ stage = "mark" \/ read # marker)
  /\ upSince' = now
  /\ UNCHANGED <<now, upstream, cycles, late, since, cdn, marker, done, failed>>

Init ==
  /\ now = 0 /\ pub = 0 /\ nextPub \in Gaps
  /\ cycles = <<>> /\ poller = "wait" /\ timer = 0 /\ late = FALSE
  /\ snap = None /\ since = 0
  /\ lastAt = None /\ lastRun = None /\ sending = {} /\ unpurged = {}
  /\ edge = None /\ fetching = None
  /\ stage = "wait" /\ due = Delay /\ marker = None
  /\ done = 0 /\ failed = None /\ unmarked = TRUE /\ upSince = 0
  /\ faults = 0

Next ==
  \/ UpstreamPublishes \/ Tick \/ Poll \/ PollFails \/ Publish \/ AskPurge
  \/ \E at \in sending : PurgeLands(at) \/ PurgeFails(at)
  \/ EdgeAsks \/ EdgeKeeps \/ StartPass \/ PassGoesOn \/ MarkPass \/ Restart

Spec == Init /\ [][Next]_vars

(***************************************************************************)
(* Properties.                                                             *)
(***************************************************************************)

\* A publish that comes no earlier than the window opens waits for at most one
\* closeInterval, and no publish waits longer than the idle interval, unless a
\* poll failed: PollDelay, "capturing a publish within one closeInterval of it
\* appearing".
CapturedSoon ==
  At # None /\ pub # At /\ ~late =>
    now - pub <= IF pub >= NextAfter(At) - Close THEN Close ELSE Idle

\* The edge serves what was replaced for no longer than the shortest max-age,
\* unless the publish was ahead of its estimate by more than the margin and
\* its purge was skipped, failed or raced with a request: "a purge that never
\* fires costs freshness measured in the tens of seconds and nothing else".
EdgeIsFresh ==
  edge # None /\ snap # None /\ edge.at # snap.at /\ edge.until > now =>
    \/ now < since + MinAge
    \/ snap.at \in unpurged /\ since < edge.next - Margin

\* A day after the last full pass the next one is under way, or the process is
\* younger than the delay, or a pass has just failed; and unless a record was
\* lost, no pass begins sooner (nextDue, maintain).
MaintenanceIsTimely ==
  /\ stage = "wait" /\ now > done + Every =>
       \/ now <= upSince + Delay
       \/ failed # None /\ now <= failed + Retry
  /\ stage = "compact" => now >= upSince + Delay /\ (unmarked \/ now >= done + Every)
=============================================================================
