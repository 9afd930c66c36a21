------------------------------ MODULE Archive ------------------------------
(***************************************************************************)
(* The archive of verbatim feed snapshots and the three things that touch  *)
(* it: the archiver that polls upstream (internal/feed/archiver.go), the   *)
(* store that publishes a payload and its sidecar (archive.go, fetch.go),  *)
(* and the daily thinning (prune.go).  The archiver and the thinning are   *)
(* goroutines of one process: they interleave, and die together.           *)
(*                                                                         *)
(* A snapshot is two files under one name, the feed and the instant of the *)
(* publish: a payload, published with a link that fails if the name is     *)
(* taken, and a sidecar with its checksum.  A listing reads sidecars; a    *)
(* payload without one is invisible.  A body is the number of the publish  *)
(* it came with: equal numbers are equal checksums and equal validators.   *)
(***************************************************************************)
EXTENDS Naturals, Sequences, Functions

CONSTANTS
  Feeds,        \* the feeds in the order a pass asks for them
  Ahead,        \* how far ahead of the publish its Last-Modified may be dated
  Grace,        \* futureSkewGrace
  Day,          \* ticks in a UTC day
  Keep,         \* FullResolution: the age at which snapshots are thinned
  Waits,        \* the waits upstream may ask for
  NoHeader,     \* a Last-Modified that is missing or cannot be parsed
  Nothing,      \* no file, or no validator
  MaxNow,       \* bound: the clock
  Horizon,      \* bound: the latest instant a Last-Modified names
  MaxVersions,  \* bound: publishes of a feed
  MaxFaults     \* bound: crashes and failed operations

Kinds == Range(Feeds)
Bodies == 1..MaxVersions
Times == 0..Horizon
Slots == Kinds \X Times

ASSUME FeedsAssumption == Feeds \in Seq(Kinds) /\ Feeds # <<>> /\ IsInjective(Feeds)
ASSUME BoundsAssumption ==
  /\ {Grace, Day, Keep, MaxNow, Horizon, MaxVersions, MaxFaults} \subseteq Nat
  /\ Day > 0 /\ MaxVersions > 0 /\ MaxNow <= Horizon
ASSUME AheadAssumption == Ahead \subseteq Nat /\ \A a \in Ahead : MaxNow + a <= Horizon
ASSUME WaitsAssumption == Waits \subseteq 0..Keep
ASSUME NothingAssumption == NoHeader \notin Nat /\ Nothing \notin Nat

VARIABLES
  now,         \* the clock
  upstream,    \* [Kinds -> [body, stamp]]: what upstream serves
  payload,     \* [Slots -> body or Nothing]: the .txt.zst files
  sidecar,     \* [Slots -> body or Nothing]: the readable .json files
  held,        \* [Kinds -> body or Nothing]: the validators in memory
  saved,       \* [Kinds -> body or Nothing]: the validators in state.json
  archiver,    \* where the pass is: [at, feed, body, stamp]
  quietUntil,  \* upstream asked not to be polled before this
  prune,       \* where the thinning is: [at, feed, cutoff, todo]
  settled,     \* history: the slots that a finished thinning kept
  again,       \* history: downloads of a body that was already archived
  faults       \* bound: crashes and failures so far

files == <<payload, sidecar>>
validators == <<held, saved>>
history == <<settled, again>>
vars == <<now, upstream, files, validators, archiver, quietUntil, prune, history, faults>>

Resting == [at |-> "idle", feed |-> 1, body |-> Nothing, stamp |-> 0]
Waiting == [at |-> "idle", feed |-> 1, cutoff |-> 0, todo |-> {}]

Asked == Feeds[archiver.feed]
Slot == <<Asked, archiver.stamp>>
Thinned == Feeds[prune.feed]

(***************************************************************************)
(* Reading the archive.                                                    *)
(***************************************************************************)
Listed(k) == {t \in Times : sidecar[<<k, t>>] # Nothing}

\* What Open reads to the end: the payload is there and its checksum matches.
Readable(k, t) == sidecar[<<k, t>>] # Nothing /\ payload[<<k, t>>] = sidecar[<<k, t>>]

DayOf(t) == t \div Day

\* Mutant: the last snapshot of a day is the one that stays.
DoomedButTheLast(k, cutoff) ==
  {t \in Listed(k) : t < cutoff /\ \E s \in Listed(k) : t < s /\ s < cutoff /\ DayOf(s) = DayOf(t)}

\* The listed snapshots that a thinning removes: older than the cutoff, and not
\* the first of their day.
Doomed(k, cutoff) ==
  {t \in Listed(k) : t < cutoff /\ \E s \in Listed(k) : s < t /\ DayOf(s) = DayOf(t)}

(***************************************************************************)
(* Initially nothing is archived, and upstream serves a first publish.     *)
(***************************************************************************)
Init ==
  /\ now = 0
  /\ upstream \in [Kinds -> [body : {1}, stamp : Ahead \union {NoHeader}]]
  /\ payload = [s \in Slots |-> Nothing]
  /\ sidecar = [s \in Slots |-> Nothing]
  /\ held = [k \in Kinds |-> Nothing]
  /\ saved = [k \in Kinds |-> Nothing]
  /\ archiver = Resting
  /\ quietUntil = 0
  /\ prune = Waiting
  /\ settled = {}
  /\ again = [k \in Kinds |-> 0]
  /\ faults = 0

(***************************************************************************)
(* Upstream and the clock, outside the program.                            *)
(***************************************************************************)
\* How far the clock may go: upstream replaces what it serves before that is old
\* enough to be thinned (it publishes every hour, and thinning begins after months).
Within(t) ==
  t <= MaxNow /\ \A k \in Kinds : upstream[k].stamp # NoHeader => t <= upstream[k].stamp + Keep

\* A store is over within a tick: the client gives up after minutes.
Tick ==
  /\ Within(now + 1)
  /\ archiver.at \notin {"link", "describe"}
  /\ now' = now + 1
  /\ UNCHANGED <<upstream, files, validators, archiver, quietUntil, prune, history, faults>>

Replace(k, stamp) ==
  /\ upstream[k].body < MaxVersions
  /\ upstream' = [upstream EXCEPT ![k] = [body |-> @.body + 1, stamp |-> stamp]]
  /\ again' = [again EXCEPT ![k] = 0]
  /\ UNCHANGED <<now, files, validators, archiver, quietUntil, prune, settled, faults>>

\* A new file, dated when it is published, ahead of that, or not at all.
Publish(k) ==
  \E stamp \in {now + a : a \in Ahead} \union {NoHeader} : Replace(k, stamp)

\* Another body under the stamp of the one before.
Amend(k) == Replace(k, upstream[k].stamp)

(***************************************************************************)
(* A pass of the archiver: each feed in turn, then the validators.         *)
(***************************************************************************)
\* Mutant: the last feed is not recognised.
OnwardPastTheEnd ==
  archiver' = [Resting EXCEPT !.at = "ask", !.feed = archiver.feed + 1]

\* Where the pass goes when it is done with a feed.
Onward ==
  archiver' = IF archiver.feed < Len(Feeds)
                THEN [Resting EXCEPT !.at = "ask", !.feed = archiver.feed + 1]
                ELSE [Resting EXCEPT !.at = "save"]

\* One operation of the program fails.
Fault == faults < MaxFaults /\ faults' = faults + 1

\* The timer fires; quietUntil outranks every schedule.
Poll ==
  /\ archiver.at = "idle"
  /\ now >= quietUntil
  /\ archiver' = [Resting EXCEPT !.at = "ask"]
  /\ UNCHANGED <<now, upstream, files, validators, quietUntil, prune, history, faults>>

NotModified ==
  /\ archiver.at = "ask"
  /\ held[Asked] = upstream[Asked].body
  /\ Onward
  /\ UNCHANGED <<now, upstream, files, validators, quietUntil, prune, history, faults>>

\* No answer, an unexpected status, a body that breaks off or is too large.
FetchFails ==
  /\ archiver.at = "ask"
  /\ Fault
  /\ Onward
  /\ UNCHANGED <<now, upstream, files, validators, quietUntil, prune, history>>

\* 429 or 503.  The pass goes on to the next feed all the same.
Backoff ==
  /\ archiver.at = "ask"
  /\ Fault
  /\ \E wait \in Waits : Within(now + wait) /\ quietUntil' = now + wait
  /\ Onward
  /\ UNCHANGED <<now, upstream, files, validators, prune, history>>

\* Mutant: Last-Modified is believed whatever it says.
SnapshotTimeAsDated(stamp) == IF stamp = NoHeader THEN now ELSE stamp

\* The instant a publish is archived under.
SnapshotTime(stamp) ==
  IF stamp = NoHeader THEN now ELSE IF stamp > now + Grace THEN now ELSE stamp

\* Mutant: the validator is kept as soon as the body is there.
DownloadValidated ==
  /\ archiver.at = "ask"
  /\ held[Asked] # upstream[Asked].body
  /\ archiver' = [archiver EXCEPT !.at = "link",
                                  !.body = upstream[Asked].body,
                                  !.stamp = SnapshotTime(upstream[Asked].stamp)]
  /\ held' = [held EXCEPT ![Asked] = upstream[Asked].body]
  /\ UNCHANGED <<now, upstream, files, saved, quietUntil, prune, history, faults>>

Download ==
  /\ archiver.at = "ask"
  /\ held[Asked] # upstream[Asked].body
  /\ archiver' = [archiver EXCEPT !.at = "link",
                                  !.body = upstream[Asked].body,
                                  !.stamp = SnapshotTime(upstream[Asked].stamp)]
  /\ UNCHANGED <<now, upstream, files, validators, quietUntil, prune, history, faults>>

\* Mutant: the payload is renamed into place.
LinkByRename ==
  /\ archiver.at = "link"
  /\ payload' = [payload EXCEPT ![Slot] = archiver.body]
  /\ archiver' = [archiver EXCEPT !.at = "describe"]
  /\ UNCHANGED <<now, upstream, sidecar, validators, quietUntil, prune, history, faults>>

\* Mutant: a name that is taken counts as stored.
LinkOrExists ==
  /\ archiver.at = "link"
  /\ payload' = [payload EXCEPT ![Slot] = IF @ = Nothing THEN archiver.body ELSE @]
  /\ archiver' = [archiver EXCEPT !.at = "describe"]
  /\ UNCHANGED <<now, upstream, sidecar, validators, quietUntil, prune, history, faults>>

Link ==
  /\ archiver.at = "link"
  /\ payload[Slot] = Nothing
  /\ payload' = [payload EXCEPT ![Slot] = archiver.body]
  /\ archiver' = [archiver EXCEPT !.at = "describe"]
  /\ UNCHANGED <<now, upstream, sidecar, validators, quietUntil, prune, history, faults>>

\* The name is taken.  Whether its sidecar is unreadable, describes another body
\* or describes this very body, nothing is stored and no validator is kept.
Collides ==
  /\ archiver.at = "link"
  /\ payload[Slot] # Nothing
  /\ again' = IF sidecar[Slot] = archiver.body
                THEN [again EXCEPT ![Asked] = IF @ = 2 THEN 2 ELSE @ + 1] ELSE again
  /\ Onward
  /\ UNCHANGED <<now, upstream, files, validators, quietUntil, prune, settled, faults>>

\* The sidecar makes the snapshot visible; then the validator, in memory.
Describe ==
  /\ archiver.at = "describe"
  /\ sidecar' = [sidecar EXCEPT ![Slot] = archiver.body]
  /\ held' = [held EXCEPT ![Asked] = archiver.body]
  /\ Onward
  /\ UNCHANGED <<now, upstream, payload, saved, quietUntil, prune, history, faults>>

\* The sidecar cannot be written, and may be left torn.  The payload is taken back,
\* unless that fails too, which is ignored.
DescribeFails ==
  /\ archiver.at = "describe"
  /\ Fault
  /\ sidecar' = [sidecar EXCEPT ![Slot] = Nothing]
  /\ \E left \in {Nothing, archiver.body} :
       payload' = [payload EXCEPT ![Slot] = left]
  /\ Onward
  /\ UNCHANGED <<now, upstream, validators, quietUntil, prune, history>>

Save ==
  /\ archiver.at = "save"
  /\ \/ saved' = held /\ UNCHANGED faults
     \/ Fault /\ UNCHANGED saved
  /\ archiver' = Resting
  /\ UNCHANGED <<now, upstream, files, held, quietUntil, prune, history>>

(***************************************************************************)
(* The daily thinning: for each feed in turn, a listing, then each removal *)
(* in two steps, the payload first.                                        *)
(***************************************************************************)
StartPrune ==
  /\ prune.at = "idle"
  /\ now >= Keep
  /\ prune' = [at |-> "list", feed |-> 1, cutoff |-> now - Keep, todo |-> {}]
  /\ UNCHANGED <<now, upstream, files, validators, archiver, quietUntil, history, faults>>

List ==
  /\ prune.at = "list"
  /\ prune' = [prune EXCEPT !.at = "payload", !.todo = Doomed(Thinned, prune.cutoff)]
  /\ UNCHANGED <<now, upstream, files, validators, archiver, quietUntil, history, faults>>

\* Snapshots are listed, and removed, oldest first.
Oldest(t) == t \in prune.todo /\ \A s \in prune.todo : t <= s

\* Mutant: an error of the first removal is ignored.
RemovePayloadOrNot(t) ==
  /\ prune.at = "payload"
  /\ Oldest(t)
  /\ payload' \in {payload, [payload EXCEPT ![<<Thinned, t>>] = Nothing]}
  /\ prune' = [prune EXCEPT !.at = "sidecar"]
  /\ UNCHANGED <<now, upstream, sidecar, validators, archiver, quietUntil, history, faults>>

RemovePayload(t) ==
  /\ prune.at = "payload"
  /\ Oldest(t)
  /\ payload' = [payload EXCEPT ![<<Thinned, t>>] = Nothing]
  /\ prune' = [prune EXCEPT !.at = "sidecar"]
  /\ UNCHANGED <<now, upstream, sidecar, validators, archiver, quietUntil, history, faults>>

RemoveSidecar(t) ==
  /\ prune.at = "sidecar"
  /\ Oldest(t)
  /\ sidecar' = [sidecar EXCEPT ![<<Thinned, t>>] = Nothing]
  /\ prune' = [prune EXCEPT !.at = "payload", !.todo = @ \ {t}]
  /\ UNCHANGED <<now, upstream, payload, validators, archiver, quietUntil, history, faults>>

\* A removal fails: the thinning ends, with that snapshot half removed or not at all.
PruneFails ==
  /\ prune.at \in {"payload", "sidecar"}
  /\ prune.todo # {}
  /\ Fault
  /\ prune' = Waiting
  /\ UNCHANGED <<now, upstream, files, validators, archiver, quietUntil, history>>

\* The feed is thinned: what is left before the cutoff is to stay.
EndFeed ==
  /\ prune.at = "payload"
  /\ prune.todo = {}
  /\ settled' = settled \union
       {s \in Slots : s[1] = Thinned /\ s[2] < prune.cutoff /\ Readable(s[1], s[2])}
  /\ prune' = IF prune.feed < Len(Feeds)
                THEN [prune EXCEPT !.at = "list", !.feed = @ + 1] ELSE Waiting
  /\ UNCHANGED <<now, upstream, files, validators, archiver, quietUntil, again, faults>>

(***************************************************************************)
(* The process ends at any point, by a crash or by a deploy that cancels   *)
(* the pass before Save, and another one starts: the validators are those  *)
(* of state.json, or none if it is gone or unreadable, and quietUntil is   *)
(* forgotten.                                                              *)
(***************************************************************************)
Restart ==
  /\ Fault
  /\ \E file \in {saved, [k \in Kinds |-> Nothing]} : held' = file /\ saved' = file
  /\ archiver' = Resting
  /\ quietUntil' = 0
  /\ prune' = Waiting
  /\ again' = [k \in Kinds |-> 0]
  /\ UNCHANGED <<now, upstream, files, settled>>

Pass == \/ Poll \/ NotModified \/ Download \/ Link \/ Collides \/ Describe \/ Save
Thin == StartPrune \/ List \/ EndFeed \/ \E t \in Times : RemovePayload(t) \/ RemoveSidecar(t)

Next ==
  \/ Tick
  \/ \E k \in Kinds : Publish(k) \/ Amend(k)
  \/ Pass \/ FetchFails \/ Backoff \/ DescribeFails
  \/ Thin \/ PruneFails
  \/ Restart

Spec == Init /\ [][Next]_vars

\* The clock, the poller and the daily maintenance keep running; upstream need not
\* publish and nothing needs to fail.
FairSpec == Spec /\ WF_vars(Tick) /\ WF_vars(Pass) /\ WF_vars(Thin)

(***************************************************************************)
(* Correctness.                                                            *)
(***************************************************************************)
TypeOK ==
  /\ now \in 0..MaxNow /\ quietUntil \in 0..MaxNow /\ faults \in 0..MaxFaults
  /\ upstream \in [Kinds -> [body : Bodies, stamp : Times \union {NoHeader}]]
  /\ payload \in [Slots -> Bodies \union {Nothing}]
  /\ sidecar \in [Slots -> Bodies \union {Nothing}]
  /\ held \in [Kinds -> Bodies \union {Nothing}]
  /\ saved \in [Kinds -> Bodies \union {Nothing}]
  /\ archiver \in [at : {"idle", "ask", "link", "describe", "save"},
                   feed : DOMAIN Feeds, body : Bodies \union {Nothing}, stamp : Times]
  /\ prune \in [at : {"idle", "list", "payload", "sidecar"}, feed : DOMAIN Feeds,
                cutoff : Times, todo : SUBSET Times]
  /\ settled \subseteq Slots /\ again \in [Kinds -> 0..2]

\* A payload is never replaced by another one: what is archived under an instant stays
\* as upstream served it until it is thinned, whoever stores, amends or restarts
\* (the link of Store, archive.go:66-70 and 111).
SnapshotsAreKept ==
  [][\A s \in Slots : payload[s] # Nothing => payload'[s] \in {payload[s], Nothing}]_vars

\* A sidecar never describes another payload than the one beside it: a listed snapshot
\* whose payload is there passes the checksum of Open (archive.go:115-127 and 290), also
\* when upstream puts another body under an archived instant.
ListedReadBack ==
  \A s \in Slots : sidecar[s] # Nothing /\ payload[s] # Nothing => payload[s] = sidecar[s]

\* A publish dated in the future keeps later publishes from looking new for no longer
\* than the grace: of two archived publishes the earlier one is stamped at most Grace
\* after the later one (snapshotTime, fetch.go:202-223).
ShadowIsShort ==
  \A k \in Kinds : \A s, t \in Listed(k) : sidecar[<<k, s>>] < sidecar[<<k, t>>] => s <= t + Grace

\* A day that was thinned stays readable at or before the snapshot it was thinned to,
\* through every later thinning, interrupted or not, and every late arrival
\* (Prune, prune.go:58-73).
ThinnedDayStays ==
  \A s \in settled : \E t \in 0..s[2] : DayOf(t) = DayOf(s[2]) /\ Readable(s[1], t)

\* The name under which the present publish would be stored is taken: by a payload that
\* lost its sidecar, or by another body.
Blocked(k) ==
  LET t == SnapshotTime(upstream[k].stamp)
  IN  payload[<<k, t>>] # Nothing /\ sidecar[<<k, t>>] # upstream[k].body

\* Upstream overwrites its file and nothing can backfill it: a publish that stays up is
\* archived in the end, after failed downloads, failed sidecars, requests to back off
\* and restarts, unless its name is taken (Once and fetch, archiver.go:58-114).
PublishIsArchived ==
  \A k \in Kinds, v \in Bodies :
    <>[](upstream[k].body = v /\ ~Blocked(k)) =>
      <>(\E t \in Times : Readable(k, t) /\ sidecar[<<k, t>>] = v)

\* Both files of a snapshot that a thinning set out to remove are gone in the end,
\* wherever it was interrupted (removeSnapshot, prune.go:85-107).
ThinnedIsReclaimed ==
  \A s \in Slots :
    (prune.at \in {"payload", "sidecar"} /\ s[1] = Thinned /\ s[2] \in prune.todo)
      ~> (payload[s] = Nothing /\ sidecar[s] = Nothing)

\* Losing the validators costs one redundant fetch per feed (state.go:11-13): a body
\* that is archived is not downloaded a second time over.  The code does so at every
\* poll (README, Disagreements).
OneRedundantFetch == \A k \in Kinds : again[k] <= 1

\* A request to back off outranks every other consideration (archiver.go:171-173): a
\* second one, for the other feed of the same pass, does not cut the first one short.
\* In the code it does, with both feeds (README, Disagreements).
BackoffIsKept == [][Backoff => quietUntil' >= quietUntil]_vars
=============================================================================
