---------------------------- MODULE AlertsProofs ----------------------------
(***************************************************************************)
(* The promises of the alert rules for any alerts, readings and number of  *)
(* faults.                                                                 *)
(***************************************************************************)
EXTENDS Alerts, TLAPS

-----------------------------------------------------------------------------
(* The inductive invariant. *)

\* The alerts that are stored, announced, or in the watcher's list.
Live == stored \union adding \union run.todo

\* Those, and what a crash would bring back.
Kept == Live \union {a \in Alerts : disk[a] # Nothing}

\* An id is given out once.
OnlyUsedAreKept == Kept \subseteq used

\* What an alert of type t that has seen s will not say again, given the highest
\* milestone it has told and whether its condition was off since it spoke.
Knows(t, s, high, off) ==
  /\ t = "milestone" => high <= s.level
  /\ t = "daily" => s.today \/ off
  /\ t \in {"rank", "idle", "resumed"} /\ s.armed => off

\* What it has counted, it has failed since its last message.
Counts(al, n) == al.failures <= n \/ n = 3

\* The memory tells what was said, unless a crash took it away.
MemoryKnows ==
  \A a \in Live : ~excused[a] =>
    Knows(type[a], obj[a].seen, top[a], cleared[a]) /\ Counts(obj[a], row[a])

\* So does the file, unless something arrived since it was written.
DiskKnows ==
  \A a \in Alerts : disk[a] # Nothing /\ ~excused[a] /\ ~unsaved[a] =>
    Knows(type[a], disk[a].seen, top[a], cleared[a]) /\ Counts(disk[a], row[a])

\* A condition that is off in the latest snapshot counts as off since the alert spoke.
CurrentIsCleared == \A a \in Kept : Off(type[a], world) => cleared[a]

\* An answer in the cache is that of the latest snapshot, until another comes.
CacheIsCurrent == cache # Nothing /\ ~cacheOld => cache = world

\* The answer that a pass will have, or has, is of a snapshot that was not replaced
\* before the last message of an alert it has still to evaluate.
ReadingIsRecent ==
  /\ run.at # "pass" => run.reading = Nothing
  /\ \A a \in run.todo :
       /\ run.at \in {"listed", "pass"} /\ Off(type[a], cache) => cleared[a]
       /\ Off(type[a], run.reading) => cleared[a]

IInv ==
  /\ TypeOK /\ OnlyUsedAreKept /\ MemoryKnows /\ DiskKnows
  /\ CurrentIsCleared /\ CacheIsCurrent /\ ReadingIsRecent

-----------------------------------------------------------------------------
(* The rules. *)

\* What is assumed of the constants.
LEMMA Bounds ==
  /\ IdleHours \in Nat /\ IdleHours >= 1 /\ DayHours \in Nat /\ DayHours >= 1
  /\ MaxLevel \in Nat /\ MaxFaults \in Nat /\ Nothing \notin Readings
  /\ \A e \in Readings : /\ e.rank \in {"none", "in", "out"}
                          /\ e.level \in 0..MaxLevel /\ e.producing \in BOOLEAN
BY AlertsAssumption

\* The rules keep what an alert has seen in form.
LEMMA RulesTyped ==
  ASSUME NEW t \in Types, NEW s \in Seens, NEW e \in Readings
  PROVE  Seen(t, s, e) \in Seens /\ Seeded(t, e) \in Seens
<1> USE Bounds DEF Seens
<1>1. Seeded(t, e) \in Seens
  <2>1. Seeded(t, e).armed \in BOOLEAN
    BY DEF Seeded, Types
  <2>2. Seeded(t, e).level \in 0..MaxLevel
    BY DEF Seeded
  <2>3. Seeded(t, e).producing \in BOOLEAN
    BY DEF Seeded
  <2>4. /\ Seeded(t, e).quiet \in 0..IdleHours \union {Nothing}
        /\ Seeded(t, e).today \in BOOLEAN
    BY DEF Seeded
  <2> QED
    BY <2>1, <2>2, <2>3, <2>4 DEF Seeded
<1>2. Quiet(s) \in 0..IdleHours
  BY DEF Quiet
<1>3. Seen(t, s, e) \in Seens
  BY <1>2 DEF Seen, Types
<1> QED
  BY <1>1, <1>3

\* So does the hour.
LEMMA AgedTyped ==
  ASSUME NEW s \in Seens
  PROVE  Aged(s) \in Seens
<1> USE Bounds DEF Seens
<1> DEFINE q == IF s.quiet \in 0..(IdleHours - 1) THEN s.quiet + 1 ELSE s.quiet
           d == s.today /\ hour' # 0
<1>1. Aged(s) = [s EXCEPT !.quiet = q, !.today = d]
  BY DEF Aged
<1>2. q \in 0..IdleHours \union {Nothing} /\ d \in BOOLEAN
  OBVIOUS
<1> HIDE DEF q, d
<1> QED
  BY <1>1, <1>2

\* An alert that speaks has not told that milestone, or its condition was off.
LEMMA FiresAfterOff ==
  ASSUME NEW t \in Types, NEW s \in Seens, NEW e \in Readings, NEW high \in 0..MaxLevel,
         NEW off \in BOOLEAN, Knows(t, s, high, off), Fires(t, s, e)
  PROVE  /\ t = "milestone" => e.level > high
         /\ t # "milestone" => off
<1> USE Bounds DEF Seens, Knows, Fires
<1>1. CASE t = "milestone"
  BY <1>1
<1>2. CASE t = "rank"
  BY <1>2
<1>3. CASE t = "idle"
  BY <1>3
<1>4. CASE t = "resumed"
  BY <1>4
<1>5. CASE t = "daily"
  BY <1>5
<1> QED
  BY <1>1, <1>2, <1>3, <1>4, <1>5 DEF Types

\* Once it has spoken it does not speak again of the same.
LEMMA SpokenKnows ==
  ASSUME NEW t \in Types, NEW s \in Seens, NEW e \in Readings, NEW high, NEW off \in BOOLEAN,
         Fires(t, s, e)
  PROVE  Knows(t, Seen(t, s, e), IF t = "milestone" THEN e.level ELSE high, off)
<1> USE Bounds DEF Seens, Knows, Fires, Seen
<1>1. CASE t = "milestone"
  BY <1>1
<1>2. CASE t = "rank"
  BY <1>2
<1>3. CASE t = "idle"
  BY <1>3
<1>4. CASE t = "resumed"
  BY <1>4
<1>5. CASE t = "daily"
  BY <1>5
<1> QED
  BY <1>1, <1>2, <1>3, <1>4, <1>5 DEF Types

\* Whatever it reads, silent or not, it is armed only by a condition that is off.
LEMMA SeenKnows ==
  ASSUME NEW t \in Types, NEW s \in Seens, NEW e \in Readings, NEW high \in 0..MaxLevel,
         NEW off \in BOOLEAN, Knows(t, s, high, off), Off(t, e) => off
  PROVE  Knows(t, Seen(t, s, e), high, off)
BY Bounds DEF Types, Seens, Knows, Fires, Seen, Off

-----------------------------------------------------------------------------
(* What the steps share. *)

\* Written whole, the file tells what the memory tells.
LEMMA SavedTellsMemory ==
  ASSUME Saved, MemoryKnows', stored' \subseteq Alerts
  PROVE  DiskKnows' /\ \A a \in Alerts : disk'[a] # Nothing => a \in stored'
<1>1. \A a \in Alerts : /\ disk'[a] = IF a \in stored' THEN obj'[a] ELSE Nothing
                        /\ ~unsaved'[a]
  BY DEF Saved
<1>2. ASSUME NEW a \in Alerts, disk'[a] # Nothing
      PROVE  a \in stored' /\ a \in Live' /\ disk'[a] = obj'[a]
  BY <1>1, <1>2 DEF Live
<1> QED
  BY <1>2 DEF DiskKnows, MemoryKnows

\* A write that works, or none, keeps the file in form.
LEMMA SavedTyped ==
  ASSUME Saved \/ NotSaved, TypeOK, stored' \subseteq Alerts,
         obj' \in [Alerts -> AlertRecords \union {Nothing}]
  PROVE  /\ disk' \in [Alerts -> AlertRecords \union {Nothing}]
         /\ unsaved' \in [Alerts -> BOOLEAN]
BY DEF TypeOK, Saved, NotSaved

\* A delivery keeps all in form, whatever the channel answers.
LEMMA DeliverTyped ==
  ASSUME TypeOK, NEW a \in Alerts, NEW al \in AlertRecords, NEW how \in Answers,
         Deliver(a, al, how)
  PROVE  /\ obj' \in [Alerts -> AlertRecords \union {Nothing}]
         /\ obj'[a] \in AlertRecords /\ obj'[a].seen = al.seen
         /\ obj'[a].failures = IF how = "ok" THEN 0 ELSE al.failures + 1
         /\ \A b \in Alerts : b # a => obj'[b] = obj[b] /\ row'[b] = row[b]
         /\ row' \in [Alerts -> 0..3]
         /\ row'[a] = IF how = "ok" THEN 0 ELSE IF row[a] = 3 THEN 3 ELSE row[a] + 1
         /\ disk' \in [Alerts -> AlertRecords \union {Nothing}]
         /\ stored' \subseteq stored /\ struck' \subseteq Alerts
         /\ unsaved' \in [Alerts -> BOOLEAN] /\ faults' \in 0..MaxFaults
<1> USE DEF TypeOK
<1>1. /\ Delivered(al, how) \in AlertRecords /\ Delivered(al, how).seen = al.seen
      /\ Delivered(al, how).failures = IF how = "ok" THEN 0 ELSE al.failures + 1
  BY DEF Delivered, AlertRecords
<1>2. /\ obj' = [obj EXCEPT ![a] = Delivered(al, how)]
      /\ row' = [row EXCEPT ![a] = IF how = "ok" THEN 0 ELSE IF row[a] = 3 THEN 3 ELSE row[a] + 1]
  BY DEF Deliver
<1>3. obj' \in [Alerts -> AlertRecords \union {Nothing}] /\ obj'[a] = Delivered(al, how)
  BY <1>1, <1>2
<1>4. row' \in [Alerts -> 0..3]
  BY <1>2
<1>5. faults' \in 0..MaxFaults
  BY Bounds DEF Deliver
<1>6. stored' \subseteq stored /\ struck' \subseteq Alerts
  BY DEF Deliver
<1>7. /\ disk' \in [Alerts -> AlertRecords \union {Nothing}]
      /\ unsaved' \in [Alerts -> BOOLEAN]
  <2>1. CASE Saved \/ NotSaved
    BY <1>3, <1>6, <2>1, SavedTyped
  <2>2. CASE disk' = disk /\ unsaved' = [unsaved EXCEPT ![a] = unsaved[a] \/ how = "ok"]
    BY <2>2
  <2> QED
    BY <2>1, <2>2 DEF Deliver
<1> QED
  BY <1>1, <1>2, <1>3, <1>4, <1>5, <1>6, <1>7

\* A delivery by an alert that knows what it has told keeps all of them so.
LEMMA DeliverKnows ==
  ASSUME IInv, NEW a \in Live, NEW al \in AlertRecords, NEW how \in Answers, Deliver(a, al, how),
         al.failures = obj[a].failures,
         UNCHANGED <<type, excused, adding>>, run'.todo \subseteq run.todo,
         \A b \in Alerts : b # a => top'[b] = top[b] /\ cleared'[b] = cleared[b],
         how # "ok" => top'[a] = top[a] /\ cleared'[a] = cleared[a],
         ~excused[a] => Knows(type[a], al.seen, top'[a], cleared'[a])
  PROVE  MemoryKnows' /\ DiskKnows' /\ Live' \subseteq Live /\ Kept' \subseteq Kept
<1> USE DEF IInv
<1>0. Live \subseteq Alerts
  BY DEF TypeOK, Live
<1>1. /\ obj'[a].seen = al.seen
      /\ obj'[a].failures = IF how = "ok" THEN 0 ELSE al.failures + 1
      /\ \A b \in Alerts : b # a => obj'[b] = obj[b] /\ row'[b] = row[b]
      /\ row'[a] = IF how = "ok" THEN 0 ELSE IF row[a] = 3 THEN 3 ELSE row[a] + 1
      /\ stored' \subseteq stored
  BY <1>0, DeliverTyped
<1>2. /\ row \in [Alerts -> 0..3] /\ al.failures \in Nat
      /\ \A b \in Alerts : disk[b] # Nothing => disk[b] \in AlertRecords
  BY DEF TypeOK, AlertRecords
<1>3. Live' \subseteq Live
  BY <1>1 DEF Live
<1>4. MemoryKnows'
  <2> SUFFICES ASSUME NEW b \in Live', ~excused[b]
               PROVE  /\ Knows(type[b], obj'[b].seen, top'[b], cleared'[b])
                      /\ Counts(obj'[b], row'[b])
    BY DEF MemoryKnows
  <2>1. b \in Live /\ b \in Alerts
    BY <1>0, <1>3
  <2>2. Counts(obj[b], row[b]) /\ Knows(type[b], obj[b].seen, top[b], cleared[b])
    BY <2>1 DEF MemoryKnows
  <2>3. CASE b = a
    <3>1. Counts(obj'[a], row'[a])
      BY <1>0, <1>1, <1>2, <2>2, <2>3 DEF Counts
    <3> QED
      BY <1>1, <2>3, <3>1
  <2>4. CASE b # a
    BY <1>1, <2>1, <2>2, <2>4
  <2> QED
    BY <2>3, <2>4
<1>5. CASE Saved
  <2>1. DiskKnows' /\ \A b \in Alerts : disk'[b] # Nothing => b \in stored'
    BY <1>0, <1>1, <1>4, <1>5, SavedTellsMemory DEF TypeOK
  <2>2. Kept' \subseteq Kept
    BY <1>3, <2>1 DEF Kept, Live
  <2> QED
    BY <1>3, <1>4, <2>1, <2>2
<1>6. CASE /\ disk' = disk
           /\ \A b \in Alerts : unsaved'[b] = (unsaved[b] \/ (b = a /\ how = "ok"))
  <2>1. Kept' \subseteq Kept
    BY <1>3, <1>6 DEF Kept
  <2>2. DiskKnows'
    <3> SUFFICES ASSUME NEW b \in Alerts, disk[b] # Nothing, ~excused[b], ~unsaved'[b]
                 PROVE  /\ Knows(type[b], disk[b].seen, top'[b], cleared'[b])
                        /\ Counts(disk[b], row'[b])
      BY <1>6 DEF DiskKnows
    <3>1. ~unsaved[b] /\ (b = a => how # "ok")
      BY <1>6
    <3>2. Knows(type[b], disk[b].seen, top[b], cleared[b]) /\ Counts(disk[b], row[b])
      BY <3>1 DEF DiskKnows
    <3>3. top'[b] = top[b] /\ cleared'[b] = cleared[b]
      BY <3>1
    <3>4. row'[b] \in 0..3 /\ row[b] \in 0..3 /\ (row[b] <= row'[b]) /\ disk[b].failures \in Nat
      <4>1. disk[b].failures \in Nat /\ row[b] \in 0..3
        BY <1>2 DEF AlertRecords
      <4> QED
        BY <1>1, <3>1, <4>1
    <3>5. Counts(disk[b], row'[b])
      BY <3>2, <3>4 DEF Counts
    <3> QED
      BY <3>2, <3>3, <3>5
  <2> QED
    BY <1>3, <1>4, <2>1, <2>2
<1>7. \/ Saved
      \/ NotSaved /\ how # "ok"
      \/ disk' = disk /\ unsaved' = [unsaved EXCEPT ![a] = unsaved[a] \/ how = "ok"]
  BY DEF Deliver, GivesUp
<1>8. unsaved \in [Alerts -> BOOLEAN]
  BY DEF TypeOK
<1> QED
  BY <1>0, <1>5, <1>6, <1>7, <1>8 DEF NotSaved

-----------------------------------------------------------------------------
(* The steps. *)

\* The invariant holds at the start, when there is no alert.
LEMMA InitIInv == Init => IInv
<1> SUFFICES ASSUME Init
             PROVE  IInv
  OBVIOUS
<1> USE Bounds DEF Init, Asleep
<1>1. TypeOK
  <2>1. /\ type \in [Alerts -> Types] /\ hour \in 0..(DayHours - 1)
        /\ world \in Readings \union {Nothing} /\ cache \in Readings \union {Nothing}
        /\ faults \in 0..MaxFaults
    OBVIOUS
  <2>2. cacheOld \in BOOLEAN /\ fresh \in BOOLEAN
    OBVIOUS
  <2>3. run \in [at : {"start", "idle", "listed", "pass"}, todo : SUBSET Alerts,
                reading : Readings \union {Nothing}]
    OBVIOUS
  <2>4. /\ obj \in [Alerts -> AlertRecords \union {Nothing}]
        /\ disk \in [Alerts -> AlertRecords \union {Nothing}]
    OBVIOUS
  <2>5. /\ cleared \in [Alerts -> BOOLEAN] /\ top \in [Alerts -> 0..MaxLevel]
        /\ row \in [Alerts -> 0..3]
    OBVIOUS
  <2>6. unsaved \in [Alerts -> BOOLEAN] /\ excused \in [Alerts -> BOOLEAN]
    OBVIOUS
  <2>7. /\ stored \subseteq Alerts /\ adding \subseteq Alerts /\ used \subseteq Alerts
        /\ struck \subseteq Alerts /\ stored \union adding \union run.todo = {}
    OBVIOUS
  <2> QED
    BY <2>1, <2>2, <2>3, <2>4, <2>5, <2>6, <2>7, Zenon DEF TypeOK
<1>2. Live = {} /\ Kept = {}
  BY DEF Live, Kept
<1>3. DiskKnows
  BY DEF DiskKnows
<1>4. ReadingIsRecent
  BY DEF ReadingIsRecent
<1> QED
  BY <1>1, <1>2, <1>3, <1>4 DEF IInv, OnlyUsedAreKept, MemoryKnows, CurrentIsCleared, CacheIsCurrent

\* A publish clears what it turns off.
LEMMA PublishIInv == IInv /\ Publish => IInv'
<1> SUFFICES ASSUME IInv, Publish
             PROVE  IInv'
  OBVIOUS
<1> USE DEF IInv
<1>1. /\ UNCHANGED <<type, hour, cache, run, book, top, row, struck, unsaved, excused, faults>>
      /\ world' \in Readings \union {Nothing} /\ fresh' = TRUE /\ cacheOld' = TRUE
  BY DEF Publish
<1>2. /\ cleared' \in [Alerts -> BOOLEAN]
      /\ \A a \in Alerts : cleared'[a] <=> cleared[a] \/ Off(type[a], world')
  BY DEF Publish, TypeOK
<1>3. Live' = Live /\ Kept' = Kept /\ Live \subseteq Alerts /\ Kept \subseteq Alerts
  BY <1>1 DEF Live, Kept, book, TypeOK
<1>4. TypeOK'
  BY <1>1, <1>2 DEF TypeOK, book
<1>5. \A a \in Alerts : \A s : Knows(type[a], s, top[a], cleared[a]) =>
                             Knows(type[a], s, top[a], cleared'[a])
  BY <1>2 DEF Knows
<1>6. MemoryKnows'
  BY <1>1, <1>3, <1>5 DEF MemoryKnows, book
<1>7. DiskKnows'
  BY <1>1, <1>5 DEF DiskKnows, book
<1>8. CurrentIsCleared'
  BY <1>1, <1>2, <1>3 DEF CurrentIsCleared
<1>9. ReadingIsRecent'
  BY <1>1, <1>2 DEF ReadingIsRecent, TypeOK
<1> QED
  BY <1>1, <1>3, <1>4, <1>6, <1>7, <1>8, <1>9 DEF OnlyUsedAreKept, CacheIsCurrent, book

\* An hour that passes brings a new day, or leaves what was told today told.
LEMMA HourIInv == IInv /\ Hour => IInv'
<1> SUFFICES ASSUME IInv, Hour
             PROVE  IInv'
  OBVIOUS
<1> USE DEF IInv
<1>1. UNCHANGED <<type, world, client, fresh, run, stored, adding, used, top, row, struck,
                  unsaved, excused, faults>>
  BY DEF Hour
<1>2. hour' \in 0..(DayHours - 1)
  BY Bounds DEF Hour, TypeOK
<1>3. /\ cleared' \in [Alerts -> BOOLEAN]
      /\ \A a \in Alerts : cleared'[a] <=> cleared[a] \/ (type[a] = "daily" /\ hour' = 0)
  BY DEF Hour, TypeOK
<1>4. /\ obj' = [a \in Alerts |-> AgedAlert(obj[a])]
      /\ disk' = [a \in Alerts |-> AgedAlert(disk[a])]
  BY DEF Hour
<1>5. ASSUME NEW al \in AlertRecords \union {Nothing}
      PROVE  /\ AgedAlert(al) \in AlertRecords \union {Nothing}
             /\ al = Nothing => AgedAlert(al) = Nothing
             /\ al \in AlertRecords => AgedAlert(al) \in AlertRecords
             /\ \/ AgedAlert(al) = al
                \/ /\ al \in AlertRecords /\ AgedAlert(al).failures = al.failures
                   /\ AgedAlert(al).seen = Aged(al.seen)
  <2>1. CASE al = Nothing
    BY <2>1 DEF AgedAlert
  <2>2. CASE al # Nothing
    <3>1. al \in AlertRecords /\ AgedAlert(al) = [al EXCEPT !.seen = Aged(al.seen)]
      BY <2>2 DEF AgedAlert
    <3>2. Aged(al.seen) \in Seens
      BY <3>1, AgedTyped DEF AlertRecords
    <3> QED
      BY <2>2, <3>1, <3>2 DEF AlertRecords
  <2> QED
    BY <2>1, <2>2
<1>6. TypeOK'
  BY <1>1, <1>2, <1>3, <1>4, <1>5 DEF TypeOK, client
<1>7. Live' = Live /\ Live \subseteq Alerts /\ Kept' \subseteq Kept /\ Kept \subseteq Alerts
  <2>1. Live' = Live /\ Live \subseteq Alerts
    BY <1>1 DEF Live, TypeOK
  <2>2. \A a \in Alerts : disk'[a] # Nothing => disk[a] # Nothing
    BY <1>4, <1>5 DEF TypeOK
  <2> QED
    BY <2>1, <2>2 DEF Kept
<1>8. ASSUME NEW a \in Alerts, NEW al \in AlertRecords \union {Nothing},
             Knows(type[a], al.seen, top[a], cleared[a]), Counts(al, row[a])
      PROVE  /\ Knows(type'[a], AgedAlert(al).seen, top'[a], cleared'[a])
             /\ Counts(AgedAlert(al), row'[a])
  <2>1. type'[a] = type[a] /\ top'[a] = top[a] /\ row'[a] = row[a]
    BY <1>1
  <2>2. CASE AgedAlert(al) = al
    BY <1>3, <1>8, <2>1, <2>2 DEF Knows
  <2>3. CASE /\ al \in AlertRecords /\ AgedAlert(al).failures = al.failures
             /\ AgedAlert(al).seen = Aged(al.seen)
    <3>1. /\ Aged(al.seen).level = al.seen.level /\ Aged(al.seen).armed = al.seen.armed
          /\ Aged(al.seen).today = (al.seen.today /\ hour' # 0)
      BY <2>3 DEF Aged, AlertRecords, Seens
    <3> QED
      BY <1>3, <1>8, <2>1, <2>3, <3>1 DEF Knows, Counts
  <2> QED
    BY <1>5, <2>2, <2>3
<1>9. MemoryKnows'
  BY <1>1, <1>4, <1>7, <1>8 DEF MemoryKnows, TypeOK
<1>10. DiskKnows'
  BY <1>1, <1>4, <1>5, <1>8 DEF DiskKnows, TypeOK
<1>11. CurrentIsCleared'
  BY <1>1, <1>3, <1>7 DEF CurrentIsCleared
<1>12. ReadingIsRecent'
  BY <1>1, <1>3 DEF ReadingIsRecent, TypeOK, client
<1> QED
  BY <1>1, <1>6, <1>7, <1>9, <1>10, <1>11, <1>12 DEF OnlyUsedAreKept, CacheIsCurrent, client

RunTyped ==
  run \in [at : {"start", "idle", "listed", "pass"}, todo : SUBSET Alerts,
          reading : Readings \union {Nothing}]
ClientTyped ==
  cache \in Readings \union {Nothing} /\ cacheOld \in BOOLEAN /\ fresh \in BOOLEAN

\* A step that leaves the alerts and their file alone.
LEMMA BookUnchanged ==
  ASSUME IInv, UNCHANGED <<type, hour, world, book, history>>, RunTyped', ClientTyped',
         faults' \in 0..MaxFaults, run'.todo \subseteq stored \union run.todo,
         CacheIsCurrent', ReadingIsRecent'
  PROVE  IInv'
<1> USE DEF IInv, book, history
<1>1. Live' \subseteq Live /\ Kept' \subseteq Kept /\ Kept \subseteq Alerts
  BY DEF Live, Kept, TypeOK
<1>2. TypeOK'
  <2>1. \A a \in stored \union adding \union run'.todo : obj[a] \in AlertRecords
    BY DEF TypeOK
  <2> QED
    BY <2>1 DEF TypeOK, RunTyped, ClientTyped
<1>3. MemoryKnows' /\ DiskKnows' /\ CurrentIsCleared' /\ OnlyUsedAreKept'
  BY <1>1 DEF MemoryKnows, DiskKnows, CurrentIsCleared, OnlyUsedAreKept
<1> QED
  BY <1>2, <1>3

\* An answer about something else drops a stale one, and leaves the other.
LEMMA RefreshedIsCurrent ==
  ASSUME IInv, Refreshed, world' = world
  PROVE  /\ cache' \in {cache, Nothing} /\ cacheOld' = FALSE /\ CacheIsCurrent'
         /\ cache' \in Readings \union {Nothing}
BY DEF IInv, TypeOK, Refreshed, CacheIsCurrent

\* An answer about the target is the cache's, or that of the latest snapshot.
LEMMA ReadIsCurrent ==
  ASSUME IInv, NEW e, Read(e), world' = world
  PROVE  /\ e \in {cache, world, Nothing} /\ cache' \in {cache, world}
         /\ cacheOld' \in BOOLEAN /\ CacheIsCurrent' /\ faults' \in 0..MaxFaults
         /\ cache' \in Readings \union {Nothing} /\ e \in Readings \union {Nothing}
<1> USE Bounds DEF IInv, TypeOK, CacheIsCurrent, Read, Fault, client
<1>1. CASE cache # Nothing
  BY <1>1
<1>2. CASE cache = Nothing
  <2>1. CASE /\ e = world /\ cache' = world /\ cacheOld' = (cacheOld /\ world = Nothing)
             /\ UNCHANGED faults
    <3>1. cacheOld' \in BOOLEAN /\ CacheIsCurrent'
      BY <2>1
    <3> QED
      BY <2>1, <3>1
  <2>2. CASE e = Nothing /\ Fault /\ UNCHANGED client
    BY <2>2
  <2> QED
    BY <1>2, <2>1, <2>2
<1> QED
  BY <1>1, <1>2

\* What a pass will read, or has read, was current when the last alert spoke.
LEMMA StaysRecent ==
  ASSUME IInv, UNCHANGED <<type, world>>,
         \A a \in Alerts : cleared[a] => cleared'[a],
         run'.todo \subseteq run.todo, run'.at \in {"start", "idle", run.at},
         run'.reading \in {run.reading, Nothing}, cache' \in {cache, world, Nothing},
         run'.at # "pass" => run'.reading = Nothing
  PROVE  ReadingIsRecent'
<1> SUFFICES ASSUME NEW a \in run'.todo
             PROVE  /\ run'.at \in {"listed", "pass"} /\ Off(type[a], cache') => cleared'[a]
                    /\ Off(type[a], run'.reading) => cleared'[a]
  BY DEF ReadingIsRecent
<1>1. a \in run.todo /\ a \in Kept /\ a \in Alerts
  BY DEF Kept, Live, IInv, TypeOK
<1>2. Off(type[a], world) => cleared[a]
  BY <1>1 DEF IInv, CurrentIsCleared
<1>3. ~Off(type[a], Nothing)
  BY DEF Off
<1> QED
  BY <1>1, <1>2, <1>3 DEF IInv, ReadingIsRecent

\* The client and the clock of the watcher leave the alerts alone, and a reading for a
\* pass is not older than the pass.
LEMMA WatchIInv == IInv /\ (Command \/ Start \/ Poll \/ Lock \/ Fetch) => IInv'
<1> SUFFICES ASSUME IInv, Command \/ Start \/ Poll \/ Lock \/ Fetch
             PROVE  IInv'
  OBVIOUS
<1>0. /\ UNCHANGED <<type, hour, world, book, history>> /\ RunTyped /\ ClientTyped
      /\ faults \in 0..MaxFaults
  BY DEF Command, Start, Poll, Lock, Fetch, IInv, TypeOK, RunTyped, ClientTyped
<1>a. UNCHANGED <<type, world, cleared, stored>>
  BY <1>0 DEF history, book
<1>b. run.at # "pass" => run.reading = Nothing
  BY DEF IInv, ReadingIsRecent
<1> USE DEF RunTyped
<1>1. CASE Command
  <2>1. Refreshed /\ UNCHANGED <<fresh, run, faults>>
    BY <1>1 DEF Command
  <2>2. ReadingIsRecent'
    BY <1>0, <1>a, <1>b, <2>1, RefreshedIsCurrent, StaysRecent
  <2> QED
    BY <1>0, <1>a, <2>1, <2>2, RefreshedIsCurrent, BookUnchanged DEF ClientTyped
<1>2. CASE Start
  <2>1. /\ run' = [run EXCEPT !.at = "idle"]
        /\ \/ fresh' = FALSE /\ Refreshed /\ UNCHANGED faults
           \/ fresh' = TRUE /\ UNCHANGED client /\ Fault
    BY <1>2 DEF Start
  <2>2. /\ RunTyped' /\ run'.at = "idle" /\ run'.todo = run.todo /\ run'.reading = run.reading
    BY <1>0, <2>1
  <2>3. /\ cache' \in {cache, Nothing} /\ ClientTyped' /\ CacheIsCurrent'
        /\ faults' \in 0..MaxFaults
    <3>1. CASE fresh' = FALSE /\ Refreshed /\ UNCHANGED faults
      BY <1>0, <3>1, RefreshedIsCurrent DEF ClientTyped
    <3>2. CASE fresh' = TRUE /\ UNCHANGED client /\ Fault
      BY <1>0, <3>2, Bounds DEF ClientTyped, client, Fault, IInv, CacheIsCurrent
    <3> QED
      BY <2>1, <3>1, <3>2
  <2>4. ReadingIsRecent'
    <3>1. run.at = "start"
      BY <1>2 DEF Start
    <3> QED
      BY <1>0, <1>a, <1>b, <2>2, <2>3, <3>1, StaysRecent
  <2> QED
    BY <1>0, <2>2, <2>3, <2>4, BookUnchanged
<1>3. CASE Poll
  <2>1. Refreshed /\ fresh' = FALSE /\ UNCHANGED faults /\ run.at = "idle"
    BY <1>3 DEF Poll, Status
  <2>2. \/ run' = run
        \/ run' = [run EXCEPT !.at = "listed", !.todo = stored]
    BY <1>3 DEF Poll
  <2>3. /\ cache' \in {cache, Nothing} /\ ClientTyped' /\ CacheIsCurrent' /\ cacheOld' = FALSE
    BY <2>1, <1>0, RefreshedIsCurrent DEF ClientTyped
  <2>4. CASE run' = run
    <3>1. ReadingIsRecent'
      BY <1>0, <1>a, <1>b, <2>3, <2>4, StaysRecent
    <3> QED
      BY <1>0, <2>1, <2>3, <2>4, <3>1, BookUnchanged
  <2>5. CASE run' = [run EXCEPT !.at = "listed", !.todo = stored]
    <3>1. /\ RunTyped' /\ run'.todo = stored /\ run'.reading = run.reading
      BY <1>0, <2>5 DEF IInv, TypeOK
    <3>2. cache' = Nothing \/ cache' = world
      BY <1>0, <2>3 DEF CacheIsCurrent
    <3>3. ReadingIsRecent'
      <4>1. \A a \in stored : Off(type[a], world) => cleared[a]
        BY DEF IInv, CurrentIsCleared, Kept, Live
      <4>2. run'.reading = Nothing
        BY <2>1, <3>1 DEF IInv, ReadingIsRecent
      <4>3. \A t : ~Off(t, Nothing)
        BY DEF Off
      <4> QED
        BY <1>a, <3>1, <3>2, <4>1, <4>2, <4>3 DEF ReadingIsRecent
    <3> QED
      BY <1>0, <2>1, <2>3, <3>1, <3>3, BookUnchanged
  <2> QED
    BY <2>2, <2>4, <2>5
<1>4. CASE Lock
  <2>1. /\ run.at = "listed" /\ run' = [run EXCEPT !.at = "pass"]
        /\ UNCHANGED <<client, fresh, faults>>
    BY <1>4 DEF Lock
  <2>2. RunTyped' /\ run'.todo = run.todo /\ run'.reading = run.reading
    BY <1>0, <2>1
  <2>3. ReadingIsRecent' /\ CacheIsCurrent'
    BY <1>a, <2>1, <2>2 DEF IInv, ReadingIsRecent, CacheIsCurrent, client
  <2> QED
    BY <1>0, <2>1, <2>2, <2>3, BookUnchanged DEF ClientTyped, client
<1>5. CASE Fetch
  <2>1. PICK e \in Readings \union {Nothing} :
          /\ Read(e)
          /\ run' = [run EXCEPT !.reading = e, !.todo = IF e = Nothing THEN {} ELSE run.todo]
    BY <1>5 DEF Fetch
  <2>2. run.at = "pass" /\ UNCHANGED fresh
    BY <1>5 DEF Fetch
  <2>3. /\ RunTyped' /\ run'.todo \subseteq run.todo /\ run'.reading = e /\ run'.at = "pass"
    BY <1>0, <2>1, <2>2
  <2>4. /\ e \in {cache, world, Nothing} /\ cache' \in {cache, world} /\ CacheIsCurrent'
        /\ ClientTyped' /\ faults' \in 0..MaxFaults
    BY <1>0, <2>1, <2>2, ReadIsCurrent DEF ClientTyped
  <2>5. ReadingIsRecent'
    <3> SUFFICES ASSUME NEW a \in run'.todo
                 PROVE  (Off(type[a], cache') \/ Off(type[a], e)) => cleared[a]
      BY <1>a, <2>3 DEF ReadingIsRecent
    <3>1. Off(type[a], world) => cleared[a]
      BY <2>3 DEF IInv, CurrentIsCleared, Kept, Live
    <3>2. Off(type[a], cache) => cleared[a]
      BY <2>2, <2>3 DEF IInv, ReadingIsRecent
    <3>3. ~Off(type[a], Nothing)
      BY DEF Off
    <3> QED
      BY <2>4, <3>1, <3>2, <3>3
  <2> QED
    BY <1>0, <2>3, <2>4, <2>5, BookUnchanged
<1> QED
  BY <1>1, <1>2, <1>3, <1>4, <1>5

\* An evaluation, and what becomes of the message.
LEMMA EvaluateIInv == ASSUME NEW a \in Alerts PROVE IInv /\ Evaluate(a) => IInv'
<1> SUFFICES ASSUME IInv, Evaluate(a)
             PROVE  IInv'
  OBVIOUS
<1> DEFINE t == type[a]
           s == obj[a].seen
           e == run.reading
           al == [obj[a] EXCEPT !.seen = Seen(t, s, e)]
<1>1. /\ run.at = "pass" /\ e # Nothing /\ a \in run.todo
      /\ run' = [run EXCEPT !.todo = run.todo \ {a}]
      /\ UNCHANGED <<type, hour, world, client, fresh, adding, used, excused>>
  BY DEF Evaluate
<1>2. TypeOK
  BY DEF IInv
<1>3. /\ t \in Types /\ e \in Readings /\ obj[a] \in AlertRecords /\ s \in Seens
      /\ obj[a].failures \in Nat
      /\ top[a] \in 0..MaxLevel /\ cleared[a] \in BOOLEAN
  BY <1>1, <1>2 DEF TypeOK, AlertRecords
<1>4. al \in AlertRecords /\ al.seen = Seen(t, s, e) /\ al.failures = obj[a].failures
  BY <1>3, RulesTyped DEF AlertRecords
<1>5. a \in Live /\ Live \subseteq Alerts
  BY <1>1, <1>2 DEF Live, TypeOK
<1>6. ~excused[a] => Knows(t, s, top[a], cleared[a]) /\ Counts(obj[a], row[a])
  BY <1>5 DEF IInv, MemoryKnows
<1>7. Off(t, e) => cleared[a]
  BY <1>1 DEF IInv, ReadingIsRecent
<1>8. Off(t, world) => cleared[a]
  BY <1>5 DEF IInv, CurrentIsCleared, Kept
<1>9. ~excused[a] => Knows(t, al.seen, top[a], cleared[a])
  BY <1>3, <1>4, <1>6, <1>7, SeenKnows
<1>10. /\ run' \in [at : {"start", "idle", "listed", "pass"}, todo : SUBSET Alerts,
                     reading : Readings \union {Nothing}]
       /\ run'.todo = run.todo \ {a} /\ run'.at = "pass" /\ run'.reading = e
  BY <1>1, <1>2 DEF TypeOK
<1>11. ASSUME \A b \in Alerts : b # a => cleared'[b] = cleared[b]
       PROVE  ReadingIsRecent'
  BY <1>1, <1>2, <1>10, <1>11 DEF IInv, ReadingIsRecent, client, TypeOK
<1> HIDE DEF al, s, e, t
<1>12. CASE ~Fires(t, s, e)
  <2>1. /\ obj' = [obj EXCEPT ![a] = al]
        /\ UNCHANGED <<stored, disk, cleared, top, row, struck, unsaved, faults>>
    BY <1>12 DEF Evaluate, al, s, e, t
  <2>2. Live' \subseteq Live /\ Kept' \subseteq Kept
    BY <1>1, <1>10, <2>1 DEF Live, Kept
  <2>3. /\ obj' \in [Alerts -> AlertRecords \union {Nothing}]
        /\ \A b \in Alerts : obj[b] \in AlertRecords => obj'[b] \in AlertRecords
    BY <1>2, <1>4, <2>1 DEF TypeOK
  <2>4. TypeOK'
    BY <1>1, <1>2, <1>10, <2>1, <2>3 DEF TypeOK, client
  <2>5. MemoryKnows'
    <3> SUFFICES ASSUME NEW b \in Live, ~excused[b]
                 PROVE  /\ Knows(type[b], obj'[b].seen, top[b], cleared[b])
                        /\ Counts(obj'[b], row[b])
      BY <1>1, <2>1, <2>2 DEF MemoryKnows
    <3>1. CASE b = a
      BY <1>2, <1>4, <1>6, <1>9, <2>1, <3>1 DEF TypeOK, Counts, t
    <3>2. CASE b # a
      BY <1>2, <1>5, <2>1, <3>2 DEF TypeOK, IInv, MemoryKnows
    <3> QED
      BY <3>1, <3>2
  <2>6. DiskKnows'
    BY <1>1, <2>1 DEF IInv, DiskKnows
  <2>7. CurrentIsCleared' /\ CacheIsCurrent' /\ OnlyUsedAreKept'
    BY <1>1, <2>1, <2>2 DEF IInv, CurrentIsCleared, CacheIsCurrent, OnlyUsedAreKept, client
  <2> QED
    BY <1>11, <2>1, <2>4, <2>5, <2>6, <2>7 DEF IInv
<1>13. CASE Fires(t, s, e)
  <2>1. PICK how \in Answers :
          /\ Deliver(a, al, how)
          /\ IF how = "ok"
             THEN /\ cleared' = [cleared EXCEPT ![a] = Off(t, world)]
                  /\ top' = [top EXCEPT ![a] = IF t = "milestone" THEN e.level ELSE top[a]]
             ELSE UNCHANGED <<cleared, top>>
    BY <1>13 DEF Evaluate, al, s, e, t
  <2>2. Off(t, world) \in BOOLEAN /\ e.level \in 0..MaxLevel
    BY <1>3, Bounds DEF Off
  <2>3. /\ cleared' \in [Alerts -> BOOLEAN] /\ top' \in [Alerts -> 0..MaxLevel]
        /\ \A b \in Alerts : b # a => top'[b] = top[b] /\ cleared'[b] = cleared[b]
        /\ how # "ok" => top'[a] = top[a] /\ cleared'[a] = cleared[a]
        /\ how = "ok" => /\ top'[a] = IF t = "milestone" THEN e.level ELSE top[a]
                         /\ cleared'[a] = Off(t, world)
    BY <1>2, <1>3, <2>1, <2>2 DEF TypeOK
  <2>4. ~excused[a] => Knows(t, al.seen, top'[a], cleared'[a])
    <3>1. CASE how = "ok"
      BY <1>3, <1>4, <1>13, <2>2, <2>3, <3>1, SpokenKnows
    <3>2. CASE how # "ok"
      BY <1>9, <2>3, <3>2
    <3> QED
      BY <3>1, <3>2
  <2>5. MemoryKnows' /\ DiskKnows' /\ Live' \subseteq Live /\ Kept' \subseteq Kept
    BY <1>1, <1>4, <1>5, <1>10, <2>1, <2>3, <2>4, DeliverKnows DEF t
  <2>6. /\ obj' \in [Alerts -> AlertRecords \union {Nothing}] /\ obj'[a] \in AlertRecords
        /\ \A b \in Alerts : b # a => obj'[b] = obj[b]
        /\ row' \in [Alerts -> 0..3]
        /\ disk' \in [Alerts -> AlertRecords \union {Nothing}]
        /\ stored' \subseteq stored /\ struck' \subseteq Alerts
        /\ unsaved' \in [Alerts -> BOOLEAN] /\ faults' \in 0..MaxFaults
    BY <1>2, <1>4, <2>1, DeliverTyped
  <2>7. TypeOK'
    BY <1>1, <1>2, <1>10, <2>3, <2>6 DEF TypeOK, client
  <2>8. CurrentIsCleared'
    <3> SUFFICES ASSUME NEW b \in Kept, Off(type[b], world)
                 PROVE  cleared'[b]
      BY <1>1, <2>5 DEF CurrentIsCleared
    <3>1. cleared[b] /\ b \in Alerts
      BY <1>5 DEF IInv, CurrentIsCleared, Kept
    <3> QED
      BY <2>3, <3>1 DEF t
  <2>9. CacheIsCurrent' /\ OnlyUsedAreKept'
    BY <1>1, <2>5 DEF IInv, CacheIsCurrent, OnlyUsedAreKept, client
  <2> QED
    BY <1>11, <2>3, <2>5, <2>7, <2>8, <2>9 DEF IInv
<1> QED
  BY <1>12, <1>13

\* A test says what the channel answers, and nothing of the condition.
LEMMA TestIInv == ASSUME NEW a \in Alerts PROVE IInv /\ Test(a) => IInv'
<1> SUFFICES ASSUME IInv, Test(a)
             PROVE  IInv'
  OBVIOUS
<1>1. /\ a \in stored /\ Refreshed
      /\ UNCHANGED <<type, hour, world, fresh, run, adding, used, cleared, top, excused>>
  BY DEF Test
<1>2. PICK how \in Answers : Deliver(a, obj[a], how)
  BY DEF Test
<1>3. TypeOK
  BY DEF IInv
<1>4. obj[a] \in AlertRecords /\ a \in Live
  BY <1>1, <1>3 DEF TypeOK, Live
<1>5. ~excused[a] => Knows(type[a], obj[a].seen, top[a], cleared[a])
  BY <1>4 DEF IInv, MemoryKnows
<1>6. MemoryKnows' /\ DiskKnows' /\ Live' \subseteq Live /\ Kept' \subseteq Kept
  BY <1>1, <1>2, <1>4, <1>5, DeliverKnows
<1>7. /\ obj' \in [Alerts -> AlertRecords \union {Nothing}] /\ obj'[a] \in AlertRecords
      /\ \A b \in Alerts : b # a => obj'[b] = obj[b]
      /\ row' \in [Alerts -> 0..3]
      /\ disk' \in [Alerts -> AlertRecords \union {Nothing}]
      /\ stored' \subseteq stored /\ struck' \subseteq Alerts
      /\ unsaved' \in [Alerts -> BOOLEAN] /\ faults' \in 0..MaxFaults
  BY <1>2, <1>3, <1>4, DeliverTyped
<1>8. /\ cache' \in {cache, Nothing} /\ cacheOld' = FALSE /\ CacheIsCurrent'
      /\ cache' \in Readings \union {Nothing}
  BY <1>1, RefreshedIsCurrent
<1>9. TypeOK'
  BY <1>1, <1>3, <1>7, <1>8 DEF TypeOK
<1>10. ReadingIsRecent'
  BY <1>1, <1>8, StaysRecent DEF IInv, ReadingIsRecent
<1>11. CurrentIsCleared' /\ OnlyUsedAreKept'
  BY <1>1, <1>6 DEF IInv, CurrentIsCleared, OnlyUsedAreKept
<1> QED
  BY <1>6, <1>8, <1>9, <1>10, <1>11 DEF IInv

\* A step that changes which alerts there are, and writes the file or fails to.
LEMMA BookWritten ==
  ASSUME IInv, Saved \/ NotSaved,
         UNCHANGED <<type, hour, world, client, fresh, obj, used, cleared, top, row, struck,
                     excused>>,
         stored' \subseteq stored \union adding, adding' \subseteq adding,
         RunTyped', run'.todo \subseteq run.todo, ReadingIsRecent', faults' \in 0..MaxFaults
  PROVE  IInv'
<1>1. TypeOK
  BY DEF IInv
<1>2. Live' \subseteq Live /\ Live \subseteq Alerts
  BY <1>1 DEF Live, TypeOK
<1>3. MemoryKnows'
  BY <1>2 DEF IInv, MemoryKnows
<1>4. /\ disk' \in [Alerts -> AlertRecords \union {Nothing}]
      /\ unsaved' \in [Alerts -> BOOLEAN] /\ stored' \subseteq Alerts
  BY <1>1, SavedTyped DEF TypeOK
<1>5. DiskKnows' /\ Kept' \subseteq Kept
  <2>1. CASE Saved
    BY <1>2, <1>3, <1>4, <2>1, SavedTellsMemory DEF Kept, Live
  <2>2. CASE NotSaved
    BY <1>2, <2>2 DEF NotSaved, IInv, DiskKnows, Kept
  <2> QED
    BY <2>1, <2>2
<1>6. TypeOK'
  <2>1. \A a \in stored' \union adding' \union run'.todo : obj'[a] \in AlertRecords
    BY <1>1 DEF TypeOK
  <2> QED
    BY <1>1, <1>4, <2>1 DEF TypeOK, RunTyped, client
<1>7. CurrentIsCleared' /\ CacheIsCurrent' /\ OnlyUsedAreKept'
  BY <1>5 DEF IInv, CurrentIsCleared, CacheIsCurrent, OnlyUsedAreKept, client
<1> QED
  BY <1>3, <1>5, <1>6, <1>7 DEF IInv

\* The end of a pass, an alert that is added after all, one that is removed.
LEMMA BookIInv == IInv /\ (Save \/ \E a \in Alerts : Add(a) \/ Remove(a)) => IInv'
<1> SUFFICES ASSUME IInv, Save \/ \E a \in Alerts : Add(a) \/ Remove(a)
             PROVE  IInv'
  OBVIOUS
<1>1. UNCHANGED <<type, hour, world, client, fresh, obj, used, cleared, top, row, struck, excused>>
  BY DEF Save, Add, Remove
<1>2. TypeOK /\ RunTyped /\ faults \in 0..MaxFaults
  BY DEF IInv, TypeOK, RunTyped
<1>3. SaveOrFail => (Saved \/ NotSaved) /\ faults' \in 0..MaxFaults
  BY <1>2, Bounds DEF SaveOrFail, Fault
<1>4. CASE Save
  <2>1. run' = [Asleep EXCEPT !.at = "idle"] /\ SaveOrFail /\ UNCHANGED <<stored, adding>>
    BY <1>4 DEF Save
  <2>2. RunTyped' /\ run'.todo = {} /\ run'.reading = Nothing
    BY <2>1 DEF RunTyped, Asleep
  <2> QED
    BY <1>1, <1>3, <2>1, <2>2, BookWritten DEF ReadingIsRecent
<1>5. ASSUME UNCHANGED run
      PROVE  RunTyped' /\ run'.todo \subseteq run.todo /\ ReadingIsRecent'
  BY <1>1, <1>2, <1>5 DEF RunTyped, IInv, ReadingIsRecent, client
<1>6. ASSUME NEW a \in Alerts, Add(a)
      PROVE  IInv'
  <2>1. UNCHANGED run /\ a \in adding /\ adding' = adding \ {a}
    BY <1>6 DEF Add
  <2>2. /\ stored' \subseteq stored \union adding /\ (Saved \/ NotSaved)
        /\ faults' \in 0..MaxFaults
    BY <1>2, <1>3, <1>6, <2>1, Bounds DEF Add, Fault
  <2> QED
    BY <1>1, <1>5, <2>1, <2>2, BookWritten
<1>7. ASSUME NEW a \in Alerts, Remove(a)
      PROVE  IInv'
  <2>1. UNCHANGED <<run, adding>> /\ SaveOrFail /\ stored' = stored \ {a}
    BY <1>7 DEF Remove
  <2> QED
    BY <1>1, <1>3, <1>5, <2>1, BookWritten
<1> QED
  BY <1>4, <1>6, <1>7

\* An alert that is seeded has nothing to say of what it was seeded with.
LEMMA SeededKnows ==
  ASSUME NEW t \in Types, NEW e \in Readings, NEW off \in BOOLEAN,
         t = "daily" \/ (t = "rank" /\ e.rank # "in") \/ Off(t, e) => off
  PROVE  Knows(t, Seeded(t, e), IF t = "milestone" THEN e.level ELSE 0, off)
<1> USE Bounds DEF Seeded, Knows, Off
<1>1. CASE t = "milestone"
  BY <1>1
<1>2. CASE t = "rank"
  BY <1>2
<1>3. CASE t = "idle"
  BY <1>3
<1>4. CASE t = "resumed"
  BY <1>4
<1>5. CASE t = "daily"
  BY <1>5
<1> QED
  BY <1>1, <1>2, <1>3, <1>4, <1>5 DEF Types

\* A seed, under an id that none of the alerts has.
LEMMA SeedIInv == ASSUME NEW a \in Alerts PROVE IInv /\ Seed(a) => IInv'
<1> SUFFICES ASSUME IInv, Seed(a)
             PROVE  IInv'
  OBVIOUS
<1>1. /\ a \notin used /\ used' = used \union {a}
      /\ UNCHANGED <<type, hour, world, fresh, run, stored, disk, row, struck, unsaved, excused>>
  BY DEF Seed
<1>2. PICK e \in Readings \union {Nothing} :
        /\ Read(e)
        /\ IF e = Nothing
           THEN UNCHANGED <<adding, obj, cleared, top>>
           ELSE /\ adding' = adding \union {a}
                /\ obj' = [obj EXCEPT ![a] = [seen |-> Seeded(type[a], e), failures |-> 0]]
                /\ cleared' = [cleared EXCEPT ![a] =
                     \/ type[a] = "daily"
                     \/ type[a] = "rank" /\ e.rank # "in"
                     \/ Off(type[a], e) \/ Off(type[a], world)]
                /\ top' = [top EXCEPT ![a] = IF type[a] = "milestone" THEN e.level ELSE 0]
  BY DEF Seed
<1>3. TypeOK
  BY DEF IInv
<1>4. a \notin Kept /\ Kept \subseteq Alerts /\ Live \subseteq Kept
  BY <1>1, <1>3 DEF IInv, OnlyUsedAreKept, Kept, Live, TypeOK
<1>5. /\ cache' \in {cache, world} /\ cacheOld' \in BOOLEAN /\ CacheIsCurrent'
      /\ faults' \in 0..MaxFaults /\ cache' \in Readings \union {Nothing}
  BY <1>1, <1>2, ReadIsCurrent
<1>6. ASSUME \A b \in Alerts : b # a => cleared'[b] = cleared[b]
      PROVE  ReadingIsRecent'
  <2>1. \A b \in run.todo : b \in Kept /\ b # a
    BY <1>4 DEF Live
  <2>2. \A b \in run.todo : Off(type[b], world) => cleared[b]
    BY <2>1 DEF IInv, CurrentIsCleared
  <2>3. \A b \in run.todo : cleared'[b] = cleared[b]
    BY <1>4, <1>6, <2>1
  <2> QED
    BY <1>1, <1>5, <2>2, <2>3 DEF IInv, ReadingIsRecent
<1>7. CASE e = Nothing
  <2>1. UNCHANGED <<adding, obj, cleared, top>>
    BY <1>2, <1>7
  <2>2. Live' = Live /\ Kept' = Kept
    BY <1>1, <2>1 DEF Live, Kept
  <2>3. TypeOK'
    BY <1>1, <1>3, <1>5, <2>1 DEF TypeOK
  <2>4. MemoryKnows' /\ DiskKnows' /\ CurrentIsCleared' /\ OnlyUsedAreKept'
    BY <1>1, <2>1, <2>2 DEF IInv, MemoryKnows, DiskKnows, CurrentIsCleared, OnlyUsedAreKept
  <2> QED
    BY <1>5, <1>6, <2>1, <2>3, <2>4 DEF IInv
<1>8. CASE e # Nothing
  <2> DEFINE t == type[a]
             new == [seen |-> Seeded(t, e), failures |-> 0]
             off == \/ t = "daily" \/ (t = "rank" /\ e.rank # "in")
                    \/ Off(t, e) \/ Off(t, world)
             high == IF t = "milestone" THEN e.level ELSE 0
  <2>1. /\ adding' = adding \union {a} /\ obj' = [obj EXCEPT ![a] = new]
        /\ cleared' = [cleared EXCEPT ![a] = off] /\ top' = [top EXCEPT ![a] = high]
    BY <1>2, <1>8
  <2>2. e \in Readings /\ t \in Types /\ off \in BOOLEAN /\ high \in 0..MaxLevel
    BY <1>3, <1>8, Bounds DEF TypeOK
  <2>3. Seeded(t, e) \in Seens
    <3>1. Unseen \in Seens
      BY Bounds DEF Unseen, Seens
    <3> QED
      BY <2>2, <3>1, RulesTyped
  <2>4. new \in AlertRecords /\ new.seen = Seeded(t, e) /\ new.failures = 0
    BY <2>3 DEF AlertRecords
  <2>5. Knows(t, Seeded(t, e), high, off)
    BY <2>2, SeededKnows
  <2> HIDE DEF new, off, high, t
  <2>6. /\ obj' \in [Alerts -> AlertRecords \union {Nothing}] /\ obj'[a] = new
        /\ cleared' \in [Alerts -> BOOLEAN] /\ cleared'[a] = off
        /\ top' \in [Alerts -> 0..MaxLevel] /\ top'[a] = high
        /\ \A b \in Alerts : b # a => /\ obj'[b] = obj[b] /\ cleared'[b] = cleared[b]
                                      /\ top'[b] = top[b]
    BY <1>3, <2>1, <2>2, <2>4 DEF TypeOK
  <2>7. Live' = Live \union {a} /\ Kept' = Kept \union {a}
    BY <1>1, <2>1 DEF Live, Kept
  <2>8. TypeOK'
    BY <1>1, <1>3, <1>5, <2>1, <2>4, <2>6 DEF TypeOK
  <2>9. MemoryKnows'
    <3> SUFFICES ASSUME NEW b \in Live', ~excused[b]
                 PROVE  /\ Knows(type[b], obj'[b].seen, top'[b], cleared'[b])
                        /\ Counts(obj'[b], row[b])
      BY <1>1 DEF MemoryKnows
    <3>1. CASE b = a
      <4>1. row[a] \in 0..3
        BY <1>3 DEF TypeOK
      <4> QED
        BY <2>4, <2>5, <2>6, <3>1, <4>1 DEF Counts, t
    <3>2. CASE b # a
      BY <1>4, <2>6, <2>7, <3>2 DEF IInv, MemoryKnows
    <3> QED
      BY <3>1, <3>2
  <2>10. DiskKnows'
    BY <1>1, <1>4, <2>6 DEF IInv, DiskKnows, Kept
  <2>11. CurrentIsCleared'
    BY <1>1, <1>4, <2>6, <2>7 DEF IInv, CurrentIsCleared, off, t
  <2>12. OnlyUsedAreKept'
    BY <1>1, <2>7 DEF IInv, OnlyUsedAreKept
  <2> QED
    BY <1>5, <1>6, <2>6, <2>8, <2>9, <2>10, <2>11, <2>12 DEF IInv
<1> QED
  BY <1>7, <1>8

\* After a crash the memory is what the file tells, and what arrived since it was written
\* is excused.
LEMMA CrashIInv == IInv /\ Crash => IInv'
<1> SUFFICES ASSUME IInv, Crash
             PROVE  IInv'
  OBVIOUS
<1>1. /\ stored' = {a \in Alerts : disk[a] # Nothing} /\ obj' = disk /\ adding' = {}
      /\ run' = Asleep /\ cache' = Nothing /\ cacheOld' = FALSE
      /\ UNCHANGED <<type, hour, world, fresh, used, disk, cleared, top, row, struck>>
  BY DEF Crash
<1>2. TypeOK /\ faults' \in 0..MaxFaults
  BY Bounds DEF IInv, TypeOK, Crash, Fault
<1>3. /\ excused' \in [Alerts -> BOOLEAN] /\ unsaved' \in [Alerts -> BOOLEAN]
      /\ \A a \in Alerts : (excused'[a] <=> excused[a] \/ unsaved[a]) /\ ~unsaved'[a]
  BY <1>2 DEF Crash, TypeOK
<1>4. /\ run' \in [at : {"start", "idle", "listed", "pass"}, todo : SUBSET Alerts,
                    reading : Readings \union {Nothing}]
      /\ run'.todo = {} /\ run'.reading = Nothing
  BY <1>1 DEF Asleep
<1>5. Live' = stored' /\ Kept' = stored' /\ Kept' \subseteq Kept
  BY <1>1, <1>4 DEF Live, Kept
<1>6. TypeOK'
  <2>1. \A a \in stored' \union adding' \union run'.todo : obj'[a] \in AlertRecords
    BY <1>1, <1>2, <1>4 DEF TypeOK
  <2>2. cacheOld' \in BOOLEAN /\ cache' \in Readings \union {Nothing}
    BY <1>1
  <2>3. stored' \subseteq Alerts /\ adding' \subseteq Alerts
    BY <1>1
  <2> QED
    BY <1>1, <1>2, <1>3, <1>4, <2>1, <2>2, <2>3 DEF TypeOK
<1>7. MemoryKnows' /\ DiskKnows'
  BY <1>1, <1>3, <1>5 DEF IInv, MemoryKnows, DiskKnows
<1>8. CurrentIsCleared' /\ OnlyUsedAreKept'
  BY <1>1, <1>5 DEF IInv, CurrentIsCleared, OnlyUsedAreKept
<1>9. CacheIsCurrent' /\ ReadingIsRecent'
  BY <1>1, <1>4 DEF CacheIsCurrent, ReadingIsRecent
<1> QED
  BY <1>6, <1>7, <1>8, <1>9 DEF IInv

\* Every step keeps the invariant.
LEMMA StepIInv == IInv /\ [Next]_vars => IInv'
<1> SUFFICES ASSUME IInv, [Next]_vars
             PROVE  IInv'
  OBVIOUS
<1>1. CASE UNCHANGED vars
  BY <1>1 DEF vars, book, client, history, IInv, TypeOK, OnlyUsedAreKept, Kept, Live, MemoryKnows,
              DiskKnows, CurrentIsCleared, CacheIsCurrent, ReadingIsRecent
<1> QED
  BY <1>1, PublishIInv, HourIInv, WatchIInv, EvaluateIInv, TestIInv, BookIInv, SeedIInv, CrashIInv
     DEF Next

-----------------------------------------------------------------------------
(* The promises. *)

\* An alert that has spoken does not speak again of what it has told, unless a crash
\* came between the message and the write of the file, whatever the alerts, the
\* readings and the faults (alerts.go, evaluate).
THEOREM NeverRepeats == Spec => NoRepeat
<1>1. IInv /\ [Next]_vars =>
        [\A a \in Alerts : Speaks(a) =>
           \/ excused[a]
           \/ IF type[a] = "milestone" THEN run.reading.level > top[a] ELSE cleared[a]]_vars
  <2> SUFFICES ASSUME IInv, NEW a \in Alerts, Speaks(a), ~excused[a]
               PROVE  IF type[a] = "milestone" THEN run.reading.level > top[a] ELSE cleared[a]
    OBVIOUS
  <2>1. a \in Live /\ run.reading \in Readings /\ Fires(type[a], obj[a].seen, run.reading)
    BY DEF Speaks, Live, IInv, TypeOK
  <2>2. Knows(type[a], obj[a].seen, top[a], cleared[a])
    BY <2>1 DEF IInv, MemoryKnows
  <2>3. /\ type[a] \in Types /\ obj[a].seen \in Seens /\ top[a] \in 0..MaxLevel
        /\ cleared[a] \in BOOLEAN
    BY <2>1 DEF IInv, TypeOK, Live, AlertRecords
  <2> QED
    BY <2>1, <2>2, <2>3, FiresAfterOff
<1> QED
  BY <1>1, InitIInv, StepIInv, PTL DEF Spec, NoRepeat

\* An alert that is given up without a refusal has failed three times running, unless a
\* crash lost that something arrived in between (alerts.go, deliver).
THEOREM ThreeStrikes == Spec => StrikesAreInARow
<1>1. IInv /\ [Next]_vars => [\A a \in struck' \ struck : row'[a] = 3 \/ excused[a]]_vars
  <2> SUFFICES ASSUME IInv, Next, NEW a \in struck' \ struck, ~excused[a]
               PROVE  row'[a] = 3
    BY Zenon
  <2>1. ASSUME NEW b \in Live, NEW al \in AlertRecords, NEW how \in Answers, Deliver(b, al, how),
               al.failures = obj[b].failures
        PROVE  row'[a] = 3
    <3>1. b = a /\ GivesUp(al, how) /\ how = "transient"
      BY <2>1 DEF Deliver
    <3>2. al.failures + 1 >= 3 /\ al.failures \in Nat
      BY <3>1 DEF GivesUp, AlertRecords
    <3>3. a \in Alerts /\ row[a] \in 0..3
      BY <2>1, <3>1 DEF IInv, TypeOK, Live
    <3>4. Counts(obj[a], row[a])
      BY <2>1, <3>1 DEF IInv, MemoryKnows
    <3>5. row'[a] = IF row[a] = 3 THEN 3 ELSE row[a] + 1
      BY <2>1, <3>1, <3>3, DeliverTyped DEF IInv
    <3> QED
      BY <2>1, <3>1, <3>2, <3>3, <3>4, <3>5 DEF Counts
  <2>2. ASSUME NEW b \in Alerts, Test(b)
        PROVE  row'[a] = 3
    <3>1. b \in Live /\ obj[b] \in AlertRecords
      BY <2>2 DEF Test, Live, IInv, TypeOK
    <3> QED
      BY <2>1, <2>2, <3>1 DEF Test
  <2>3. ASSUME NEW b \in Alerts, Evaluate(b)
        PROVE  row'[a] = 3
    <3> DEFINE al == [obj[b] EXCEPT !.seen = Seen(type[b], obj[b].seen, run.reading)]
    <3>1. /\ b \in Live /\ obj[b] \in AlertRecords /\ type[b] \in Types
          /\ run.reading \in Readings
      BY <2>3 DEF Evaluate, Live, IInv, TypeOK
    <3>2. al \in AlertRecords /\ al.failures = obj[b].failures
      BY <3>1, RulesTyped DEF AlertRecords
    <3>3. PICK how \in Answers : Deliver(b, al, how)
      BY <2>3 DEF Evaluate
    <3> HIDE DEF al
    <3> QED
      BY <2>1, <3>1, <3>2, <3>3
  <2>4. struck' = struck \/ \E b \in Alerts : Test(b) \/ Evaluate(b)
    BY DEF Next, Publish, Hour, Command, Start, Poll, Lock, Fetch, Save, Crash, Seed, Add, Remove,
           history
  <2> QED
    BY <2>2, <2>3, <2>4
<1> QED
  BY <1>1, InitIInv, StepIInv, PTL DEF Spec, StrikesAreInARow

\* What is stored, announced or to be evaluated is an alert in form, and so is whatever a
\* restart would load.
THEOREM Typed == Spec => []TypeOK
<1>1. IInv => TypeOK
  BY DEF IInv
<1> QED
  BY <1>1, InitIInv, StepIInv, PTL DEF Spec
=============================================================================
