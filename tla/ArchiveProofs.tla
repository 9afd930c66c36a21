--------------------------- MODULE ArchiveProofs ---------------------------
(***************************************************************************)
(* The safety of Archive for every number of feeds, every clock and every  *)
(* number of publishes and faults.                                         *)
(***************************************************************************)
EXTENDS Archive, FiniteSetTheorems, WellFoundedInduction, TLAPS

-----------------------------------------------------------------------------
(* The inductive invariant. *)

Storing == archiver.at \in {"link", "describe"}

\* What upstream serves, and what is being stored, is too young to be thinned; what is
\* thinned is older than the cutoff.
AgesApart ==
  /\ \A k \in Kinds : upstream[k].stamp # NoHeader => now <= upstream[k].stamp + Keep
  /\ Storing => now <= archiver.stamp + Keep
  /\ prune.at # "idle" => prune.cutoff + Keep <= now
  /\ \A t \in prune.todo : t < prune.cutoff
  /\ prune.at \in {"idle", "list"} => prune.todo = {}

\* Half a snapshot is a payload that is being described, or a sidecar that was being
\* thinned.
Halves ==
  /\ Storing => archiver.body \in Bodies
  /\ archiver.at = "describe" =>
       /\ payload[Slot] = archiver.body
       /\ sidecar[Slot] = Nothing
  /\ prune.at = "sidecar" => \A t \in Times : Oldest(t) => payload[<<Thinned, t>>] = Nothing
  /\ \A s \in Slots : sidecar[s] # Nothing /\ payload[s] = Nothing => s[2] + Keep < now

\* At or before a listed snapshot one of the same day can be read.
EarlierReads(k, t) == \E u \in 0..t : DayOf(u) = DayOf(t) /\ Readable(k, u)

\* No thinning takes the last one that can be read.
DaysRead ==
  /\ \A k \in Kinds : \A t \in Listed(k) : EarlierReads(k, t)
  /\ \A t \in prune.todo :
       \E u \in 0..t : u \notin prune.todo /\ DayOf(u) = DayOf(t) /\ Readable(Thinned, u)

\* What is stored, or about to be, was published no later than what upstream serves, and
\* is dated at most Grace after the clock and after what upstream serves.
Dated(k, body, t) ==
  /\ body <= upstream[k].body
  /\ t <= now + Grace
  /\ upstream[k].stamp # NoHeader => t <= upstream[k].stamp + Grace

Dates ==
  /\ \A k \in Kinds : \A t \in Listed(k) : Dated(k, sidecar[<<k, t>>], t)
  /\ Storing =>
       /\ Dated(Asked, archiver.body, archiver.stamp)
       /\ \A t \in Listed(Asked) :
            /\ sidecar[<<Asked, t>>] <= archiver.body
            /\ sidecar[<<Asked, t>>] < archiver.body => t <= archiver.stamp + Grace

IInv ==
  /\ TypeOK /\ AgesApart /\ Halves /\ ListedReadBack
  /\ DaysRead /\ ThinnedDayStays
  /\ Dates /\ ShadowIsShort

-----------------------------------------------------------------------------
(* Types. *)

\* The constants as the provers need them.
LEMMA Constants ==
  /\ Grace \in Nat /\ Day \in Nat /\ Keep \in Nat /\ MaxNow \in Nat /\ Horizon \in Nat
  /\ MaxVersions \in Nat /\ MaxFaults \in Nat
  /\ MaxVersions > 0 /\ MaxNow <= Horizon
  /\ Len(Feeds) \in Nat /\ Len(Feeds) > 0 /\ DOMAIN Feeds = 1..Len(Feeds)
  /\ \A i \in DOMAIN Feeds : Feeds[i] \in Kinds
  /\ \A a \in Ahead : a \in Nat /\ a <= Horizon /\ \A n \in 0..MaxNow : n + a \in Times
  /\ NoHeader \notin Nat /\ Nothing \notin Nat
  /\ 0 \in Times /\ 1 \in DOMAIN Feeds
<1>1. Feeds \in Seq(Kinds) /\ Feeds # <<>>
  BY FeedsAssumption
<1>2. /\ Grace \in Nat /\ Day \in Nat /\ Keep \in Nat /\ MaxNow \in Nat /\ Horizon \in Nat
      /\ MaxVersions \in Nat /\ MaxFaults \in Nat
      /\ MaxVersions > 0 /\ MaxNow <= Horizon
  BY BoundsAssumption
<1>3. \A a \in Ahead : a \in Nat /\ a <= Horizon /\ \A n \in 0..MaxNow : n + a \in Times
  BY <1>2, AheadAssumption DEF Times
<1>4. Len(Feeds) \in Nat /\ Len(Feeds) > 0 /\ DOMAIN Feeds = 1..Len(Feeds)
  BY <1>1
<1>5. \A i \in DOMAIN Feeds : Feeds[i] \in Kinds
  BY <1>1
<1>6. 0 \in Times /\ 1 \in DOMAIN Feeds
  BY <1>2, <1>4 DEF Times
<1> QED
  BY <1>2, <1>3, <1>4, <1>5, <1>6, NothingAssumption

\* The feed that is asked and the feed that is thinned are feeds, and what is stored has
\* a slot.
LEMMA FeedsInHand ==
  ASSUME TypeOK
  PROVE  /\ Asked \in Kinds /\ Thinned \in Kinds
         /\ Slot \in Slots
         /\ \A t \in Times : <<Thinned, t>> \in Slots
BY Constants DEF TypeOK, Asked, Slot, Thinned, Slots

\* Where a pass goes after a feed is a place in it.
LEMMA OnwardType ==
  ASSUME TypeOK, Onward
  PROVE  /\ archiver' \in [at : {"ask", "save"}, feed : DOMAIN Feeds,
                           body : Bodies \union {Nothing}, stamp : Times]
         /\ archiver'.at \in {"ask", "save"}
<1>1. archiver.feed \in DOMAIN Feeds
  BY DEF TypeOK
<1>2. CASE archiver.feed < Len(Feeds)
  <2>1. archiver.feed + 1 \in DOMAIN Feeds
    BY <1>1, <1>2, Constants
  <2> QED
    BY <1>2, <2>1, Constants DEF Onward, Resting
<1>3. CASE ~ (archiver.feed < Len(Feeds))
  BY <1>3, Constants DEF Onward, Resting
<1> QED
  BY <1>2, <1>3

\* The initial state has the types.
LEMMA InitType == Init => TypeOK
<1> SUFFICES ASSUME Init
             PROVE  TypeOK
  OBVIOUS
<1>1. upstream \in [Kinds -> [body : Bodies, stamp : Times \union {NoHeader}]]
  BY Constants DEF Init, Bodies, Times
<1>2. /\ payload \in [Slots -> Bodies \union {Nothing}]
      /\ sidecar \in [Slots -> Bodies \union {Nothing}]
      /\ held \in [Kinds -> Bodies \union {Nothing}]
      /\ saved \in [Kinds -> Bodies \union {Nothing}]
  BY DEF Init
<1>4. archiver \in [at : {"idle", "ask", "link", "describe", "save"},
                    feed : DOMAIN Feeds, body : Bodies \union {Nothing}, stamp : Times]
  BY Constants DEF Init, Resting, Times
<1>5. prune \in [at : {"idle", "list", "payload", "sidecar"}, feed : DOMAIN Feeds,
                 cutoff : Times, todo : SUBSET Times]
  BY Constants DEF Init, Waiting, Times
<1> QED
  BY <1>1, <1>2, <1>4, <1>5, Constants DEF Init, TypeOK

\* Every step keeps the types.
LEMMA TypeStep == TypeOK /\ [Next]_vars => TypeOK'
<1> SUFFICES ASSUME TypeOK, [Next]_vars
             PROVE  TypeOK'
  OBVIOUS
<1> USE Constants, FeedsInHand
<1>1. CASE Tick
  BY <1>1 DEF Tick, Within, TypeOK, files, validators, history
<1>2. ASSUME NEW k \in Kinds, NEW stamp \in Times \union {NoHeader}, Replace(k, stamp)
      PROVE  TypeOK'
  <2>1. upstream' \in [Kinds -> [body : Bodies, stamp : Times \union {NoHeader}]]
    BY <1>2 DEF Replace, TypeOK, Bodies
  <2> QED
    BY <1>2, <2>1 DEF Replace, TypeOK, files, validators
<1>3. ASSUME NEW k \in Kinds, Publish(k) \/ Amend(k)
      PROVE  TypeOK'
  <2>1. upstream[k].stamp \in Times \union {NoHeader} /\ now \in 0..MaxNow
    BY DEF TypeOK
  <2> QED
    BY <1>2, <1>3, <2>1 DEF Publish, Amend
<1>4. CASE Poll
  BY <1>4 DEF Poll, Resting, TypeOK, files, validators, history, Times
<1>5. CASE NotModified
  BY <1>5, OnwardType DEF NotModified, TypeOK, files, validators, history
<1>6. CASE FetchFails
  BY <1>6, OnwardType DEF FetchFails, Fault, TypeOK, files, validators, history
<1>7. CASE Backoff
  <2>1. quietUntil' \in 0..MaxNow
    BY <1>7, WaitsAssumption DEF Backoff, Within, TypeOK
  <2> QED
    BY <1>7, <2>1, OnwardType DEF Backoff, Fault, TypeOK, files, validators, history
<1>8. CASE Download
  <2>1. upstream[Asked].body \in Bodies /\ SnapshotTime(upstream[Asked].stamp) \in Times
    BY DEF TypeOK, SnapshotTime, Times
  <2> QED
    BY <1>8, <2>1 DEF Download, TypeOK, files, validators, history
<1>9. CASE Link
  BY <1>9 DEF Link, TypeOK, validators, history
<1>10. CASE Collides
  <2>1. again' \in [Kinds -> 0..2]
    BY <1>10 DEF Collides, TypeOK
  <2> QED
    BY <1>10, <2>1, OnwardType DEF Collides, TypeOK, files, validators
<1>11. CASE Describe
  BY <1>11, OnwardType DEF Describe, TypeOK, history
<1>12. CASE DescribeFails
  BY <1>12, OnwardType DEF DescribeFails, Fault, TypeOK, validators, history
<1>13. CASE Save
  BY <1>13 DEF Save, Fault, Resting, Times, TypeOK, files, history
<1>14. CASE StartPrune
  BY <1>14 DEF StartPrune, Times, TypeOK, files, validators, history
<1>15. CASE List
  BY <1>15 DEF List, Doomed, Listed, TypeOK, files, validators, history
<1>16. ASSUME NEW t \in Times, RemovePayload(t)
       PROVE  TypeOK'
  BY <1>16 DEF RemovePayload, TypeOK, validators, history
<1>17. ASSUME NEW t \in Times, RemoveSidecar(t)
       PROVE  TypeOK'
  BY <1>17 DEF RemoveSidecar, TypeOK, validators, history
<1>18. CASE PruneFails
  BY <1>18 DEF PruneFails, Fault, Waiting, Times, TypeOK, files, validators, history
<1>19. CASE EndFeed
  <2>1. settled' \subseteq Slots
    BY <1>19 DEF EndFeed, TypeOK
  <2>2. prune.feed \in DOMAIN Feeds
    BY DEF TypeOK
  <2>3. prune.feed < Len(Feeds) => prune.feed + 1 \in DOMAIN Feeds
    BY <2>2
  <2>4. prune' \in [at : {"idle", "list", "payload", "sidecar"}, feed : DOMAIN Feeds,
                    cutoff : Times, todo : SUBSET Times]
    BY <1>19, <2>3 DEF EndFeed, Waiting, TypeOK
  <2> QED
    BY <1>19, <2>1, <2>4 DEF EndFeed, TypeOK, files, validators
<1>20. CASE Restart
  BY <1>20 DEF Restart, Fault, Resting, Waiting, Times, TypeOK, files
<1>21. CASE UNCHANGED vars
  BY <1>21 DEF vars, files, validators, history, TypeOK
<1> QED
  BY <1>1, <1>3, <1>4, <1>5, <1>6, <1>7, <1>8, <1>9, <1>10, <1>11, <1>12, <1>13, <1>14,
     <1>15, <1>16, <1>17, <1>18, <1>19, <1>20, <1>21
  DEF Next, Pass, Thin

-----------------------------------------------------------------------------
(* Who moves what. *)

\* Only the clock moves the clock, and never while something is being stored.
LEMMA ClockSteps == [Next]_vars => now' = now \/ Tick
BY DEF Next, Pass, Thin, vars, Publish, Amend, Replace, Poll, NotModified, FetchFails,
   Backoff, Download, Link, Collides, Describe, DescribeFails, Save, StartPrune, List,
   RemovePayload, RemoveSidecar, PruneFails, EndFeed, Restart

\* Only upstream replaces what upstream serves.
LEMMA UpstreamSteps ==
  [Next]_vars => upstream' = upstream \/ \E k \in Kinds : Publish(k) \/ Amend(k)
BY DEF Next, Pass, Thin, vars, Tick, Poll, NotModified, FetchFails,
   Backoff, Download, Link, Collides, Describe, DescribeFails, Save, StartPrune, List,
   RemovePayload, RemoveSidecar, PruneFails, EndFeed, Restart

\* Files are linked, described and removed, and nothing else happens to them.
LEMMA FileSteps ==
  [Next]_vars => \/ UNCHANGED files
                 \/ Link \/ Describe \/ DescribeFails
                 \/ \E t \in Times : RemovePayload(t) \/ RemoveSidecar(t)
BY DEF Next, Pass, Thin, vars, Tick, Publish, Amend, Replace, Poll, NotModified, FetchFails,
   Backoff, Download, Collides, Save, StartPrune, List, PruneFails, EndFeed, Restart

\* Something is being stored after a download, and until it has a sidecar.
LEMMA ArchiverSteps ==
  TypeOK /\ [Next]_vars => archiver' = archiver \/ Download \/ Link \/ ~ Storing'
<1> SUFFICES ASSUME TypeOK, [Next]_vars
             PROVE  archiver' = archiver \/ Download \/ Link \/ ~ Storing'
  OBVIOUS
<1>1. CASE Onward
  BY <1>1, OnwardType DEF Storing
<1>2. CASE Poll \/ Save \/ Restart
  BY <1>2 DEF Poll, Save, Restart, Resting, Storing
<1> QED
  BY <1>1, <1>2
  DEF Next, Pass, Thin, vars, Tick, Publish, Amend, Replace, NotModified, FetchFails,
      Backoff, Collides, Describe, DescribeFails, StartPrune, List, RemovePayload,
      RemoveSidecar, PruneFails, EndFeed

\* A thinning starts, lists, removes, goes on to the next feed and ends.
LEMMA PruneSteps ==
  [Next]_vars => \/ prune' = prune \/ prune' = Waiting
                 \/ StartPrune \/ List \/ EndFeed
                 \/ \E t \in Times : RemovePayload(t) \/ RemoveSidecar(t)
BY DEF Next, Pass, Thin, vars, Tick, Publish, Amend, Replace, Poll, NotModified, FetchFails,
   Backoff, Download, Link, Collides, Describe, DescribeFails, Save, PruneFails, Restart

\* A removal stays within the listing and the cutoff of its thinning.
LEMMA RemovalSteps ==
  ASSUME TypeOK, NEW t \in Times, RemovePayload(t) \/ RemoveSidecar(t)
  PROVE  /\ prune.at # "idle" /\ prune'.at \in {"payload", "sidecar"}
         /\ prune'.cutoff = prune.cutoff /\ prune'.todo \subseteq prune.todo
         /\ prune'.feed = prune.feed /\ now' = now
<1>1. CASE RemovePayload(t)
  <2>1. prune.at = "payload" /\ prune' = [prune EXCEPT !.at = "sidecar"] /\ now' = now
    BY <1>1 DEF RemovePayload
  <2> QED
    BY <2>1 DEF TypeOK
<1>2. CASE RemoveSidecar(t)
  <2>1. /\ prune.at = "sidecar" /\ now' = now
        /\ prune' = [prune EXCEPT !.at = "payload", !.todo = prune.todo \ {t}]
    BY <1>2 DEF RemoveSidecar
  <2> QED
    BY <2>1 DEF TypeOK
<1> QED
  BY <1>1, <1>2

-----------------------------------------------------------------------------
(* Ages. *)

\* What a download is filed under is not older than what may be thinned.
LEMMA DownloadAge ==
  ASSUME TypeOK, AgesApart, Download
  PROVE  /\ archiver'.stamp \in Times /\ now <= archiver'.stamp + Keep
         /\ archiver'.stamp <= now + Grace
         /\ archiver'.body = upstream[Asked].body /\ archiver'.feed = archiver.feed
         /\ upstream[Asked].stamp # NoHeader => archiver'.stamp <= upstream[Asked].stamp
         /\ \/ archiver'.stamp = now
            \/ upstream[Asked].stamp # NoHeader /\ archiver'.stamp = upstream[Asked].stamp
<1>1. /\ archiver'.stamp = SnapshotTime(upstream[Asked].stamp)
      /\ archiver'.body = upstream[Asked].body /\ archiver'.feed = archiver.feed
  BY DEF Download, TypeOK
<1>2. /\ upstream[Asked].stamp \in Times \union {NoHeader} /\ now \in Times
      /\ Grace \in Nat /\ Keep \in Nat
      /\ upstream[Asked].stamp # NoHeader => now <= upstream[Asked].stamp + Keep
  BY Constants, FeedsInHand DEF TypeOK, AgesApart, Times
<1> QED
  BY <1>1, <1>2 DEF SnapshotTime, Times

\* What is served and stored stays younger than what is thinned.
LEMMA AgesStep == TypeOK /\ AgesApart /\ [Next]_vars => AgesApart'
<1> SUFFICES ASSUME TypeOK, AgesApart, [Next]_vars
             PROVE  AgesApart'
  OBVIOUS
<1> USE Constants
<1>1. TypeOK'
  BY TypeStep
<1>2. ASSUME NEW k \in Kinds, upstream'[k].stamp # NoHeader
      PROVE  now' <= upstream'[k].stamp + Keep
  <2>1. CASE Tick
    BY <1>2, <2>1 DEF Tick, Within
  <2>2. CASE now' = now /\ upstream' = upstream
    BY <1>2, <2>2 DEF AgesApart
  <2>3. ASSUME NEW j \in Kinds, NEW stamp, Replace(j, stamp),
               stamp # NoHeader => stamp \in Nat /\ now <= stamp + Keep
        PROVE  now' <= upstream'[k].stamp + Keep
    BY <1>2, <2>3 DEF Replace, AgesApart, TypeOK
  <2>4. ASSUME NEW j \in Kinds, Publish(j) \/ Amend(j)
        PROVE  now' <= upstream'[k].stamp + Keep
    <3>1. CASE Amend(j)
      BY <2>3, <3>1 DEF Amend, AgesApart, TypeOK, Times
    <3>2. CASE Publish(j)
      <4>1. PICK stamp \in {now + a : a \in Ahead} \union {NoHeader} : Replace(j, stamp)
        BY <3>2 DEF Publish
      <4>2. stamp # NoHeader => stamp \in Nat /\ now <= stamp + Keep
        BY <4>1 DEF TypeOK
      <4> QED
        BY <4>1, <4>2, <2>3
    <3> QED
      BY <2>4, <3>1, <3>2
  <2> QED
    BY <2>1, <2>2, <2>4, ClockSteps, UpstreamSteps DEF Tick, Publish, Amend, Replace
<1>3. Storing' => now' <= archiver'.stamp + Keep
  <2>1. CASE archiver' = archiver
    BY <2>1, ClockSteps DEF Tick, AgesApart, Storing
  <2>2. CASE Download
    BY <2>2, DownloadAge DEF Download
  <2>3. CASE Link
    BY <2>3 DEF Link, AgesApart, Storing, TypeOK
  <2> QED
    BY <2>1, <2>2, <2>3, ArchiverSteps
<1>4. /\ prune'.at # "idle" => prune'.cutoff + Keep <= now'
      /\ \A t \in prune'.todo : t < prune'.cutoff
      /\ prune'.at \in {"idle", "list"} => prune'.todo = {}
  <2>1. CASE prune' = prune
    BY <2>1, <1>1, ClockSteps DEF Tick, AgesApart, TypeOK, Times
  <2>2. CASE prune' = Waiting
    BY <2>2 DEF Waiting
  <2>3. CASE StartPrune
    BY <2>3 DEF StartPrune, TypeOK
  <2>4. CASE List
    BY <2>4 DEF List, Doomed, AgesApart, TypeOK
  <2>5. CASE EndFeed
    BY <2>5 DEF EndFeed, Waiting, AgesApart, TypeOK
  <2>6. CASE \E t \in Times : RemovePayload(t) \/ RemoveSidecar(t)
    BY <2>6, RemovalSteps DEF AgesApart
  <2> QED
    BY <2>1, <2>2, <2>3, <2>4, <2>5, <2>6, PruneSteps
<1> QED
  BY <1>2, <1>3, <1>4 DEF AgesApart

-----------------------------------------------------------------------------
(* Halves of snapshots. *)

\* A body is a number, and so something.
LEMMA BodiesAreSomething == \A b \in Bodies : b \in Nat /\ b # Nothing
BY Constants DEF Bodies

\* What is being stored is stored beside what is being thinned, and under a name without
\* a sidecar if there is no payload.
LEMMA StoredIsFresh ==
  ASSUME TypeOK, AgesApart, Halves
  PROVE  /\ \A t \in prune.todo : prune.at # "idle" /\ t + Keep < now
         /\ Storing => /\ \A t \in prune.todo : <<Thinned, t>> # Slot
                       /\ payload[Slot] = Nothing => sidecar[Slot] = Nothing
<1>1. \A t \in prune.todo : prune.at # "idle" /\ t + Keep < now
  BY Constants DEF TypeOK, AgesApart, Times
<1>2. ASSUME Storing
      PROVE  Slot[2] \in Nat /\ now <= Slot[2] + Keep
  BY <1>2 DEF AgesApart, Slot, TypeOK, Times
<1>3. now \in Nat /\ Keep \in Nat /\ prune.todo \subseteq Nat
  BY Constants DEF TypeOK, Times
<1>4. ASSUME Storing, NEW t \in prune.todo
      PROVE  <<Thinned, t>> # Slot
  BY <1>1, <1>2, <1>3, <1>4
<1>5. ASSUME Storing, payload[Slot] = Nothing
      PROVE  sidecar[Slot] = Nothing
  BY <1>2, <1>3, <1>5, FeedsInHand DEF Halves
<1> QED
  BY <1>1, <1>4, <1>5

\* What each step that touches files does to them.
LEMMA FileEffects ==
  ASSUME TypeOK, AgesApart, Halves, [Next]_vars, NEW s \in Slots
  PROVE  \/ payload'[s] = payload[s] /\ sidecar'[s] = sidecar[s]
         \/ /\ Link /\ s = Slot
            /\ payload[s] = Nothing /\ payload'[s] = archiver.body
            /\ sidecar[s] = Nothing /\ sidecar'[s] = Nothing
         \/ /\ Describe /\ s = Slot
            /\ payload'[s] = archiver.body /\ sidecar'[s] = archiver.body
            /\ sidecar[s] = Nothing
         \/ /\ DescribeFails /\ s = Slot /\ sidecar[s] = Nothing
            /\ payload'[s] \in {Nothing, archiver.body} /\ sidecar'[s] = Nothing
         \/ \E t \in Times : /\ RemovePayload(t) /\ s = <<Thinned, t>>
                             /\ payload'[s] = Nothing /\ sidecar'[s] = sidecar[s]
         \/ \E t \in Times : /\ RemoveSidecar(t) /\ s = <<Thinned, t>>
                             /\ payload'[s] = payload[s] /\ sidecar'[s] = Nothing
<1> USE FeedsInHand
<1>1. CASE UNCHANGED files
  BY <1>1 DEF files
<1>2. CASE Link
  <2>1. Storing /\ sidecar[Slot] = Nothing
    BY <1>2, StoredIsFresh DEF Link, Storing
  <2> QED
    BY <1>2, <2>1 DEF Link, TypeOK
<1>3. CASE Describe
  BY <1>3 DEF Describe, Halves, TypeOK
<1>4. CASE DescribeFails
  BY <1>4 DEF DescribeFails, Halves, TypeOK
<1>5. ASSUME NEW t \in Times, RemovePayload(t)
      PROVE  \/ payload'[s] = payload[s] /\ sidecar'[s] = sidecar[s]
             \/ /\ s = <<Thinned, t>>
                /\ payload'[s] = Nothing /\ sidecar'[s] = sidecar[s]
  BY <1>5 DEF RemovePayload, TypeOK
<1>6. ASSUME NEW t \in Times, RemoveSidecar(t)
      PROVE  \/ payload'[s] = payload[s] /\ sidecar'[s] = sidecar[s]
             \/ /\ s = <<Thinned, t>>
                /\ payload'[s] = payload[s] /\ sidecar'[s] = Nothing
  BY <1>6 DEF RemoveSidecar, TypeOK
<1> QED
  BY <1>1, <1>2, <1>3, <1>4, <1>5, <1>6, FileSteps

\* Halves stay what they are.
LEMMA HalvesStep == TypeOK /\ AgesApart /\ Halves /\ [Next]_vars => Halves'
<1> SUFFICES ASSUME TypeOK, AgesApart, Halves, [Next]_vars
             PROVE  Halves'
  OBVIOUS
<1>1. TypeOK'
  BY TypeStep
<1>2. Storing' => archiver'.body \in Bodies
  <2>1. CASE Download
    BY <2>1, DownloadAge, FeedsInHand DEF TypeOK
  <2>2. CASE Link
    BY <2>2 DEF Link, Halves, Storing, TypeOK
  <2> QED
    BY <2>1, <2>2, ArchiverSteps DEF Halves, Storing
<1>3. ASSUME archiver'.at = "describe"
      PROVE  payload'[Slot'] = archiver'.body /\ sidecar'[Slot'] = Nothing
  <2>1. CASE archiver' = archiver
    <3>1. Slot' = Slot /\ Storing /\ archiver.at = "describe"
      BY <1>3, <2>1 DEF Slot, Asked, Storing
    <3>2. ~ Link /\ ~ Describe /\ ~ DescribeFails
      BY <2>1, <3>1, OnwardType DEF Link, Describe, DescribeFails
    <3>3. \A t \in Times : RemovePayload(t) \/ RemoveSidecar(t) => <<Thinned, t>> # Slot
      BY <3>1, StoredIsFresh DEF RemovePayload, RemoveSidecar, Oldest
    <3> QED
      BY <2>1, <3>1, <3>2, <3>3, FileEffects, FeedsInHand DEF Halves
  <2>2. CASE Download
    BY <1>3, <2>2 DEF Download, TypeOK
  <2>3. CASE Link
    <3>1. /\ Slot' = Slot /\ archiver'.body = archiver.body /\ sidecar' = sidecar
          /\ Storing /\ payload[Slot] = Nothing /\ payload'[Slot] = archiver.body
      BY <2>3, FeedsInHand DEF Link, Slot, Asked, Storing, TypeOK
    <3> QED
      BY <3>1, StoredIsFresh
  <2> QED
    BY <1>3, <2>1, <2>2, <2>3, ArchiverSteps DEF Storing
<1>4. ASSUME prune'.at = "sidecar", NEW t \in Times, Oldest(t)'
      PROVE  payload'[<<Thinned', t>>] = Nothing
  <2>1. CASE prune' = prune
    <3>1. Thinned' = Thinned /\ Oldest(t) /\ payload[<<Thinned, t>>] = Nothing
      BY <1>4, <2>1 DEF Thinned, Oldest, Halves
    <3>2. t \in prune.todo
      BY <3>1 DEF Oldest
    <3>3. ASSUME Link \/ Describe \/ DescribeFails
          PROVE  <<Thinned, t>> # Slot
      BY <3>2, <3>3, StoredIsFresh DEF Link, Describe, DescribeFails, Storing
    <3> QED
      BY <3>1, <3>3, FileEffects, FeedsInHand
  <2>2. ASSUME NEW u \in Times, RemovePayload(u)
        PROVE  payload'[<<Thinned', t>>] = Nothing
    <3>1. prune'.todo = prune.todo /\ Thinned' = Thinned /\ Oldest(u)
      BY <2>2 DEF RemovePayload, Thinned, TypeOK
    <3>2. t = u
      BY <1>4, <3>1 DEF Oldest, Times
    <3> QED
      BY <2>2, <3>1, <3>2, FeedsInHand DEF RemovePayload, TypeOK
  <2>3. CASE \/ prune' = Waiting \/ StartPrune \/ List \/ EndFeed
             \/ \E u \in Times : RemoveSidecar(u)
    <3>1. CASE prune' = Waiting \/ StartPrune
      BY <1>4, <3>1 DEF Waiting, StartPrune
    <3>2. CASE List
      BY <1>4, <3>2 DEF List, TypeOK
    <3>3. CASE EndFeed
      BY <1>4, <3>3 DEF EndFeed, Waiting, TypeOK
    <3>4. ASSUME NEW u \in Times, RemoveSidecar(u)
          PROVE  FALSE
      BY <1>4, <3>4 DEF RemoveSidecar, TypeOK
    <3> QED
      BY <2>3, <3>1, <3>2, <3>3, <3>4
  <2> QED
    BY <2>1, <2>2, <2>3, PruneSteps
<1>5. ASSUME NEW s \in Slots, sidecar'[s] # Nothing, payload'[s] = Nothing
      PROVE  s[2] + Keep < now'
  <2>1. s[2] \in Nat /\ now \in Nat /\ now' \in Nat /\ now <= now' /\ Keep \in Nat
    BY <1>1, ClockSteps, Constants DEF Tick, TypeOK, Slots, Times
  <2>2. CASE payload'[s] = payload[s] /\ sidecar'[s] = sidecar[s]
    BY <1>5, <2>1, <2>2 DEF Halves
  <2>3. Link \/ Describe => archiver.body # Nothing
    BY BodiesAreSomething DEF Link, Describe, Halves, Storing
  <2>4. ASSUME NEW t \in Times, RemovePayload(t), s = <<Thinned, t>>
        PROVE  s[2] + Keep < now'
    BY <2>1, <2>4, StoredIsFresh DEF RemovePayload, Oldest
  <2> QED
    BY <1>5, <2>2, <2>3, <2>4, FileEffects
<1> QED
  BY <1>2, <1>3, <1>4, <1>5 DEF Halves

\* A sidecar and its payload stay of one body.
LEMMA ReadBackStep ==
  TypeOK /\ AgesApart /\ Halves /\ ListedReadBack /\ [Next]_vars => ListedReadBack'
<1> SUFFICES ASSUME TypeOK, AgesApart, Halves, ListedReadBack, [Next]_vars,
                    NEW s \in Slots, sidecar'[s] # Nothing, payload'[s] # Nothing
             PROVE  payload'[s] = sidecar'[s]
  BY DEF ListedReadBack
<1> QED
  BY FileEffects DEF ListedReadBack

-----------------------------------------------------------------------------
(* Days. *)

\* A non-empty set of numbers has a least one.
LEMMA LeastOf ==
  ASSUME NEW S \in SUBSET Nat, S # {}
  PROVE  \E x \in S : \A y \in S : x <= y
<1> DEFINE Below(x) == {y \in S : y <= x}
           Heads == {Below(x) : x \in S}
<1>1. Heads \subseteq FiniteSubsetsOf(S)
  BY FS_BoundedSetOfNaturals DEF FiniteSubsetsOf
<1>2. PICK T \in Heads : \A U \in Heads : <<U, T>> \notin StrictSubsetOrdering(S)
  <2>1. Heads # {}
    OBVIOUS
  <2> HIDE DEF Heads
  <2> QED
    BY <1>1, <2>1, WFMin, FS_StrictSubsetOrderingWellFounded
<1>3. PICK x \in S : T = Below(x)
  BY <1>2
<1>4. ASSUME NEW y \in S, y < x
      PROVE  FALSE
  <2>1. x \in Nat /\ y \in Nat /\ \A z \in S : z <= y => z <= x
    BY <1>4
  <2>2. x \in Below(x) /\ x \notin Below(y)
    BY <1>4
  <2>3. Below(y) \subseteq Below(x) /\ Below(y) # Below(x)
    BY <2>1, <2>2, Zenon
  <2>4. <<Below(y), T>> \in StrictSubsetOrdering(S)
    BY <2>3, <1>3 DEF StrictSubsetOrdering
  <2> QED
    BY <2>4, <1>2
<1>5. \A y \in S : x <= y
  BY <1>4
<1> QED
  BY <1>5

\* What can be read stays so unless a thinning takes its payload.
LEMMA ReadableKept ==
  ASSUME TypeOK, AgesApart, Halves, [Next]_vars,
         NEW k \in Kinds, NEW u \in Times, Readable(k, u),
         k = Thinned => ~ RemovePayload(u)
  PROVE  Readable(k, u)'
<1>1. <<k, u>> \in Slots /\ sidecar[<<k, u>>] # Nothing /\ payload[<<k, u>>] # Nothing
  BY DEF Slots, Readable
<1>2. ASSUME NEW t \in Times, RemoveSidecar(t), <<k, u>> = <<Thinned, t>>
      PROVE  FALSE
  BY <1>1, <1>2 DEF RemoveSidecar, Halves
<1>3. ASSUME NEW t \in Times, RemovePayload(t), <<k, u>> = <<Thinned, t>>
      PROVE  FALSE
  BY <1>3
<1> QED
  BY <1>1, <1>2, <1>3, FileEffects DEF Readable

\* A day keeps one that can be read.
LEMMA EarlierKept ==
  ASSUME TypeOK, AgesApart, Halves, DaysRead, [Next]_vars,
         NEW k \in Kinds, NEW t \in Times, EarlierReads(k, t)
  PROVE  EarlierReads(k, t)'
<1>1. PICK u \in 0..t : DayOf(u) = DayOf(t) /\ Readable(k, u)
  BY DEF EarlierReads
<1>2. u \in Times /\ t \in Nat /\ u \in Nat /\ u <= t
  BY <1>1, Constants DEF Times
<1>3. CASE k = Thinned /\ RemovePayload(u)
  <2>1. u \in prune.todo
    BY <1>3 DEF RemovePayload, Oldest
  <2>2. PICK w \in 0..u : w \notin prune.todo /\ DayOf(w) = DayOf(u) /\ Readable(Thinned, w)
    BY <2>1 DEF DaysRead
  <2>3. w \in Times /\ w \in 0..t /\ ~ RemovePayload(w)
    BY <1>2, <2>2, Constants DEF Times, RemovePayload, Oldest
  <2>4. Readable(k, w)'
    BY <1>3, <2>2, <2>3, ReadableKept
  <2> QED
    BY <1>1, <2>2, <2>3, <2>4 DEF EarlierReads, DayOf
<1>4. CASE ~ (k = Thinned /\ RemovePayload(u))
  BY <1>1, <1>2, <1>4, ReadableKept DEF EarlierReads, DayOf
<1> QED
  BY <1>3, <1>4

\* The first listed snapshot of a day can be read, and no thinning lists it for removal.
LEMMA ListingSpares ==
  ASSUME TypeOK, DaysRead, NEW cutoff, NEW t \in Doomed(Thinned, cutoff)
  PROVE  \E u \in 0..t : /\ u \notin Doomed(Thinned, cutoff)
                         /\ DayOf(u) = DayOf(t) /\ Readable(Thinned, u)
<1> DEFINE S == {x \in Listed(Thinned) : DayOf(x) = DayOf(t)}
<1>1. S \in SUBSET Nat /\ t \in S /\ t \in Nat
  BY DEF Doomed, Listed, Times
<1>2. PICK f \in S : \A y \in S : f <= y
  BY <1>1, LeastOf
<1>3. f \in Nat /\ f <= t /\ f \in Listed(Thinned) /\ DayOf(f) = DayOf(t) /\ f \in Times
  BY <1>1, <1>2 DEF Listed
<1>4. PICK u \in 0..f : DayOf(u) = DayOf(f) /\ Readable(Thinned, u)
  BY <1>3, FeedsInHand DEF DaysRead, EarlierReads
<1>5. u \in S
  BY <1>3, <1>4, Constants DEF Listed, Readable, Times
<1>6. u = f
  BY <1>2, <1>3, <1>4, <1>5
<1>7. f \notin Doomed(Thinned, cutoff)
  <2> SUFFICES ASSUME NEW s \in Listed(Thinned), s < f, DayOf(s) = DayOf(f)
               PROVE  FALSE
    BY DEF Doomed
  <2>1. s \in S
    BY <1>3
  <2> QED
    BY <1>1, <1>2, <1>3, <2>1
<1> QED
  BY <1>3, <1>4, <1>6, <1>7

\* No step takes the last snapshot of a day that can be read.
LEMMA DaysStep ==
  TypeOK /\ AgesApart /\ Halves /\ DaysRead /\ [Next]_vars => DaysRead'
<1> SUFFICES ASSUME TypeOK, AgesApart, Halves, DaysRead, [Next]_vars
             PROVE  DaysRead'
  OBVIOUS
<1>1. ASSUME NEW k \in Kinds, NEW t \in Listed(k)'
      PROVE  EarlierReads(k, t)'
  <2>1. t \in Times /\ <<k, t>> \in Slots /\ sidecar'[<<k, t>>] # Nothing
    BY DEF Listed, Slots
  <2>2. CASE t \in Listed(k)
    BY <2>1, <2>2, EarlierKept DEF DaysRead
  <2>3. CASE sidecar[<<k, t>>] = Nothing
    <3>1. payload'[<<k, t>>] = sidecar'[<<k, t>>]
      BY <2>1, <2>3, FileEffects
    <3>2. Readable(k, t)' /\ t \in 0..t
      BY <2>1, <3>1, Constants DEF Readable, Times
    <3> QED
      BY <3>2 DEF EarlierReads
  <2> QED
    BY <2>1, <2>2, <2>3 DEF Listed
<1>2. ASSUME NEW t \in prune'.todo
      PROVE  \E u \in 0..t : /\ u \notin prune'.todo /\ DayOf(u) = DayOf(t)
                             /\ Readable(Thinned, u)'
  <2>1. ASSUME prune'.todo \subseteq prune.todo, prune'.feed = prune.feed
        PROVE  \E u \in 0..t : /\ u \notin prune'.todo /\ DayOf(u) = DayOf(t)
                               /\ Readable(Thinned, u)'
    <3>1. t \in prune.todo /\ Thinned' = Thinned
      BY <2>1 DEF Thinned
    <3>2. PICK u \in 0..t : /\ u \notin prune.todo /\ DayOf(u) = DayOf(t)
                            /\ Readable(Thinned, u)
      BY <3>1 DEF DaysRead
    <3>3. u \in Times /\ ~ RemovePayload(u)
      <4>1. t \in Times /\ u \in Times
        BY <3>1, <3>2, Constants DEF TypeOK, Times
      <4> QED
        BY <3>2, <4>1 DEF RemovePayload, Oldest
    <3>4. PICK k \in Kinds : k = Thinned
      BY FeedsInHand
    <3>5. Readable(k, u)'
      BY <3>2, <3>3, <3>4, ReadableKept
    <3>6. Readable(Thinned, u)'
      BY <3>1, <3>4, <3>5 DEF Readable
    <3> QED
      BY <2>1, <3>2, <3>6
  <2>2. CASE List
    <3>1. /\ prune'.todo = Doomed(Thinned, prune.cutoff) /\ Thinned' = Thinned
          /\ payload' = payload /\ sidecar' = sidecar
      BY <2>2 DEF List, Thinned, TypeOK, files
    <3> QED
      BY <3>1, ListingSpares DEF Readable
  <2>3. CASE prune' = Waiting \/ StartPrune
    BY <1>2, <2>3 DEF Waiting, StartPrune
  <2>4. CASE EndFeed
    BY <1>2, <2>4 DEF EndFeed, Waiting, TypeOK
  <2> QED
    BY <2>1, <2>2, <2>3, <2>4, PruneSteps, RemovalSteps
<1> QED
  BY <1>1, <1>2 DEF DaysRead, DayOf

\* What a finished thinning kept has its day for good.
LEMMA SettledStep ==
  TypeOK /\ AgesApart /\ Halves /\ DaysRead /\ ThinnedDayStays /\ [Next]_vars
    => ThinnedDayStays'
<1> SUFFICES ASSUME TypeOK, AgesApart, Halves, DaysRead, ThinnedDayStays, [Next]_vars,
                    NEW s \in settled'
             PROVE  \E t \in 0..s[2] : DayOf(t) = DayOf(s[2]) /\ Readable(s[1], t)'
  BY DEF ThinnedDayStays, DayOf
<1>1. s \in Slots /\ s[1] \in Kinds /\ s[2] \in Times
  BY TypeStep DEF TypeOK, Slots
<1>2. CASE s \in settled
  <2>1. EarlierReads(s[1], s[2])
    BY <1>2 DEF ThinnedDayStays, EarlierReads
  <2> QED
    BY <1>1, <2>1, EarlierKept DEF EarlierReads, DayOf
<1>3. CASE EndFeed /\ s \notin settled
  <2>1. Readable(s[1], s[2]) /\ payload' = payload /\ sidecar' = sidecar
    BY <1>3 DEF EndFeed, files
  <2>2. s[2] \in 0..s[2]
    BY <1>1, Constants DEF Times
  <2> QED
    BY <2>1, <2>2 DEF Readable
<1>4. settled' = settled \/ EndFeed
  BY DEF Next, Pass, Thin, vars, history, Tick, Publish, Amend, Replace, Poll, NotModified,
     FetchFails, Backoff, Download, Link, Collides, Describe, DescribeFails, Save,
     StartPrune, List, RemovePayload, RemoveSidecar, PruneFails, Restart
<1> QED
  BY <1>2, <1>3, <1>4

-----------------------------------------------------------------------------
(* Dates. *)

\* A bound that grows stays a bound.
LEMMA StillBounded ==
  ASSUME NEW t \in Nat, NEW n \in Nat, NEW m \in Nat, NEW g \in Nat, n <= m, t <= n + g
  PROVE  t <= m + g
OBVIOUS

\* The date of what was published is bounded for good.
LEMMA DatedKept ==
  ASSUME TypeOK, [Next]_vars, NEW k \in Kinds, NEW body \in Nat, NEW t \in Nat,
         Dated(k, body, t)
  PROVE  Dated(k, body, t)'
<1>1. /\ now \in Nat /\ now' \in Nat /\ now <= now' /\ Grace \in Nat
      /\ upstream[k].body \in Nat /\ upstream[k].stamp \in Nat \union {NoHeader}
  <2>1. now \in Nat /\ Grace \in Nat /\ (Tick => now' = now + 1)
    BY Constants DEF Tick, TypeOK
  <2>2. upstream[k].body \in Nat /\ upstream[k].stamp \in Nat \union {NoHeader}
    BY BodiesAreSomething DEF TypeOK, Times
  <2> QED
    BY <2>1, <2>2, ClockSteps
<1> DEFINE served == upstream[k].stamp
<1>2. body <= upstream[k].body /\ t <= now + Grace /\ (served # NoHeader => t <= served + Grace)
  BY DEF Dated
<1>3. t <= now' + Grace
  <2>1. now \in Nat /\ now' \in Nat /\ now <= now' /\ Grace \in Nat
    BY <1>1
  <2>2. t <= now + Grace
    BY <1>2
  <2> QED
    BY <2>1, <2>2, StillBounded
<1>4. CASE upstream' = upstream
  <2>1. upstream'[k] = upstream[k]
    BY <1>4
  <2> QED
    BY <1>2, <1>3, <2>1 DEF Dated
<1>5. ASSUME NEW j \in Kinds, NEW stamp, Replace(j, stamp),
             stamp # NoHeader /\ stamp # upstream[j].stamp => stamp \in Nat /\ now <= stamp
      PROVE  Dated(k, body, t)'
  <2>1. CASE k = j
    <3>1. /\ upstream'[k].body = upstream[k].body + 1
          /\ upstream'[k].stamp = stamp
      BY <1>5, <2>1 DEF Replace, TypeOK
    <3>2. body <= upstream[k].body + 1
      BY <1>1, <1>2
    <3>3. CASE stamp = served
      BY <1>2, <1>3, <3>1, <3>2, <3>3 DEF Dated
    <3>4. CASE stamp # NoHeader /\ stamp # served
      <4>1. stamp \in Nat /\ now <= stamp
        BY <1>5, <2>1, <3>4
      <4>2. t <= stamp + Grace
        BY <1>1, <1>2, <4>1, StillBounded
      <4> QED
        BY <1>3, <3>1, <3>2, <4>2 DEF Dated
    <3>5. CASE stamp = NoHeader
      BY <1>3, <3>1, <3>2, <3>5 DEF Dated
    <3> QED
      BY <3>3, <3>4, <3>5
  <2>2. CASE k # j
    <3>1. upstream'[k] = upstream[k]
      BY <1>5, <2>2 DEF Replace, TypeOK
    <3> QED
      BY <1>2, <1>3, <3>1 DEF Dated
  <2> QED
    BY <2>1, <2>2
<1>6. ASSUME NEW j \in Kinds, Publish(j)
      PROVE  Dated(k, body, t)'
  <2>1. PICK stamp \in {now + a : a \in Ahead} \union {NoHeader} : Replace(j, stamp)
    BY <1>6 DEF Publish
  <2>2. \A a \in Ahead : now + a \in Nat /\ now <= now + a
    BY <1>1, AheadAssumption
  <2>3. stamp # NoHeader => stamp \in Nat /\ now <= stamp
    BY <2>1, <2>2
  <2> QED
    BY <1>5, <2>1, <2>3
<1>7. ASSUME NEW j \in Kinds, Amend(j)
      PROVE  Dated(k, body, t)'
  <2>1. Replace(j, upstream[j].stamp)
    BY <1>7 DEF Amend
  <2> QED
    BY <1>5, <2>1
<1> QED
  BY <1>4, <1>6, <1>7, UpstreamSteps

\* What is listed after a step was so before, or has just been described.
LEMMA ListedSteps ==
  ASSUME TypeOK, AgesApart, Halves, [Next]_vars, NEW k \in Kinds, NEW t \in Listed(k)'
  PROVE  /\ t \in Times
         /\ \/ t \in Listed(k) /\ sidecar'[<<k, t>>] = sidecar[<<k, t>>]
            \/ Describe /\ k = Asked /\ t = archiver.stamp /\ sidecar'[<<k, t>>] = archiver.body
<1>1. <<k, t>> \in Slots /\ sidecar'[<<k, t>>] # Nothing /\ t \in Times
  BY DEF Listed, Slots
<1> QED
  BY <1>1, FileEffects DEF Listed, Slot

\* The bodies of sidecars are numbers.
LEMMA ListedBodies ==
  ASSUME TypeOK, NEW k \in Kinds, NEW t \in Listed(k)
  PROVE  sidecar[<<k, t>>] \in Bodies /\ sidecar[<<k, t>>] \in Nat /\ t \in Nat
BY BodiesAreSomething DEF Listed, TypeOK, Slots, Times

\* What is stored is dated like what upstream has served.
LEMMA DatesStep ==
  TypeOK /\ AgesApart /\ Halves /\ Dates /\ [Next]_vars => Dates'
<1> SUFFICES ASSUME TypeOK, AgesApart, Halves, Dates, [Next]_vars
             PROVE  Dates'
  OBVIOUS
<1>1. Storing => archiver.body \in Nat /\ archiver.stamp \in Nat /\ Asked \in Kinds
  BY BodiesAreSomething, FeedsInHand DEF Halves, TypeOK, Times
<1>2. ASSUME NEW k \in Kinds, NEW t \in Listed(k)'
      PROVE  Dated(k, sidecar[<<k, t>>], t)'
  <2>1. CASE t \in Listed(k) /\ sidecar'[<<k, t>>] = sidecar[<<k, t>>]
    <3>1. Dated(k, sidecar[<<k, t>>], t) /\ sidecar[<<k, t>>] \in Nat /\ t \in Nat
      BY <2>1, ListedBodies DEF Dates
    <3> QED
      BY <2>1, <3>1, DatedKept DEF Dated
  <2>2. CASE /\ Describe /\ k = Asked /\ t = archiver.stamp
             /\ sidecar'[<<k, t>>] = archiver.body
    <3>1. Storing /\ Dated(Asked, archiver.body, archiver.stamp)
      BY <2>2 DEF Describe, Storing, Dates
    <3>2. Dated(k, archiver.body, archiver.stamp)
      BY <2>2, <3>1
    <3> QED
      BY <1>1, <2>2, <3>1, <3>2, DatedKept DEF Dated, Describe
  <2> QED
    BY <2>1, <2>2, ListedSteps
<1>3. ASSUME Storing'
      PROVE  /\ Dated(Asked, archiver.body, archiver.stamp)'
             /\ \A t \in Listed(Asked)' :
                  /\ sidecar'[<<Asked', t>>] <= archiver'.body
                  /\ sidecar'[<<Asked', t>>] < archiver'.body => t <= archiver'.stamp + Grace
  <2>1. CASE Storing /\ ~ Describe /\ Asked' = Asked /\ archiver'.body = archiver.body
                     /\ archiver'.stamp = archiver.stamp
    <3>1. Dated(Asked, archiver.body, archiver.stamp)'
      BY <1>1, <2>1, DatedKept DEF Dates, Dated
    <3>2. ASSUME NEW t \in Listed(Asked)'
          PROVE  t \in Listed(Asked) /\ sidecar'[<<Asked', t>>] = sidecar[<<Asked, t>>]
      BY <1>1, <2>1, <3>2, ListedSteps
    <3> QED
      BY <2>1, <3>1, <3>2 DEF Dates
  <2>2. CASE Download
    <3>1. Asked' = Asked /\ upstream' = upstream /\ now' = now /\ sidecar' = sidecar
      BY <2>2, DownloadAge DEF Download, Asked, files
    <3>2. Asked \in Kinds /\ now \in Nat /\ Grace \in Nat /\ upstream[Asked].body \in Nat
      BY FeedsInHand, Constants, BodiesAreSomething DEF TypeOK, Times
    <3>3. upstream[Asked].stamp # NoHeader => upstream[Asked].stamp \in Nat
      BY <3>2 DEF TypeOK, Times
    <3>4. archiver'.stamp \in Nat
      BY <2>2, DownloadAge DEF Times
    <3>5. Dated(Asked, archiver.body, archiver.stamp)'
      BY <2>2, <3>1, <3>2, <3>3, <3>4, DownloadAge DEF Dated
    <3>6. ASSUME NEW t \in Listed(Asked)'
          PROVE  /\ sidecar[<<Asked, t>>] <= archiver'.body
                 /\ t <= archiver'.stamp + Grace
      <4>1. t \in Listed(Asked) /\ Dated(Asked, sidecar[<<Asked, t>>], t) /\ t \in Nat
        BY <3>1, <3>2, ListedBodies DEF Listed, Dates
      <4> QED
        BY <2>2, <3>2, <3>3, <3>4, <4>1, DownloadAge DEF Dated
    <3> QED
      BY <3>1, <3>5, <3>6
  <2>3. CASE archiver' = archiver
    <3>1. ~ Describe
      BY <1>3, <2>3, OnwardType DEF Describe, Storing
    <3> QED
      BY <1>3, <2>1, <2>3, <3>1 DEF Storing, Asked
  <2>4. CASE Link
    <3>1. /\ Storing /\ ~ Describe /\ Asked' = Asked
          /\ archiver'.body = archiver.body /\ archiver'.stamp = archiver.stamp
      BY <2>4 DEF Link, Describe, Storing, Asked, TypeOK
    <3> QED
      BY <2>1, <3>1
  <2> QED
    BY <1>3, <2>2, <2>3, <2>4, ArchiverSteps
<1> QED
  BY <1>2, <1>3 DEF Dates

\* An archived publish shadows later ones no longer than the grace.
LEMMA ShadowStep ==
  TypeOK /\ AgesApart /\ Halves /\ Dates /\ ShadowIsShort /\ [Next]_vars => ShadowIsShort'
<1> SUFFICES ASSUME TypeOK, AgesApart, Halves, Dates, ShadowIsShort, [Next]_vars,
                    NEW k \in Kinds, NEW s \in Listed(k)', NEW t \in Listed(k)',
                    sidecar'[<<k, s>>] < sidecar'[<<k, t>>]
             PROVE  s <= t + Grace
  BY DEF ShadowIsShort
<1> DEFINE Old(u) == u \in Listed(k) /\ sidecar'[<<k, u>>] = sidecar[<<k, u>>]
           New(u) == /\ Describe /\ k = Asked /\ u = archiver.stamp
                     /\ sidecar'[<<k, u>>] = archiver.body
<1>1. (Old(s) \/ New(s)) /\ (Old(t) \/ New(t))
  BY ListedSteps
<1>2. CASE Old(s) /\ Old(t)
  BY <1>2 DEF ShadowIsShort
<1>3. CASE Describe /\ k = Asked
  <2>1. archiver.body \in Nat /\ Storing
    BY <1>3, BodiesAreSomething DEF Describe, Halves, Storing
  <2>2. \A u \in Listed(k) : /\ sidecar[<<k, u>>] <= archiver.body
                             /\ sidecar[<<k, u>>] < archiver.body => u <= archiver.stamp + Grace
                             /\ sidecar[<<k, u>>] \in Nat
    BY <1>3, <2>1, ListedBodies DEF Dates
  <2>3. CASE Old(s) /\ New(t)
    BY <2>2, <2>3
  <2>4. CASE New(s)
    BY <1>1, <2>1, <2>2, <2>4
  <2> QED
    BY <1>1, <1>2, <2>3, <2>4
<1> QED
  BY <1>1, <1>2, <1>3

-----------------------------------------------------------------------------
(* The theorems. *)

\* An empty archive satisfies the invariant.
LEMMA InitIInv == Init => IInv
<1> SUFFICES ASSUME Init
             PROVE  IInv
  OBVIOUS
<1>1. TypeOK
  BY InitType
<1>2. \A k \in Kinds : Listed(k) = {}
  BY DEF Init, Listed, Slots
<1>3. ~ Storing /\ prune.todo = {} /\ prune.at = "idle" /\ now = 0 /\ settled = {}
  BY DEF Init, Storing, Resting, Waiting
<1>4. AgesApart
  <2>1. \A k \in Kinds : upstream[k].stamp # NoHeader => upstream[k].stamp \in Nat
    BY <1>1 DEF TypeOK, Times
  <2> QED
    BY <1>3, <2>1, Constants DEF AgesApart
<1>5. Halves
  BY <1>3 DEF Halves, Init, Storing
<1>6. ListedReadBack /\ ShadowIsShort /\ ThinnedDayStays
  BY <1>2, <1>3 DEF ListedReadBack, ShadowIsShort, ThinnedDayStays, Init
<1>7. DaysRead /\ Dates
  BY <1>2, <1>3 DEF DaysRead, Dates
<1> QED
  BY <1>1, <1>4, <1>5, <1>6, <1>7 DEF IInv

\* The invariant holds throughout.
THEOREM Invariance == Spec => []IInv
<1>1. IInv /\ [Next]_vars => IInv'
  BY TypeStep, AgesStep, HalvesStep, ReadBackStep, DaysStep, SettledStep, DatesStep,
     ShadowStep
  DEF IInv
<1> QED
  BY InitIInv, <1>1, PTL DEF Spec

\* Every variable keeps its type (archive.go:31-45, state.go:14-18).
THEOREM TypeCorrect == Spec => []TypeOK
<1>1. IInv => TypeOK
  BY DEF IInv
<1> QED
  BY Invariance, <1>1, PTL

\* Whoever stores, amends, thins, fails and restarts, in whatever order: a sidecar
\* describes the payload beside it (archive.go:111-128).
THEOREM Authentic == Spec => []ListedReadBack
<1>1. IInv => ListedReadBack
  BY DEF IInv
<1> QED
  BY Invariance, <1>1, PTL

\* No publish is stamped more than the grace after a later one (fetch.go:202-223).
THEOREM ShortShadow == Spec => []ShadowIsShort
<1>1. IInv => ShadowIsShort
  BY DEF IInv
<1> QED
  BY Invariance, <1>1, PTL

\* A day that was thinned keeps a snapshot that reads (prune.go:58-107).
THEOREM DaysAreKept == Spec => []ThinnedDayStays
<1>1. IInv => ThinnedDayStays
  BY DEF IInv
<1> QED
  BY Invariance, <1>1, PTL

\* An archived payload is never replaced (archive.go:66-70 and 111).
THEOREM NeverOverwritten == Spec => SnapshotsAreKept
<1>1. ASSUME IInv, [Next]_vars, NEW s \in Slots, payload[s] # Nothing
      PROVE  payload'[s] \in {payload[s], Nothing}
  <2>1. TypeOK /\ AgesApart /\ Halves
    BY <1>1 DEF IInv
  <2>2. Describe => payload' = payload
    BY DEF Describe
  <2>3. DescribeFails => payload[Slot] = archiver.body
    BY <2>1 DEF DescribeFails, Halves
  <2> QED
    BY <1>1, <2>1, <2>2, <2>3, FileEffects
<1>2. IInv /\ [Next]_vars =>
        [\A s \in Slots : payload[s] # Nothing => payload'[s] \in {payload[s], Nothing}]_vars
  BY <1>1
<1> QED
  BY Invariance, <1>2, PTL DEF Spec, SnapshotsAreKept
=============================================================================
