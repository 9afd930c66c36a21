------------------------------- MODULE Alerts -------------------------------
(***************************************************************************)
(* The alerts of the bot: the rules (internal/bot/alerts.go), the watcher  *)
(* that evaluates them once for each publish (watch.go), the commands that *)
(* add, remove and test them (alertcmd.go), and the client's cache that    *)
(* all of them read through (api.go).                                      *)
(*                                                                         *)
(* All alerts here are about one target and one channel.  Times are kept   *)
(* as ages: hours of silence, and whether the last summary was today's.    *)
(* The hour does not turn within a pass of the watcher, which takes        *)
(* seconds; a publish may come at any moment of it.                        *)
(***************************************************************************)
EXTENDS Naturals, FiniteSets

CONSTANTS
  Alerts,         \* the alerts that are ever added, each by its id
  Nothing,
  Readings,       \* what the service may answer about the target
  IdleHours,      \* threshold of an idle alert
  DailyHour,      \* threshold of a daily alert
  DayHours,       \* hours of a day
  MaxLevel,       \* bound: milestones
  MaxPerChannel,
  MaxFaults       \* bound: crashes, and calls and writes that fail

Types == {"milestone", "rank", "idle", "resumed", "daily"}

ASSUME AlertsAssumption ==
  /\ Readings \subseteq
       [rank : {"none", "in", "out"}, level : 0..MaxLevel, producing : BOOLEAN]
  /\ Nothing \notin Readings
  /\ IdleHours \in Nat \ {0} /\ DayHours \in Nat \ {0} /\ DailyHour \in 0..(DayHours - 1)
  /\ {MaxLevel, MaxPerChannel, MaxFaults} \subseteq Nat

VARIABLES
  type,       \* what each alert is for
  hour,       \* of the day
  world,      \* the target in the latest snapshot, Nothing when it has none
  cache,      \* Client.cache: the answer about the target
  cacheOld,   \* Client.at is before the latest snapshot
  fresh,      \* the latest snapshot is after the watcher's last
  run,        \* the watcher: [at, todo, reading]
  stored,     \* Alerts.m
  obj,        \* the alerts themselves: [seen, failures]
  adding,     \* seeded and announced, not yet added
  used,       \* the ids that were given out
  disk,       \* the file: [Alerts -> alert or Nothing]
  cleared,    \* history: the condition was off since the last message
  top,        \* history: the highest milestone announced or seeded
  row,        \* history: failed deliveries since the last one that arrived
  struck,     \* history: alerts that were given up without a refusal
  unsaved,    \* history: delivered, and not written since
  excused,    \* history: a crash lost that something was delivered
  faults      \* bound: faults so far

book == <<stored, obj, adding, used, disk>>
client == <<cache, cacheOld>>
history == <<cleared, top, row, struck, unsaved, excused>>
vars == <<type, hour, world, client, fresh, run, book, history, faults>>

Unseen == [armed |-> FALSE, level |-> 0, producing |-> FALSE, quiet |-> Nothing,
           today |-> FALSE]
Asleep == [at |-> "start", todo |-> {}, reading |-> Nothing]

(***************************************************************************)
(* The rules.                                                              *)
(***************************************************************************)

\* mutant: an alert that is not seeded
NotSeeded(t, e) == Unseen

\* seed; what the rule of the type never reads is left as it is in Unseen
Seeded(t, e) ==
  [armed |-> CASE t = "rank" -> e.rank # "in"
               [] t = "idle" -> e.producing
               [] t = "resumed" -> ~e.producing
               [] OTHER -> FALSE,
   level |-> IF t = "milestone" THEN e.level ELSE 0,
   producing |-> t = "resumed" /\ e.producing,
   quiet |-> IF t = "idle" /\ ~e.producing THEN 0 ELSE Nothing,
   today |-> FALSE]

\* how long the target has been silent, this snapshot being the first at which
\* it is unless one before it was
Quiet(s) == IF s.quiet = Nothing THEN 0 ELSE s.quiet

\* evaluate: whether an alert that saw s speaks
Fires(t, s, e) ==
  CASE t = "milestone" -> e.level > s.level
    [] t = "rank"      -> e.rank = "in" /\ s.armed
    [] t = "idle"      -> ~e.producing /\ s.armed /\ Quiet(s) >= IdleHours
    [] t = "resumed"   -> e.producing /\ s.armed /\ ~s.producing
    [] t = "daily"     -> hour >= DailyHour /\ ~s.today

\* evaluate: what it has seen from then on
Seen(t, s, e) ==
  CASE t = "milestone" -> [s EXCEPT !.level = IF Fires(t, s, e) THEN e.level ELSE @]
    [] t = "rank"      -> [s EXCEPT !.armed = e.rank # "in" /\ (@ \/ e.rank = "out")]
    [] t = "idle"      ->
         [s EXCEPT !.armed = e.producing \/ (@ /\ ~Fires(t, s, e)),
                   !.quiet = IF e.producing THEN Nothing ELSE Quiet(s)]
    [] t = "resumed"   -> [s EXCEPT !.producing = e.producing, !.armed = ~e.producing]
    [] t = "daily"     -> [s EXCEPT !.today = @ \/ Fires(t, s, e)]

(***************************************************************************)
(* The service, and the clock.                                             *)
(***************************************************************************)

\* the condition of an alert does not hold of a reading
Off(t, e) ==
  e # Nothing /\ CASE t = "rank"    -> e.rank = "out"
                   [] t = "idle"    -> e.producing
                   [] t = "resumed" -> ~e.producing
                   [] OTHER         -> FALSE

Publish ==
  /\ world' \in Readings \union {Nothing}
  /\ fresh' = TRUE /\ cacheOld' = TRUE
  /\ cleared' = [a \in Alerts |-> cleared[a] \/ Off(type[a], world')]
  /\ UNCHANGED <<type, hour, cache, run, book, top, row, struck, unsaved, excused, faults>>

Aged(s) ==
  [s EXCEPT !.quiet = IF @ \in 0..(IdleHours - 1) THEN @ + 1 ELSE @,
            !.today = @ /\ hour' # 0]
AgedAlert(al) == IF al = Nothing THEN Nothing ELSE [al EXCEPT !.seen = Aged(@)]

Hour ==
  /\ run.at \in {"start", "idle"}
  /\ hour' = (hour + 1) % DayHours
  /\ obj' = [a \in Alerts |-> AgedAlert(obj[a])]
  /\ disk' = [a \in Alerts |-> AgedAlert(disk[a])]
  /\ cleared' = [a \in Alerts |-> cleared[a] \/ (type[a] = "daily" /\ hour' = 0)]
  /\ UNCHANGED <<type, world, client, fresh, run, stored, adding, used, top, row, struck,
                 unsaved, excused, faults>>

(***************************************************************************)
(* The client.  Whatever carries a newer snapshot drops the cache; the     *)
(* status is never answered from it.                                       *)
(***************************************************************************)
Fault == faults < MaxFaults /\ faults' = faults + 1

\* store, of an answer that is not about the target
Refreshed == cache' = (IF cacheOld THEN Nothing ELSE cache) /\ cacheOld' = FALSE

\* mutant: the status is answered from the cache like all else
StatusFromCache ==
  IF cache # Nothing THEN UNCHANGED <<client, fresh>> ELSE Refreshed /\ fresh' = FALSE

\* the watcher asks for the status, which is never answered from the cache
Status == Refreshed /\ fresh' = FALSE

\* reading: the answer e, Nothing for an error
Read(e) ==
  IF cache # Nothing
  THEN e = cache /\ UNCHANGED <<client, faults>>
  ELSE \/ /\ e = world
          /\ cache' = world
          /\ cacheOld' = (cacheOld /\ world = Nothing)
          /\ UNCHANGED faults
       \/ e = Nothing /\ Fault /\ UNCHANGED client

\* a command that shows something else
Command ==
  /\ cacheOld
  /\ Refreshed
  /\ UNCHANGED <<type, hour, world, fresh, run, book, history, faults>>

(***************************************************************************)
(* The file is written whole: saveLocked.                                  *)
(***************************************************************************)
Saved ==
  /\ disk' = [a \in Alerts |-> IF a \in stored' THEN obj'[a] ELSE Nothing]
  /\ unsaved' = [a \in Alerts |-> FALSE]
NotSaved == UNCHANGED <<disk, unsaved>>
SaveOrFail == (Saved /\ UNCHANGED faults) \/ (NotSaved /\ Fault)

(***************************************************************************)
(* The watcher.                                                            *)
(***************************************************************************)

\* the snapshot in force is noted, unless the status cannot be had
Start ==
  /\ run.at = "start"
  /\ run' = [run EXCEPT !.at = "idle"]
  /\ \/ fresh' = FALSE /\ Refreshed /\ UNCHANGED faults
     \/ fresh' = TRUE /\ UNCHANGED client /\ Fault
  /\ UNCHANGED <<type, hour, world, book, history>>

Poll ==
  /\ run.at = "idle"
  /\ Status
  /\ run' = IF fresh /\ ~fresh' /\ stored # {} THEN [run EXCEPT !.at = "listed", !.todo = stored]
                                    ELSE run
  /\ UNCHANGED <<type, hour, world, book, history, faults>>

\* alertMu
Lock ==
  /\ run.at = "listed"
  /\ run' = [run EXCEPT !.at = "pass"]
  /\ UNCHANGED <<type, hour, world, client, fresh, book, history, faults>>

\* one reading for all alerts of the target; when it fails, all are passed over
Fetch ==
  /\ run.at = "pass" /\ run.reading = Nothing /\ run.todo # {}
  /\ \E e \in Readings \union {Nothing} :
       /\ Read(e)
       /\ run' = [run EXCEPT !.reading = e, !.todo = IF e = Nothing THEN {} ELSE @]
  /\ UNCHANGED <<type, hour, world, fresh, book, history>>

\* deliver: what becomes of al, once the channel has answered how
Answers == {"ok", "transient", "permanent"}

\* mutant: a message that arrives does not end the count of failures
CountsOn(al, how) == [al EXCEPT !.failures = IF how = "ok" THEN @ ELSE @ + 1]

Delivered(al, how) == [al EXCEPT !.failures = IF how = "ok" THEN 0 ELSE @ + 1]

\* a refusal for good, or the third failure
GivesUp(al, how) == how = "permanent" \/ (how = "transient" /\ al.failures + 1 >= 3)

Deliver(a, al, how) ==
  /\ obj' = [obj EXCEPT ![a] = Delivered(al, how)]
  /\ row' = [row EXCEPT ![a] = IF how = "ok" THEN 0 ELSE IF @ = 3 THEN 3 ELSE @ + 1]
  /\ faults' = (IF how = "ok" THEN faults ELSE faults + 1) /\ faults' <= MaxFaults
  /\ IF GivesUp(al, how)
     THEN /\ stored' = stored \ {a}
          /\ struck' = (IF how = "transient" THEN struck \union {a} ELSE struck)
          /\ IF a \in stored THEN Saved \/ NotSaved ELSE NotSaved
     ELSE /\ UNCHANGED <<stored, disk, struck>>
          /\ unsaved' = [unsaved EXCEPT ![a] = @ \/ how = "ok"]

Evaluate(a) ==
  /\ run.at = "pass" /\ run.reading # Nothing /\ a \in run.todo
  /\ run' = [run EXCEPT !.todo = @ \ {a}]
  /\ LET t == type[a]
         s == obj[a].seen
         e == run.reading
         al == [obj[a] EXCEPT !.seen = Seen(t, s, e)]
     IN IF Fires(t, s, e)
        THEN \E how \in Answers :
               /\ Deliver(a, al, how)
               /\ IF how = "ok"
                  THEN /\ cleared' = [cleared EXCEPT ![a] = Off(t, world)]
                       /\ top' = [top EXCEPT ![a] = IF t = "milestone" THEN e.level ELSE @]
                  ELSE UNCHANGED <<cleared, top>>
        ELSE /\ obj' = [obj EXCEPT ![a] = al]
             /\ UNCHANGED <<stored, disk, cleared, top, row, struck, unsaved, faults>>
  /\ UNCHANGED <<type, hour, world, client, fresh, adding, used, excused>>

Save ==
  /\ run.at = "pass" /\ run.todo = {}
  /\ run' = [Asleep EXCEPT !.at = "idle"]
  /\ UNCHANGED <<stored, obj>>
  /\ SaveOrFail
  /\ UNCHANGED <<type, hour, world, client, fresh, adding, used, cleared, top, row, struck,
                 excused>>

(***************************************************************************)
(* The commands.                                                           *)
(***************************************************************************)

\* alertAdd: the reading is taken, then the channel is tried, then it is added
Seed(a) ==
  /\ a \notin used
  /\ used' = used \union {a}
  /\ \E e \in Readings \union {Nothing} :
       /\ Read(e)
       /\ IF e = Nothing
          THEN UNCHANGED <<adding, obj, cleared, top>>
          ELSE /\ adding' = adding \union {a}
               /\ obj' = [obj EXCEPT ![a] = [seen |-> Seeded(type[a], e), failures |-> 0]]
               /\ cleared' = [cleared EXCEPT ![a] =
                    \/ type[a] = "daily"
                    \/ type[a] = "rank" /\ e.rank # "in"
                    \/ Off(type[a], e) \/ Off(type[a], world)]
               /\ top' = [top EXCEPT ![a] = IF type[a] = "milestone" THEN e.level ELSE 0]
  /\ UNCHANGED <<type, hour, world, fresh, run, stored, disk, row, struck, unsaved, excused>>

Add(a) ==
  /\ a \in adding
  /\ adding' = adding \ {a}
  /\ UNCHANGED obj
  /\ \/ \* the channel cannot be posted in
        Fault /\ UNCHANGED stored /\ NotSaved
     \/ LET refused == \/ \E b \in stored : type[b] = type[a]
                       \/ Cardinality(stored) >= MaxPerChannel
        IN IF refused THEN UNCHANGED <<stored, faults>> /\ NotSaved
                      ELSE stored' = stored \union {a} /\ SaveOrFail
  /\ UNCHANGED <<type, hour, world, client, fresh, run, used, cleared, top, row, struck,
                 excused>>

Remove(a) ==
  /\ a \in stored
  /\ stored' = stored \ {a}
  /\ UNCHANGED obj
  /\ SaveOrFail
  /\ UNCHANGED <<type, hour, world, client, fresh, run, adding, used, cleared, top, row,
                 struck, excused>>

\* alertTest: the file is not written, and the watcher does not pass meanwhile
Test(a) ==
  /\ a \in stored /\ run.at # "pass"
  /\ Refreshed
  /\ \E how \in Answers : Deliver(a, obj[a], how)
  /\ UNCHANGED <<type, hour, world, fresh, run, adding, used, cleared, top, excused>>

Crash ==
  /\ Fault
  /\ stored' = {a \in Alerts : disk[a] # Nothing}
  /\ obj' = disk
  /\ adding' = {}
  /\ run' = Asleep
  /\ cache' = Nothing /\ cacheOld' = FALSE
  /\ excused' = [a \in Alerts |-> excused[a] \/ unsaved[a]]
  /\ unsaved' = [a \in Alerts |-> FALSE]
  /\ UNCHANGED <<type, hour, world, fresh, used, disk, cleared, top, row, struck>>

Init ==
  /\ type \in [Alerts -> Types]
  /\ hour = 0
  /\ world \in Readings
  /\ cache = Nothing /\ cacheOld = FALSE
  /\ fresh = FALSE
  /\ run = Asleep
  /\ stored = {} /\ adding = {} /\ used = {}
  /\ obj = [a \in Alerts |-> Nothing]
  /\ disk = [a \in Alerts |-> Nothing]
  /\ cleared = [a \in Alerts |-> FALSE]
  /\ top = [a \in Alerts |-> 0]
  /\ row = [a \in Alerts |-> 0]
  /\ struck = {}
  /\ unsaved = [a \in Alerts |-> FALSE]
  /\ excused = [a \in Alerts |-> FALSE]
  /\ faults = 0

Next ==
  \/ Publish \/ Hour \/ Command \/ Start \/ Poll \/ Lock \/ Fetch \/ Save \/ Crash
  \/ \E a \in Alerts : Evaluate(a) \/ Seed(a) \/ Add(a) \/ Remove(a) \/ Test(a)

\* Upstream publishes again and again and time goes on; the watcher's ticker
\* runs, and its calls return.
Fairness ==
  /\ WF_vars(Publish) /\ SF_vars(Hour)
  /\ WF_vars(Start) /\ WF_vars(Poll) /\ WF_vars(Lock) /\ WF_vars(Fetch) /\ WF_vars(Save)
  /\ \A a \in Alerts : WF_vars(Evaluate(a))

Spec == Init /\ [][Next]_vars
FairSpec == Spec /\ Fairness

(***************************************************************************)
(* Properties.                                                             *)
(***************************************************************************)
Seens ==
  [armed : BOOLEAN, level : 0..MaxLevel, producing : BOOLEAN,
   quiet : 0..IdleHours \union {Nothing}, today : BOOLEAN]
AlertRecords == [seen : Seens, failures : Nat]

\* Every variable keeps to its type; what is stored or on its way is an alert.
TypeOK ==
  /\ type \in [Alerts -> Types] /\ hour \in 0..(DayHours - 1)
  /\ world \in Readings \union {Nothing} /\ cache \in Readings \union {Nothing}
  /\ cacheOld \in BOOLEAN /\ fresh \in BOOLEAN
  /\ run \in [at : {"start", "idle", "listed", "pass"}, todo : SUBSET Alerts,
              reading : Readings \union {Nothing}]
  /\ stored \subseteq Alerts /\ adding \subseteq Alerts /\ used \subseteq Alerts
  /\ obj \in [Alerts -> AlertRecords \union {Nothing}]
  /\ disk \in [Alerts -> AlertRecords \union {Nothing}]
  /\ \A a \in stored \union adding \union run.todo : obj[a] \in AlertRecords
  /\ cleared \in [Alerts -> BOOLEAN] /\ top \in [Alerts -> 0..MaxLevel]
  /\ row \in [Alerts -> 0..3] /\ struck \subseteq Alerts
  /\ unsaved \in [Alerts -> BOOLEAN] /\ excused \in [Alerts -> BOOLEAN]
  /\ faults \in 0..MaxFaults

\* A message arrives from a.
Speaks(a) == a \in run.todo /\ run'.at = "pass" /\ run.reading # Nothing
             /\ run'.todo = run.todo \ {a}
             /\ Fires(type[a], obj[a].seen, run.reading) /\ row'[a] = 0

\* An alert that has spoken does not speak again before its condition was off
\* in some publish since - a milestone, before a higher one, a summary, before
\* the next day - unless a crash came between the message and the write of the
\* file: evaluate, "fires on a transition rather than on a state".
NoRepeat ==
  [][\A a \in Alerts : Speaks(a) =>
       \/ excused[a]
       \/ IF type[a] = "milestone" THEN run.reading.level > top[a] ELSE cleared[a]]_vars

\* An alert that is given up without a refusal has failed three times running,
\* tests included, unless a crash lost that something arrived in between:
\* deliver, "anything else gets three strikes".
StrikesAreInARow ==
  [][\A a \in struck' \ struck : row'[a] = 3 \/ excused[a]]_vars

\* What an alert would say of the latest snapshot when its time comes.  (A
\* summary has no part in it: a day on which nothing is published between its
\* hour and midnight has none.)
Due(a) ==
  /\ a \in stored /\ world # Nothing
  /\ LET s == obj[a].seen
     IN CASE type[a] = "milestone" -> world.level > s.level
          [] type[a] = "rank"      -> world.rank = "in" /\ s.armed
          [] type[a] = "idle"      -> ~world.producing /\ s.armed
          [] type[a] = "resumed"   -> world.producing /\ s.armed /\ ~s.producing
          [] OTHER                 -> FALSE

\* No alert stays due for ever: while the service publishes, the watcher comes
\* to see it, across restarts, unreachable status and readings that fail
\* (watch, runAlerts, statusPath).
DueIsSeen == \A a \in Alerts : Due(a) ~> ~Due(a)
=============================================================================
