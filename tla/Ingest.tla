------------------------------- MODULE Ingest -------------------------------
(***************************************************************************)
(* The collector's core: foldingd applies archived snapshot pairs to the   *)
(* corpus in memory, commits each cycle to the database, publishes the     *)
(* result, and answers API requests from the same memory                   *)
(* (src/internal/service/service.go, src/internal/model/state.go,          *)
(* src/internal/store/store.go, src/internal/api/server.go).               *)
(*                                                                         *)
(* The archive is filled by the thread that ingests, and Ingest is called  *)
(* for each snapshot it stores; or, with -no-fetch, by another process, at *)
(* any moment, and Ingest is called by a timer.  The process may crash and *)
(* be started again; a listing, a read or a commit may fail.  Time is the  *)
(* publish time of a snapshot, 0 the zero time.Time.                       *)
(***************************************************************************)
EXTENDS Reconcile

CONSTANTS
  Times,      \* the publish times that snapshots carry
  Grace,      \* how far before state.At a pass lists, 2 * nominalInterval
  TeamFiles,  \* the payloads that the team feed may carry at each time
  UserFiles,  \* the payloads that the user feed may carry at each time
  Corrupt,    \* a payload that does not read back
  Readers,    \* the API requests being served
  Nil,        \* no published snapshot
  NoSlot,     \* the slot of an entity that has none
  MaxFaults   \* bound: crashes and failed operations of one behaviour

ASSUME TimesAssumption == Times \subseteq Nat \ {0} /\ Grace \in Nat
ASSUME EntitiesAssumption == Members \cap Teams = {}
ASSUME FilesAssumption ==
  /\ TeamFiles \in [Times -> SUBSET (TeamFile \cup {Corrupt})]
  /\ UserFiles \in [Times -> SUBSET (UserFile \cup {Corrupt})]
  /\ Corrupt \notin TeamFile \cup UserFile
ASSUME SentinelAssumption ==
  /\ Nil \notin Nat
  /\ NoSlot \notin {"member", "team"} \X Nat
  /\ Absent # Corrupt
  /\ Absent \notin TeamFile \cup UserFile
ASSUME MaxFaultsAssumption == MaxFaults \in Nat

VARIABLES
  teamFeed, userFeed,   \* the archive: the payload stored for each time
  call,                 \* polled, with -no-fetch; else due after a store, or none
  dbSlot, dbTotal,      \* the teams and members tables: slot and totals
  cycles,               \* the cycles table with the deltas and first sightings
  history,              \* history variable: the totals after each cycle
  proc,                 \* the process: down, starting or up
  memSlot, memTotal,    \* model.State: the slot and the totals of each entity
  len,                  \* len(s.Members) and len(s.Teams)
  at,                   \* state.At
  winAt,                \* the newest cycle pushed into the windows
  applied,              \* Service.applied
  failed,               \* Service.ingestErr is set
  phase,                \* how far the ingest thread is in a pass
  listed, queue,        \* the team and user times the pass has listed
  cycle,                \* the cycle Apply returned, until it is committed
  dirty,                \* the pass has applied a cycle
  published,            \* Server.snap: the time of the published snapshot
  reader, held,         \* how far each request is, and the snapshot it loaded
  answer,               \* the latest data each reader was answered with
  faults                \* the faults so far

archive == <<teamFeed, userFeed, call>>
database == <<dbSlot, dbTotal, cycles, history>>
corpus == <<memSlot, memTotal, len, at, winAt, applied, failed>>
pass == <<phase, listed, queue, cycle, dirty>>
requests == <<reader, held, answer>>
vars == <<archive, database, proc, corpus, pass, published, requests, faults>>

Entities == Members \cup Teams
Kinds == {"member", "team"}
Kind(e) == IF e \in Members THEN "member" ELSE "team"
Of(k) == IF k = "member" THEN Members ELSE Teams
Slots == Kinds \X Nat

Totals == [Entities -> Row \cup {Absent}]
Nothing == [e \in Entities |-> Absent]
Cycle == [fresh : SUBSET Entities, delta : Totals]
Pending == [at : Times \cup {0}, fresh : SUBSET Entities, delta : Totals]
NoCycle == [at |-> 0, fresh |-> {}, delta |-> Nothing]
Answer == [at : Times \cup {0}, totals : Totals]

ASSUME RowlessAssumption == Absent \notin Totals \cup Cycle /\ Nil \notin Answer

Stored(feed) == {t \in Times : feed[t] # Absent}
Readable(feed) == {t \in Stored(feed) : feed[t] # Corrupt}
Committed == {t \in Times : cycles[t] # Absent}

\* The newest time of a set, the zero time of an empty one.
Latest(S) == IF S = {} THEN 0 ELSE CHOOSE t \in S : \A s \in S : s <= t
Oldest(S) == CHOOSE t \in S : \A s \in S : t <= s

UpTo(S, t) == {s \in S : s <= t}

\* The totals as of a published time, none before the first cycle.
TotalsAt(t) == IF t = 0 THEN Nothing ELSE history[t]

TypeOK ==
  /\ teamFeed \in [Times -> TeamFile \cup {Corrupt, Absent}]
  /\ userFeed \in [Times -> UserFile \cup {Corrupt, Absent}]
  /\ call \in {"polled", "due", "none"}
  /\ dbSlot \in [Entities -> Slots \cup {NoSlot}]
  /\ dbTotal \in Totals
  /\ cycles \in [Times -> Cycle \cup {Absent}]
  /\ history \in [Times -> Totals \cup {Absent}]
  /\ proc \in {"down", "starting", "up"}
  /\ memSlot \in [Entities -> Slots \cup {NoSlot}]
  /\ memTotal \in Totals
  /\ len \in [Kinds -> Nat]
  /\ at \in Times \cup {0}
  /\ winAt \in Times \cup {0}
  /\ applied \subseteq Times
  /\ failed \in BOOLEAN
  /\ phase \in {"idle", "waiting", "listing", "looping", "committing"}
  /\ listed \subseteq Times
  /\ queue \subseteq Times
  /\ cycle \in Pending
  /\ dirty \in BOOLEAN
  /\ published \in Times \cup {0, Nil}
  /\ reader \in [Readers -> {"idle", "asking", "loaded", "locked"}]
  /\ held \in [Readers -> Times \cup {0, Nil}]
  /\ answer \in [Readers -> Answer \cup {Nil}]
  /\ faults \in 0..MaxFaults

-----------------------------------------------------------------------------
(* The start of the process: New of service.go and LoadIdentity of store.go. *)

\* A process that does not run has no memory.
Blank ==
  /\ memSlot' = [e \in Entities |-> NoSlot]
  /\ memTotal' = Nothing
  /\ len' = [k \in Kinds |-> 0]
  /\ at' = 0
  /\ winAt' = 0
  /\ applied' = {}
  /\ failed' = FALSE

OffPass ==
  /\ phase' = "idle"
  /\ listed' = {}
  /\ queue' = {}
  /\ cycle' = NoCycle
  /\ dirty' = FALSE

Init ==
  /\ teamFeed = [t \in Times |-> Absent]
  /\ userFeed = [t \in Times |-> Absent]
  /\ call \in {"polled", "none"}
  /\ dbSlot = [e \in Entities |-> NoSlot]
  /\ dbTotal = Nothing
  /\ cycles = [t \in Times |-> Absent]
  /\ history = [t \in Times |-> Absent]
  /\ proc = "down"
  /\ memSlot = [e \in Entities |-> NoSlot]
  /\ memTotal = Nothing
  /\ len = [k \in Kinds |-> 0]
  /\ at = 0
  /\ winAt = 0
  /\ applied = {}
  /\ failed = FALSE
  /\ phase = "idle"
  /\ listed = {}
  /\ queue = {}
  /\ cycle = NoCycle
  /\ dirty = FALSE
  /\ published = Nil
  /\ reader = [r \in Readers |-> "idle"]
  /\ held = [r \in Readers |-> Nil]
  /\ answer = [r \in Readers |-> Nil]
  /\ faults = 0

\* The rows are read in slot order and appended, and a row that does not land
\* on its own slot is refused: the stored slots of a kind must be 0..n-1.
StoredSlots(k) == {dbSlot[e][2] : e \in {x \in Of(k) : dbSlot[x] # NoSlot}}

Dense(k, n) == StoredSlots(k) = 0..(n - 1)

Loadable == \A k \in Kinds : \E n \in 0..Cardinality(Of(k)) : Dense(k, n)

\* A process that cannot load its identity exits, and so never gets past this.
\* The initial ingest runs before the server accepts a request.
Restart ==
  /\ proc = "down"
  /\ Loadable
  /\ proc' = "starting"
  /\ memSlot' = dbSlot
  /\ memTotal' = dbTotal
  /\ len' = [k \in Kinds |-> CHOOSE n \in 0..Cardinality(Of(k)) : Dense(k, n)]
  /\ at' = Latest(Committed)
  /\ winAt' = Latest(Committed)
  /\ applied' = Committed
  /\ failed' = FALSE
  /\ phase' = "waiting"
  /\ UNCHANGED <<archive, database, listed, queue, cycle, dirty, published,
                 requests, faults>>

\* The call that was due is made, or lost.
CallIsOver == call' = IF call = "polled" THEN call ELSE "none"

Crash ==
  /\ proc \in {"starting", "up"}
  /\ faults < MaxFaults
  /\ CallIsOver
  /\ proc' = "down"
  /\ Blank
  /\ OffPass
  /\ published' = Nil
  /\ reader' = [r \in Readers |-> "idle"]
  /\ held' = [r \in Readers |-> Nil]
  /\ faults' = faults + 1
  /\ UNCHANGED <<teamFeed, userFeed, database, answer>>

-----------------------------------------------------------------------------
(* The archive. *)

\* OnSnapshot is called by the thread that has stored the snapshot, before it goes
\* on to the next.
Collects == call = "polled" \/ (call = "none" /\ proc = "up" /\ phase = "idle")
CallFollows == call' = IF call = "polled" THEN call ELSE "due"

StoreTeams(t) ==
  /\ Collects /\ CallFollows
  /\ teamFeed[t] = Absent
  /\ \E file \in TeamFiles[t] : teamFeed' = [teamFeed EXCEPT ![t] = file]
  /\ UNCHANGED <<userFeed, database, proc, corpus, pass, published, requests,
                 faults>>

StoreUsers(t) ==
  /\ Collects /\ CallFollows
  /\ userFeed[t] = Absent
  /\ \E file \in UserFiles[t] : userFeed' = [userFeed EXCEPT ![t] = file]
  /\ UNCHANGED <<teamFeed, database, proc, corpus, pass, published, requests,
                 faults>>

-----------------------------------------------------------------------------
(* A pass: Ingest of service.go, under the write side of Service.guard. *)

\* The follower's timer or OnSnapshot; the thread asks for the lock.
BeginIngest ==
  /\ proc = "up"
  /\ phase = "idle"
  /\ call # "none" /\ CallIsOver
  /\ phase' = "waiting"
  /\ UNCHANGED <<teamFeed, userFeed, database, proc, corpus, listed, queue, cycle,
                 dirty, published, requests, faults>>

\* Ingest returns and unlocks.
EndPass ==
  /\ OffPass
  /\ proc' = "up"

Since(feed) == {t \in Stored(feed) : at = 0 \/ t >= at - Grace}

Unlocked == \A r \in Readers : reader[r] # "locked"

\* Mutant: the early return forgets to unlock.
Refuse_KeepsLock ==
  /\ phase = "waiting"
  /\ Unlocked
  /\ failed
  /\ UNCHANGED vars

Refuse ==
  /\ phase = "waiting"
  /\ Unlocked
  /\ failed
  /\ EndPass
  /\ UNCHANGED <<archive, database, corpus, published, requests, faults>>

ListTeams ==
  /\ phase = "waiting"
  /\ Unlocked
  /\ ~ failed
  /\ phase' = "listing"
  /\ listed' = Since(teamFeed)
  /\ UNCHANGED <<archive, database, proc, corpus, queue, cycle, dirty,
                 published, requests, faults>>

\* A second walk of the archive, which may have grown since the first.
ListUsers ==
  /\ phase = "listing"
  /\ phase' = "looping"
  /\ queue' = Since(userFeed)
  /\ UNCHANGED <<archive, database, proc, corpus, listed, cycle, dirty,
                 published, requests, faults>>

\* Either walk fails: the pass ends without publishing.
ListFails ==
  /\ \/ phase = "waiting" /\ Unlocked /\ ~ failed
     \/ phase = "listing"
  /\ faults < MaxFaults
  /\ faults' = faults + 1
  /\ EndPass
  /\ UNCHANGED <<archive, database, corpus, published, requests>>

\* Mutant: a late pair is applied behind newer ones.
Due_AnyOrder(u) == UpTo(listed, u) # {} /\ u \notin applied

\* pairSnapshots and the two guards of the loop over its pairs.
Due(u) ==
  /\ UpTo(listed, u) # {}
  /\ u > at
  /\ u \notin applied

DueTimes == {u \in queue : Due(u)}

NextDue == Oldest(DueTimes)

TeamsOf(u) == teamFeed[Latest(UpTo(listed, u))]

\* Both payloads read back, and what they hold is accepted.
Good(u) ==
  /\ TeamsOf(u) # Corrupt
  /\ userFeed[u] # Corrupt
  /\ Accepts(TeamsOf(u), userFeed[u])

\* The rows of the pair that pass reconciliation, by entity.
Snapshot(u) ==
  [e \in Entities |-> IF e \in Teams THEN TeamsOf(u)[e]
                      ELSE Admitted(TeamsOf(u), userFeed[u])[e]]

\* Entities that get their slot with these rows; every other one was seen.
Fresh(rows) == {e \in Present(rows) : memSlot[e] = NoSlot}

Change(old, new) == [c \in Counters |-> new[c] - old[c]]

\* Mutant: what an entity arrives with counts as its production.
Production_OfNewcomers(rows) ==
  [e \in Entities |->
     IF e \in Fresh(rows) THEN rows[e]
     ELSE IF e \in Present(rows) /\ rows[e] # memTotal[e]
     THEN Change(memTotal[e], rows[e])
     ELSE Absent]

\* A first sighting is no production, and neither is a row that did not move.
Production(rows) ==
  [e \in Entities |->
     IF e \in Present(rows) \ Fresh(rows) /\ rows[e] # memTotal[e]
     THEN Change(memTotal[e], rows[e])
     ELSE Absent]

CountOf(k, S) == Cardinality(S \cap Of(k))

\* Mutant: the last slot in use is given again.
NextSlots_OffByOne(S) ==
  UNION {{k} \X ((len[k] - 1)..(len[k] + CountOf(k, S) - 2)) : k \in Kinds}

\* The slots that Apply appends for a set of entities, in the order of the
\* rows, which is any order.
NextSlots(S) ==
  UNION {{k} \X (len[k]..(len[k] + CountOf(k, S) - 1)) : k \in Kinds}

Numberings(S) ==
  {f \in Bijection(S, NextSlots(S)) : \A e \in S : f[e][1] = Kind(e)}

\* applyCycle up to the commit.  Apply overwrites the totals it differences.
ApplyCycle ==
  /\ phase = "looping"
  /\ DueTimes # {}
  /\ Good(NextDue)
  /\ LET rows == Snapshot(NextDue) IN
       /\ \E f \in Numberings(Fresh(rows)) :
            memSlot' = [e \in Entities |-> IF e \in Fresh(rows) THEN f[e]
                                           ELSE memSlot[e]]
       /\ len' = [k \in Kinds |-> len[k] + CountOf(k, Fresh(rows))]
       /\ memTotal' = [e \in Entities |-> IF e \in Present(rows) THEN rows[e]
                                          ELSE memTotal[e]]
       /\ cycle' = [at |-> NextDue, fresh |-> Fresh(rows),
                    delta |-> Production(rows)]
  /\ at' = NextDue
  /\ phase' = "committing"
  /\ UNCHANGED <<archive, database, proc, winAt, applied, failed, listed,
                 queue, dirty, published, requests, faults>>

\* What the loop goes on with, and a mutant that leaves it.
Rest_GivesUp == {}
Rest == queue \ {NextDue}

\* The pair is logged and passed over, a read that failed by accident included.
RejectCycle ==
  /\ phase = "looping"
  /\ DueTimes # {}
  /\ \/ /\ ~ Good(NextDue)
        /\ faults' = faults
     \/ /\ Good(NextDue)
        /\ faults < MaxFaults
        /\ faults' = faults + 1
  /\ queue' = Rest
  /\ UNCHANGED <<archive, database, proc, corpus, phase, listed, cycle, dirty,
                 published, requests>>

\* WriteCycle.  A first sighting is inserted unless the entity or its slot is
\* taken (INSERT OR IGNORE); an update addresses a row by its slot.
Inserted ==
  {e \in cycle.fresh : dbSlot[e] = NoSlot
                       /\ \A x \in Entities : dbSlot[x] # memSlot[e]}

SlotsAfter == [e \in Entities |-> IF e \in Inserted THEN memSlot[e] ELSE dbSlot[e]]

\* The entities whose delta is written to the row of x.
Writers(x) ==
  {e \in Entities : cycle.delta[e] # Absent /\ memSlot[e] = SlotsAfter[x]}

Writer(x) == CHOOSE e \in Writers(x) : TRUE

\* Mutant: the totals of the entities that moved are not updated.
TotalsAfter_InsertsOnly ==
  [x \in Entities |-> IF x \in Inserted THEN memTotal[x] ELSE dbTotal[x]]

TotalsAfter ==
  [x \in Entities |-> IF x \in Inserted THEN memTotal[x]
                      ELSE IF Writers(x) # {} THEN memTotal[Writer(x)]
                      ELSE dbTotal[x]]

DeltasAfter ==
  [x \in Entities |-> IF Writers(x) # {} THEN cycle.delta[Writer(x)] ELSE Absent]

\* One transaction; the windows and the applied set follow it.
CommitCycle ==
  /\ phase = "committing"
  /\ dbSlot' = SlotsAfter
  /\ dbTotal' = TotalsAfter
  /\ cycles' = [cycles EXCEPT ![cycle.at] = [fresh |-> Inserted,
                                             delta |-> DeltasAfter]]
  /\ history' = [history EXCEPT ![cycle.at] = TotalsAfter]
  /\ winAt' = cycle.at
  /\ applied' = applied \cup {cycle.at}
  /\ phase' = "looping"
  /\ cycle' = NoCycle
  /\ dirty' = TRUE
  /\ UNCHANGED <<archive, proc, memSlot, memTotal, len, at, failed, listed,
                 queue, published, requests, faults>>

\* Mutants: the old snapshot is still served; the service goes on ingesting.
FailClosed_StillServes == failed' = TRUE /\ published' = published
FailClosed_GoesOn == failed' = FALSE /\ published' = published

FailClosed == failed' = TRUE /\ published' = Nil

\* The transaction rolls back, the model does not: the service stops serving.
CommitFails ==
  /\ phase = "committing"
  /\ faults < MaxFaults
  /\ faults' = faults + 1
  /\ FailClosed
  /\ EndPass
  /\ UNCHANGED <<archive, database, memSlot, memTotal, len, at, winAt, applied,
                 requests>>

\* The end of the loop; publish when a cycle was applied, or none ever shown.
FinishPass ==
  /\ phase = "looping"
  /\ DueTimes = {}
  /\ published' = IF dirty \/ published = Nil THEN at ELSE published
  /\ EndPass
  /\ UNCHANGED <<archive, database, corpus, requests, faults>>

-----------------------------------------------------------------------------
(* A request: handle and lockSnapshot of server.go. *)

Request(r) ==
  /\ proc = "up"
  /\ reader[r] = "idle"
  /\ reader' = [reader EXCEPT ![r] = "asking"]
  /\ UNCHANGED <<archive, database, proc, corpus, pass, published, held, answer,
                 faults>>

\* The pointer is read without the lock; no snapshot is answered with a 503.
Load(r) ==
  /\ reader[r] = "asking"
  /\ reader' = [reader EXCEPT ![r] = IF published = Nil THEN "idle" ELSE "loaded"]
  /\ held' = [held EXCEPT ![r] = published]
  /\ UNCHANGED <<archive, database, proc, corpus, pass, published, answer, faults>>

\* Mutant: a pass lets readers in between its cycles.
ReadLockFree_BetweenCycles == phase # "committing"

\* RLock is granted when no writer holds the lock or waits for it.
ReadLockFree == phase = "idle"

\* Mutant: the pointer is not compared again under the lock.
Current_Unchecked(r) == TRUE

Current(r) == published = held[r]

Adopt(r) ==
  /\ reader[r] = "loaded"
  /\ ReadLockFree
  /\ Current(r)
  /\ reader' = [reader EXCEPT ![r] = "locked"]
  /\ UNCHANGED <<archive, database, proc, corpus, pass, published, held, answer,
                 faults>>

\* The pointer has moved since: unlock, and load it again.
Retry(r) ==
  /\ reader[r] = "loaded"
  /\ ReadLockFree
  /\ ~ Current(r)
  /\ reader' = [reader EXCEPT ![r] = "asking"]
  /\ held' = [held EXCEPT ![r] = Nil]
  /\ UNCHANGED <<archive, database, proc, corpus, pass, published, answer, faults>>

\* The view is built from the snapshot's time and the corpus, then unlocked.
Respond(r) ==
  /\ reader[r] = "locked"
  /\ answer' = [answer EXCEPT ![r] = [at |-> held[r], totals |-> memTotal]]
  /\ reader' = [reader EXCEPT ![r] = "idle"]
  /\ held' = [held EXCEPT ![r] = Nil]
  /\ UNCHANGED <<archive, database, proc, corpus, pass, published, faults>>

-----------------------------------------------------------------------------
Collect == \E t \in Times : StoreTeams(t) \/ StoreUsers(t)

\* What the ingest thread does once it is in a pass.
PassStep ==
  \/ Refuse \/ ListTeams \/ ListUsers
  \/ ApplyCycle \/ RejectCycle \/ CommitCycle \/ FinishPass

Serve(r) == Load(r) \/ Respond(r)

Enter(r) == Adopt(r) \/ Retry(r)

Next ==
  \/ Collect
  \/ Restart \/ Crash
  \/ BeginIngest \/ PassStep \/ ListFails \/ CommitFails
  \/ \E r \in Readers : Request(r) \/ Serve(r) \/ Enter(r)

Spec == Init /\ [][Next]_vars

\* The ingest thread makes the call that is due, the timer's for ever, and runs
\* its pass to the end, systemd starts the process again, and a request runs its
\* own steps; nothing makes a snapshot come.  An unlock
\* admits the readers that wait for it before the next writer, so that one
\* that is let in again and again does get in.
Fairness ==
  /\ WF_vars(Restart)
  /\ WF_vars(BeginIngest)
  /\ WF_vars(PassStep)
  /\ \A r \in Readers : WF_vars(Serve(r)) /\ SF_vars(Enter(r))

FairSpec == Spec /\ Fairness

-----------------------------------------------------------------------------
(* Safety. *)

\* A request that holds the lock answers from one cycle: the snapshot it took,
\* the totals and the windows are of the same committed cycle, although the
\* snapshot only points at structures that ingest changes in place
\* (server.go:49-63, snapshot.go:111-117).
ReadersSeeOneCycle ==
  \A r \in Readers :
    reader[r] = "locked" =>
      /\ held[r] = at
      /\ winAt = at
      /\ memTotal = TotalsAt(at)

\* Outside a commit, the corpus in memory is what a restart would load, unless
\* the service has stopped for a failed commit (service.go:360-369).
MemoryIsDurable ==
  (proc \in {"starting", "up"} /\ ~ failed /\ phase # "committing") =>
    /\ memSlot = dbSlot
    /\ memTotal = dbTotal
    /\ at = Latest(Committed)
    /\ winAt = at
    /\ applied = Committed

\* Whatever was committed before a crash or a failure, LoadIdentity loads it
\* back: no slot is skipped or shared (store.go:156-161, service.go:366-368).
RestartLoads == Loadable

\* Once a commit has failed nothing is served from the model that is ahead of
\* the database (service.go:280-283).
FailStop == failed => published = Nil /\ Unlocked

\* The stored deltas tell the difference of the totals of two consecutive
\* cycles, for every entity known before; one first seen is no production
\* (state.go:4-7, 203-210).
Before(t) == Latest({s \in Committed : s < t})

Explained(old, new, delta) ==
  IF delta # Absent THEN old # Absent /\ new # Absent /\ delta = Change(old, new)
  ELSE old # Absent => new = old

ProductionIsTheDifference ==
  \A t \in Committed : \A e \in Entities :
    LET old == TotalsAt(Before(t))[e]
        new == history[t][e]
    IN /\ Explained(old, new, cycles[t].delta[e])
       /\ e \in cycles[t].fresh <=> (old = Absent /\ new # Absent)

\* The record only grows at its end: a committed cycle is never rewritten, none
\* is committed before it, and a slot keeps its entity (service.go:271-275,
\* store.go:158-161).
RecordGrowsAtItsEnd ==
  [][ /\ \A t \in Committed : cycles'[t] = cycles[t] /\ history'[t] = history[t]
      /\ \A t \in Committed' \ Committed : \A s \in Committed : s < t
      /\ \A e \in Entities : dbSlot[e] # NoSlot => dbSlot'[e] = dbSlot[e] ]_vars

\* What a reader is shown never goes back in time, over publications, failures
\* and restarts (server.go:49-50).
AnswersAdvance ==
  [][ \A r \in Readers :
        answer[r] # Nil => answer'[r] # Nil /\ answer'[r].at >= answer[r].at ]_vars

-----------------------------------------------------------------------------
(* Liveness. *)

\* A pair in reach of the next pass that reconciliation accepts, newer than
\* every cycle that was committed.
Ready(u) ==
  LET near == UpTo({t \in Stored(teamFeed) :
                      Committed = {} \/ t >= Latest(Committed) - Grace}, u)
  IN /\ u \in Readable(userFeed)
     /\ u > Latest(Committed)
     /\ near # {}
     /\ Latest(near) \in Readable(teamFeed)
     /\ Accepts(teamFeed[Latest(near)], userFeed[u])

\* A pair that is ready when a call of Ingest is to come does not stay ready: it is
\* committed, a newer one is, or the service has stopped for a failed commit
\* (service.go:243-244, 276-278); unless something fails, and then it is with the
\* next call: the timer's, with -no-fetch (main.go:205-230); else only the one for the
\* next snapshot that is stored, or of the next start (main.go:103-119).
ReadyPairsAreIngested ==
  \A u \in Times, n \in 0..MaxFaults :
    Ready(u) /\ faults = n /\ (call # "none" \/ proc # "up") ~>
      (~ Ready(u) \/ failed \/ faults # n)

\* Every request ends, however the passes and publications fall
\* (server.go:227-234).
RequestsEnd == \A r \in Readers : reader[r] # "idle" ~> reader[r] = "idle"

-----------------------------------------------------------------------------
(* Refinement. *)

Log == INSTANCE CycleLog WITH
  Tables <- Totals, Empty <- Nothing,
  NoCycle <- Absent, NoView <- Nil, NoAnswer <- Nil,
  log <- history, view <- published, answers <- answer

\* For whoever reads the API the collector is the log of cycles: what the
\* database holds is the log, the published snapshot is the view
\* (service.go:246, server.go:49-63).
ImplementsCycleLog == Log!Spec
=============================================================================
