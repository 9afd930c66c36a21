---------------------------- MODULE IngestProofs ----------------------------
(***************************************************************************)
(* The safety of Ingest for every corpus, archive and number of faults.    *)
(***************************************************************************)
EXTENDS Ingest, FiniteSetTheorems, WellFoundedInduction, TLAPS

-----------------------------------------------------------------------------
(* The newest and the oldest time of a set. *)

\* A finite non-empty set of times has a newest one: Latest is what the SQL
\* MAX and the sorted listing give.
LEMMA LatestIsNewest ==
  ASSUME NEW S \in SUBSET Nat, IsFiniteSet(S), S # {}
  PROVE  /\ Latest(S) \in S
         /\ \A s \in S : s <= Latest(S)
<1> DEFINE Above(x) == {s \in S : s >= x}
           Tails == {Above(x) : x \in S}
<1>1. Tails \subseteq FiniteSubsetsOf(S)
  BY FS_Subset DEF FiniteSubsetsOf
<1>2. PICK T \in Tails : \A U \in Tails : <<U, T>> \notin StrictSubsetOrdering(S)
  <2>1. Tails # {}
    OBVIOUS
  <2> HIDE DEF Tails
  <2> QED
    BY <1>1, <2>1, WFMin, FS_StrictSubsetOrderingWellFounded
<1>3. PICK x \in S : T = Above(x)
  BY <1>2
<1>4. ASSUME NEW s \in S
      PROVE  s <= x
  <2> SUFFICES ASSUME s > x
               PROVE  FALSE
    OBVIOUS
  <2>1. s \in Nat /\ x \in Nat
    OBVIOUS
  <2>2. \A y \in S : y >= s => y >= x
    BY <2>1
  <2>3. x >= x /\ ~ (x >= s)
    BY <2>1
  <2>4. Above(s) \subseteq Above(x) /\ Above(s) # Above(x)
    BY <2>2, <2>3, Zenon
  <2>5. <<Above(s), T>> \in StrictSubsetOrdering(S)
    BY <2>4, <1>3 DEF StrictSubsetOrdering
  <2> QED
    BY <2>5, <1>2
<1> QED
  BY <1>4 DEF Latest

\* So has any non-empty set of times an oldest one.
LEMMA OldestIsMember ==
  ASSUME NEW S \in SUBSET Nat, S # {}
  PROVE  /\ Oldest(S) \in S
         /\ \A s \in S : Oldest(S) <= s
<1> DEFINE Below(x) == {s \in S : s <= x}
           Heads == {Below(x) : x \in S}
<1>1. Heads \subseteq FiniteSubsetsOf(S)
  BY FS_BoundedSetOfNaturals DEF FiniteSubsetsOf
<1>2. PICK T \in Heads : \A U \in Heads : <<U, T>> \notin StrictSubsetOrdering(S)
  <2>1. Heads # {}
    OBVIOUS
  <2> HIDE DEF Heads
  <2> QED
    BY <1>1, <2>1, WFMin, FS_StrictSubsetOrderingWellFounded
<1>3. PICK x \in S : T = Below(x)
  BY <1>2
<1>4. ASSUME NEW s \in S
      PROVE  x <= s
  <2> SUFFICES ASSUME s < x
               PROVE  FALSE
    OBVIOUS
  <2>1. s \in Nat /\ x \in Nat
    OBVIOUS
  <2>2. \A y \in S : y <= s => y <= x
    BY <2>1
  <2>3. x <= x /\ ~ (x <= s)
    BY <2>1
  <2>4. Below(s) \subseteq Below(x) /\ Below(s) # Below(x)
    BY <2>2, <2>3, Zenon
  <2>5. <<Below(s), T>> \in StrictSubsetOrdering(S)
    BY <2>4, <1>3 DEF StrictSubsetOrdering
  <2> QED
    BY <2>5, <1>2
<1> QED
  BY <1>4 DEF Oldest

-----------------------------------------------------------------------------
(* The inductive invariant.  MemoryIsDurable alone is not inductive: between *)
(* Apply and WriteCycle the memory is ahead, and what the commit will add    *)
(* has to be exactly what it is ahead by.                                    *)

\* Slots are given to one entity each, and those of a kind are 0..n[kind]-1.
Numbered(slot, n) ==
  /\ \A e \in Entities : slot[e] # NoSlot => slot[e][1] = Kind(e)
  /\ \A e, x \in Entities : slot[e] # NoSlot /\ slot[x] = slot[e] => x = e
  /\ \A e \in Entities : slot[e] # NoSlot => slot[e][2] < n[Kind(e)]
  /\ \A k \in Kinds : \A i \in 0..(n[k] - 1) :
       \E e \in Entities : slot[e] = <<k, i>>

SlotsAreNumbered ==
  /\ Numbered(memSlot, len)
  /\ \E n \in [Kinds -> Nat] : Numbered(dbSlot, n)

\* An entity has totals exactly if it has a slot.
TotalsHaveSlots ==
  \A e \in Entities : /\ memSlot[e] = NoSlot <=> memTotal[e] = Absent
                      /\ dbSlot[e] = NoSlot <=> dbTotal[e] = Absent

DatabaseIsItsLog ==
  /\ IsFiniteSet(Committed)
  /\ \A t \in Times : cycles[t] = Absent <=> history[t] = Absent
  /\ dbTotal = TotalsAt(Latest(Committed))

\* The cycle that waits for its commit is the difference between the memory
\* and the database.
CycleIsTheDifference ==
  phase = "committing" =>
    /\ cycle.at = at /\ at \in Times
    /\ \A t \in Committed : t < at
    /\ applied = Committed
    /\ cycle.fresh = {e \in Entities : dbSlot[e] = NoSlot /\ memSlot[e] # NoSlot}
    /\ \A e \in Entities : dbSlot[e] # NoSlot => memSlot[e] = dbSlot[e]
    /\ \A e \in Entities :
         IF cycle.delta[e] = Absent
         THEN e \notin cycle.fresh => memTotal[e] = dbTotal[e]
         ELSE dbSlot[e] # NoSlot

\* Who runs when, and what may be published then.
Control ==
  /\ proc = "down" => phase = "idle"
  /\ phase \in {"listing", "looping", "committing"} => ~ failed /\ Unlocked
  /\ failed => proc # "down"
  /\ published # Nil => proc # "down" /\ ~ failed
  /\ dirty => phase \in {"looping", "committing"}
  /\ (published # Nil /\ ~ dirty /\ phase # "committing") => published = at
  /\ \A r \in Readers : reader[r] # "idle" => proc # "down"
  /\ \A r \in Readers : reader[r] = "loaded" => held[r] # Nil
  /\ \A r \in Readers :
       reader[r] = "locked" => published # Nil /\ held[r] = published

\* What a pass has listed is stored.
ListedAreStored ==
  listed \subseteq Stored(teamFeed) /\ queue \subseteq Stored(userFeed)

IInv ==
  /\ TypeOK
  /\ ListedAreStored
  /\ SlotsAreNumbered
  /\ TotalsHaveSlots
  /\ DatabaseIsItsLog
  /\ CycleIsTheDifference
  /\ Control
  /\ MemoryIsDurable

-----------------------------------------------------------------------------
(* Initially, and in steps that leave the corpus and the database alone. *)

\* The start values of a process and of the database have their types.
LEMMA EmptyValues ==
  /\ Nothing \in Totals
  /\ NoCycle \in Pending
  /\ [e \in Entities |-> NoSlot] \in [Entities -> Slots \cup {NoSlot}]
BY DEF Nothing, Totals, NoCycle, Pending

\* Publish times, and the zero time, can be compared.
LEMMA TimesAreNumbers == \A t \in Times \cup {0} : t \in Nat
BY TimesAssumption

\* LatestCycle: the newest committed time is one of them, or the zero time.
LEMMA NewestCommitted ==
  ASSUME IsFiniteSet(Committed)
  PROVE  /\ Latest(Committed) \in Times \cup {0}
         /\ Committed # {} => Latest(Committed) \in Committed
         /\ \A t \in Committed : t <= Latest(Committed)
<1>1. Committed \in SUBSET Nat
  BY TimesAssumption DEF Committed
<1>2. CASE Committed = {}
  BY <1>2 DEF Latest
<1>3. CASE Committed # {}
  BY <1>1, <1>3, LatestIsNewest DEF Committed
<1> QED
  BY <1>2, <1>3

\* An empty archive and an empty database satisfy the invariant.
LEMMA InitIInv == Init => IInv
<1> SUFFICES ASSUME Init
             PROVE  IInv
  OBVIOUS
<1>1. Committed = {} /\ IsFiniteSet(Committed)
  BY FS_EmptySet DEF Init, Committed
<1>2. Latest(Committed) = 0
  BY <1>1 DEF Latest
<1>3. TypeOK
  <2>1. 0 \in 0..MaxFaults
    BY MaxFaultsAssumption
  <2> QED
    BY <2>1, EmptyValues DEF Init, TypeOK
<1>4. SlotsAreNumbered
  <2>1. [k \in Kinds |-> 0] \in [Kinds -> Nat]
    OBVIOUS
  <2>2. Numbered([e \in Entities |-> NoSlot], [k \in Kinds |-> 0])
    BY DEF Numbered
  <2> QED
    BY <2>1, <2>2 DEF Init, SlotsAreNumbered
<1>5. TotalsHaveSlots
  BY DEF Init, TotalsHaveSlots, Nothing
<1>6. DatabaseIsItsLog
  BY <1>1, <1>2 DEF Init, DatabaseIsItsLog, TotalsAt
<1>7. ListedAreStored /\ CycleIsTheDifference /\ Control /\ MemoryIsDurable
  BY DEF Init, ListedAreStored, CycleIsTheDifference, Control, MemoryIsDurable,
         Unlocked
<1> QED
  BY <1>3, <1>4, <1>5, <1>6, <1>7 DEF IInv

\* What a step that changes neither the rows in memory nor the database keeps.
LEMMA RowsKept ==
  ASSUME SlotsAreNumbered, TotalsHaveSlots, DatabaseIsItsLog,
         UNCHANGED <<database, memSlot, memTotal, len>>
  PROVE  SlotsAreNumbered' /\ TotalsHaveSlots' /\ DatabaseIsItsLog'
<1>1. SlotsAreNumbered'
  BY DEF SlotsAreNumbered, Numbered, database
<1>2. TotalsHaveSlots'
  BY DEF TotalsHaveSlots, database
<1>3. DatabaseIsItsLog'
  BY DEF DatabaseIsItsLog, database, Committed, TotalsAt
<1> QED
  BY <1>1, <1>2, <1>3

\* And what it keeps if it leaves the rest of the corpus and the cycle alone.
LEMMA CorpusKept ==
  ASSUME IInv, UNCHANGED <<database, corpus>>,
         phase' = "committing" => phase = "committing" /\ cycle' = cycle,
         phase = "committing" => phase' = "committing",
         proc' # "down" => proc # "down"
  PROVE  /\ SlotsAreNumbered' /\ TotalsHaveSlots' /\ DatabaseIsItsLog'
         /\ CycleIsTheDifference' /\ MemoryIsDurable'
<1>1. SlotsAreNumbered' /\ TotalsHaveSlots' /\ DatabaseIsItsLog'
  BY RowsKept DEF IInv, corpus
<1>2. Committed' = Committed
  BY DEF Committed, database
<1>3. CycleIsTheDifference'
  BY <1>2 DEF IInv, CycleIsTheDifference, database, corpus
<1>4. MemoryIsDurable'
  BY <1>2 DEF IInv, MemoryIsDurable, TypeOK, database, corpus
<1> QED
  BY <1>1, <1>3, <1>4

-----------------------------------------------------------------------------
(* The archive and the requests change neither the corpus nor the database. *)

\* The archive grows under the pass without disturbing it: no time is stored
\* twice, so what was listed stays as it was.
LEMMA CollectStep == IInv /\ Collect => IInv'
<1> SUFFICES ASSUME IInv, NEW t \in Times, StoreTeams(t) \/ StoreUsers(t)
             PROVE  IInv'
  BY DEF Collect
<1>1. TypeOK'
  BY FilesAssumption DEF IInv, TypeOK, StoreTeams, StoreUsers, CallFollows,
                         database, corpus, pass, requests
<1>2. /\ SlotsAreNumbered' /\ TotalsHaveSlots' /\ DatabaseIsItsLog'
      /\ CycleIsTheDifference' /\ MemoryIsDurable'
  BY CorpusKept DEF StoreTeams, StoreUsers, pass
<1>3. Control'
  BY DEF IInv, Control, Unlocked, StoreTeams, StoreUsers, corpus, pass, requests
<1>4. ListedAreStored'
  BY DEF IInv, TypeOK, ListedAreStored, Stored, StoreTeams, StoreUsers, pass
<1> QED
  BY <1>1, <1>2, <1>3, <1>4 DEF IInv

\* A request changes nothing but itself, and a lock is granted only between
\* passes, to a request that holds the published snapshot.
LEMMA RequestStep ==
  ASSUME IInv, NEW r \in Readers,
         Request(r) \/ Load(r) \/ Adopt(r) \/ Retry(r) \/ Respond(r)
  PROVE  IInv'
<1>1. TypeOK'
  <2>1. CASE Request(r)
    BY <2>1 DEF IInv, TypeOK, Request, archive, database, corpus, pass
  <2>2. CASE Load(r)
    BY <2>2 DEF IInv, TypeOK, Load, archive, database, corpus, pass
  <2>3. CASE Adopt(r)
    BY <2>3 DEF IInv, TypeOK, Adopt, archive, database, corpus, pass
  <2>4. CASE Retry(r)
    BY <2>4 DEF IInv, TypeOK, Retry, archive, database, corpus, pass
  <2>5. CASE Respond(r)
    <3>1. [at |-> held[r], totals |-> memTotal] \in Answer
      BY <2>5 DEF IInv, TypeOK, Control, Respond, Answer
    <3> QED
      BY <2>5, <3>1 DEF IInv, TypeOK, Respond, archive, database, corpus, pass
  <2> QED
    BY <2>1, <2>2, <2>3, <2>4, <2>5
<1>2. /\ SlotsAreNumbered' /\ TotalsHaveSlots' /\ DatabaseIsItsLog'
      /\ CycleIsTheDifference' /\ MemoryIsDurable'
  BY CorpusKept DEF Request, Load, Adopt, Retry, Respond, pass
<1>3. Control'
  <2>1. CASE Request(r)
    BY <2>1 DEF IInv, TypeOK, Control, Unlocked, Request, corpus, pass
  <2>2. CASE Load(r)
    <3>1. /\ reader'[r] \in {"idle", "loaded"} /\ reader[r] = "asking"
          /\ reader'[r] = "loaded" => held'[r] # Nil
      BY <2>2 DEF IInv, TypeOK, Load
    <3>2. \A q \in Readers \ {r} : reader'[q] = reader[q] /\ held'[q] = held[q]
      BY <2>2 DEF IInv, TypeOK, Load
    <3>3. UNCHANGED <<proc, phase, failed, published, dirty, at>>
      BY <2>2 DEF Load, corpus, pass
    <3> QED
      BY <3>1, <3>2, <3>3 DEF IInv, Control, Unlocked
  <2>3. CASE Adopt(r)
    <3>1. phase = "idle" /\ published # Nil /\ held'[r] = published'
      BY <2>3 DEF IInv, Control, Adopt, Current, ReadLockFree, pass
    <3>2. reader[r] = "loaded"
      BY <2>3 DEF Adopt
    <3>3. \A q \in Readers \ {r} : reader'[q] = reader[q] /\ held'[q] = held[q]
      BY <2>3 DEF IInv, TypeOK, Adopt
    <3>4. UNCHANGED <<proc, phase, failed, published, dirty, at>>
      BY <2>3 DEF Adopt, corpus, pass
    <3> QED
      BY <3>1, <3>2, <3>3, <3>4 DEF IInv, Control
  <2>4. CASE Retry(r)
    BY <2>4 DEF IInv, TypeOK, Control, Unlocked, Retry, corpus, pass
  <2>5. CASE Respond(r)
    BY <2>5 DEF IInv, TypeOK, Control, Unlocked, Respond, corpus, pass
  <2> QED
    BY <2>1, <2>2, <2>3, <2>4, <2>5
<1>4. ListedAreStored'
  BY DEF IInv, ListedAreStored, Stored, Request, Load, Adopt, Retry, Respond,
         archive, pass
<1> QED
  BY <1>1, <1>2, <1>3, <1>4 DEF IInv

-----------------------------------------------------------------------------
(* The steps of a pass that only move the ingest thread. *)

\* The steps of a pass that leave the corpus alone.
LEMMA PassOnlyStep ==
  ASSUME IInv,
         \/ BeginIngest \/ Refuse \/ ListTeams \/ ListUsers
         \/ ListFails \/ RejectCycle \/ FinishPass
  PROVE  IInv'
<1>1. TypeOK'
  <2>1. CASE BeginIngest
    BY <2>1 DEF IInv, TypeOK, BeginIngest, CallIsOver, database, corpus, requests
  <2>2. CASE Refuse
    BY <2>2, EmptyValues
    DEF IInv, TypeOK, Refuse, EndPass, OffPass, archive, database, corpus, requests
  <2>3. CASE ListTeams \/ ListUsers
    BY <2>3 DEF IInv, TypeOK, ListTeams, ListUsers, Since, Stored, archive,
                database, corpus, requests
  <2>4. CASE ListFails
    <3>1. faults' \in 0..MaxFaults
      BY <2>4, MaxFaultsAssumption DEF IInv, TypeOK, ListFails
    <3> QED
      BY <2>4, <3>1, EmptyValues
      DEF IInv, TypeOK, ListFails, EndPass, OffPass, archive, database, corpus,
          requests
  <2>5. CASE RejectCycle
    <3>1. faults' \in 0..MaxFaults
      BY <2>5, MaxFaultsAssumption DEF IInv, TypeOK, RejectCycle
    <3> QED
      BY <2>5, <3>1 DEF IInv, TypeOK, RejectCycle, Rest, archive, database, corpus,
                        requests
  <2>6. CASE FinishPass
    BY <2>6, EmptyValues
    DEF IInv, TypeOK, FinishPass, EndPass, OffPass, archive, database, corpus,
        requests
  <2> QED
    BY <2>1, <2>2, <2>3, <2>4, <2>5, <2>6
<1>2. /\ SlotsAreNumbered' /\ TotalsHaveSlots' /\ DatabaseIsItsLog'
      /\ CycleIsTheDifference' /\ MemoryIsDurable'
  <2>1. /\ UNCHANGED <<database, corpus>>
        /\ phase # "committing" /\ phase' # "committing"
    BY DEF BeginIngest, Refuse, ListTeams, ListUsers, ListFails, RejectCycle,
           FinishPass, EndPass, OffPass
  <2>2. proc # "down"
    BY DEF IInv, Control, BeginIngest, Refuse, ListTeams, ListUsers, ListFails,
           RejectCycle, FinishPass
  <2> QED
    BY <2>1, <2>2, CorpusKept
<1>3. Control'
  <2>1. CASE BeginIngest \/ Refuse
    BY <2>1 DEF IInv, TypeOK, Control, Unlocked, BeginIngest, Refuse, EndPass,
                OffPass, corpus, requests
  <2>2. CASE ListTeams \/ ListUsers
    BY <2>2 DEF IInv, TypeOK, Control, Unlocked, ListTeams, ListUsers, corpus,
                requests
  <2>3. CASE ListFails
    BY <2>3 DEF IInv, TypeOK, Control, Unlocked, ListFails, EndPass, OffPass,
                corpus, requests
  <2>4. CASE RejectCycle
    BY <2>4 DEF IInv, TypeOK, Control, Unlocked, RejectCycle, corpus, requests
  <2>5. CASE FinishPass
    BY <2>5 DEF IInv, TypeOK, Control, Unlocked, FinishPass, EndPass, OffPass,
                corpus, requests
  <2> QED
    BY <2>1, <2>2, <2>3, <2>4, <2>5
<1>4. ListedAreStored'
  <2>1. UNCHANGED <<teamFeed, userFeed>>
    BY DEF BeginIngest, Refuse, ListTeams, ListUsers, ListFails, RejectCycle,
           FinishPass, archive
  <2>2. listed' = listed \/ listed' = {} \/ listed' = Since(teamFeed)
    BY DEF BeginIngest, Refuse, ListTeams, ListUsers, ListFails, RejectCycle,
           FinishPass, EndPass, OffPass
  <2>3. queue' \subseteq queue \/ queue' = Since(userFeed)
    BY DEF BeginIngest, Refuse, ListTeams, ListUsers, ListFails, RejectCycle, Rest,
           FinishPass, EndPass, OffPass
  <2> QED
    BY <2>1, <2>2, <2>3 DEF IInv, ListedAreStored, Since, Stored
<1> QED
  BY <1>1, <1>2, <1>3, <1>4 DEF IInv

-----------------------------------------------------------------------------
(* The process stops and starts. *)

\* A crash loses the memory; what is left is what the database tells.
LEMMA CrashStep == IInv /\ Crash => IInv'
<1> SUFFICES ASSUME IInv, Crash
             PROVE  IInv'
  OBVIOUS
<1>1. TypeOK'
  <2>1. faults' \in 0..MaxFaults
    BY MaxFaultsAssumption DEF IInv, TypeOK, Crash
  <2> QED
    BY <2>1, EmptyValues
    DEF IInv, TypeOK, Crash, CallIsOver, Blank, OffPass, database
<1>2. SlotsAreNumbered'
  <2>1. Numbered(memSlot, len)'
    BY DEF Crash, Blank, Numbered
  <2>2. \E n \in [Kinds -> Nat] : Numbered(dbSlot, n)'
    BY DEF IInv, SlotsAreNumbered, Numbered, Crash, database
  <2> QED
    BY <2>1, <2>2 DEF SlotsAreNumbered
<1>3. TotalsHaveSlots'
  BY DEF IInv, TotalsHaveSlots, Crash, Blank, Nothing, database
<1>4. DatabaseIsItsLog'
  BY DEF IInv, DatabaseIsItsLog, Crash, database, Committed, TotalsAt
<1>5. CycleIsTheDifference' /\ MemoryIsDurable'
  BY DEF CycleIsTheDifference, MemoryIsDurable, Crash, OffPass
<1>6. Control'
  BY DEF IInv, Control, Unlocked, Crash, Blank, OffPass
<1>7. ListedAreStored'
  BY DEF ListedAreStored, Crash, OffPass
<1> QED
  BY <1>1, <1>2, <1>3, <1>4, <1>5, <1>6, <1>7 DEF IInv

\* Entities that are numbered store their numbers without a gap.
LEMMA StoredAreDense ==
  ASSUME IInv, NEW n \in [Kinds -> Nat], Numbered(dbSlot, n), NEW k \in Kinds
  PROVE  StoredSlots(k) = 0..(n[k] - 1)
<1>1. ASSUME NEW i \in StoredSlots(k)
      PROVE  i \in 0..(n[k] - 1)
  <2>1. PICK e \in Of(k) : dbSlot[e] # NoSlot /\ i = dbSlot[e][2]
    BY DEF StoredSlots
  <2>2. e \in Entities /\ Kind(e) = k
    BY EntitiesAssumption, FiniteAssumption DEF Kinds, Of, Entities, Kind
  <2>3. dbSlot[e] \in Slots
    BY <2>1, <2>2 DEF IInv, TypeOK
  <2> QED
    BY <2>1, <2>2, <2>3 DEF Numbered, Slots
<1>2. ASSUME NEW i \in 0..(n[k] - 1)
      PROVE  i \in StoredSlots(k)
  <2>1. PICK e \in Entities : dbSlot[e] = <<k, i>>
    BY DEF Numbered
  <2>2. <<k, i>> \in Slots /\ <<k, i>>[1] = k /\ <<k, i>>[2] = i
    BY DEF Slots
  <2>3. dbSlot[e] # NoSlot
    BY <2>1, <2>2, SentinelAssumption DEF Slots, Kinds
  <2>4. Kind(e) = k
    BY <2>1, <2>2, <2>3 DEF Numbered
  <2>5. e \in Of(k)
    BY <2>4 DEF Kind, Of, Entities, Kinds
  <2> QED
    BY <2>1, <2>2, <2>3, <2>5 DEF StoredSlots
<1> QED
  BY <1>1, <1>2

\* LoadIdentity numbers the entities as the database does.
LEMMA LoadedNumbers ==
  ASSUME IInv, Restart
  PROVE  len' \in [Kinds -> Nat] /\ Numbered(dbSlot, len')
<1>1. PICK n \in [Kinds -> Nat] : Numbered(dbSlot, n)
  BY DEF IInv, SlotsAreNumbered
<1>2. \A k \in Kinds : Cardinality(Of(k)) \in Nat
  BY EntitiesAssumption, FiniteAssumption, FS_CardinalityType DEF Kinds, Of
<1>3. \A k \in Kinds : len'[k] \in Nat /\ Dense(k, len'[k])
  BY <1>2 DEF Restart, Loadable
<1>4. len' \in [Kinds -> Nat]
  BY <1>3 DEF Restart
<1>5. ASSUME NEW k \in Kinds
      PROVE  len'[k] = n[k]
  <2>1. StoredSlots(k) = 0..(n[k] - 1)
    BY <1>1, StoredAreDense
  <2>2. 0..(n[k] - 1) = 0..(len'[k] - 1)
    BY <2>1, <1>3 DEF Dense
  <2>3. n[k] \in Nat /\ len'[k] \in Nat
    BY <1>1, <1>3
  <2>4. ASSUME NEW a \in Nat, NEW b \in Nat, 0..(a - 1) = 0..(b - 1)
        PROVE  a = b
    <3>1. a < b => a \in 0..(b - 1) /\ a \notin 0..(a - 1)
      OBVIOUS
    <3>2. b < a => b \in 0..(a - 1) /\ b \notin 0..(b - 1)
      OBVIOUS
    <3> QED
      BY <2>4, <3>1, <3>2
  <2> QED
    BY <2>2, <2>3, <2>4
<1>6. len' = n
  BY <1>1, <1>4, <1>5
<1> QED
  BY <1>1, <1>4, <1>6

\* LoadIdentity rebuilds a corpus that agrees with the database.
LEMMA RestartStep == IInv /\ Restart => IInv'
<1> SUFFICES ASSUME IInv, Restart
             PROVE  IInv'
  OBVIOUS
<1>1. len' \in [Kinds -> Nat] /\ Numbered(dbSlot, len')
  BY LoadedNumbers
<1>2. Latest(Committed) \in Times \cup {0} /\ Committed \subseteq Times
  BY NewestCommitted DEF IInv, DatabaseIsItsLog, Committed
<1>3. TypeOK'
  BY <1>1, <1>2 DEF IInv, TypeOK, Restart, archive, database, requests
<1>4. SlotsAreNumbered'
  <2>1. memSlot' = dbSlot /\ dbSlot' = dbSlot
    BY DEF Restart, database
  <2> QED
    BY <1>1, <2>1 DEF SlotsAreNumbered, Numbered
<1>5. TotalsHaveSlots'
  BY DEF IInv, TotalsHaveSlots, Restart, database
<1>6. DatabaseIsItsLog'
  BY DEF IInv, DatabaseIsItsLog, Restart, database, Committed, TotalsAt
<1>7. CycleIsTheDifference' /\ MemoryIsDurable'
  BY DEF CycleIsTheDifference, MemoryIsDurable, Restart, database, Committed
<1>8. Control'
  BY DEF IInv, TypeOK, Control, Unlocked, Restart, requests
<1>9. ListedAreStored'
  BY DEF IInv, ListedAreStored, Stored, Restart, archive
<1> QED
  BY <1>3, <1>4, <1>5, <1>6, <1>7, <1>8, <1>9 DEF IInv

-----------------------------------------------------------------------------
(* Apply: the memory moves ahead of the database by one cycle. *)

\* The pair that comes next is newer than what was applied.
LEMMA NextIsDue ==
  ASSUME TypeOK, DueTimes # {}
  PROVE  /\ NextDue \in queue /\ NextDue \in Times
         /\ NextDue > at
         /\ UpTo(listed, NextDue) # {}
<1>1. DueTimes \in SUBSET Nat /\ DueTimes \subseteq Times
  BY TimesAssumption DEF TypeOK, DueTimes
<1>2. NextDue \in DueTimes
  BY <1>1, OldestIsMember DEF NextDue
<1> QED
  BY <1>1, <1>2 DEF DueTimes, Due

\* What is read and accepted is a row or nothing for each entity.
LEMMA SnapshotType ==
  ASSUME TypeOK, ListedAreStored, NEW u \in Times, u \in queue,
         UpTo(listed, u) # {}, Good(u)
  PROVE  Snapshot(u) \in Totals
<1>1. UpTo(listed, u) \in SUBSET Nat /\ u \in Nat
  BY TimesAssumption DEF TypeOK, UpTo
<1>2. IsFiniteSet(UpTo(listed, u))
  BY <1>1, FS_BoundedSetOfNaturals DEF UpTo
<1>3. Latest(UpTo(listed, u)) \in UpTo(listed, u)
  BY <1>1, <1>2, LatestIsNewest
<1>4. TeamsOf(u) \in TeamFile
  BY <1>3 DEF TypeOK, ListedAreStored, Stored, UpTo, TeamsOf, Good
<1>5. userFeed[u] \in UserFile
  BY DEF TypeOK, ListedAreStored, Stored, Good
<1>6. Admitted(TeamsOf(u), userFeed[u]) \in UserFile
  BY <1>5 DEF Admitted, UserFile
<1> QED
  BY <1>4, <1>6 DEF Snapshot, Totals, TeamFile, UserFile, Entities

\* The slots that Apply appends are numbered on from those there are.
LEMMA AppendedNumbers ==
  ASSUME IInv, NEW F \in SUBSET Entities,
         \A e \in F : memSlot[e] = NoSlot,
         NEW f \in Numberings(F)
  PROVE  LET slot == [e \in Entities |-> IF e \in F THEN f[e] ELSE memSlot[e]]
             n == [k \in Kinds |-> len[k] + CountOf(k, F)]
         IN /\ slot \in [Entities -> Slots \cup {NoSlot}]
            /\ n \in [Kinds -> Nat]
            /\ \A e \in F : slot[e] # NoSlot
            /\ Numbered(slot, n)
<1> DEFINE slot == [e \in Entities |-> IF e \in F THEN f[e] ELSE memSlot[e]]
           n == [k \in Kinds |-> len[k] + CountOf(k, F)]
<1>1. \A k \in Kinds : CountOf(k, F) \in Nat
  <2> SUFFICES ASSUME NEW k \in Kinds
               PROVE  CountOf(k, F) \in Nat
    OBVIOUS
  <2>1. IsFiniteSet(Of(k))
    BY EntitiesAssumption, FiniteAssumption DEF Of
  <2>2. IsFiniteSet(F \cap Of(k))
    BY <2>1, FS_Subset
  <2> QED
    BY <2>2, FS_CardinalityType DEF CountOf
<1>2. \A k \in Kinds : len[k] \in Nat
  BY DEF IInv, TypeOK
<1>3. n \in [Kinds -> Nat] /\ \A k \in Kinds : n[k] >= len[k]
  BY <1>1, <1>2
<1>4. \A e \in Entities : Kind(e) \in Kinds
  BY DEF Kind, Kinds
<1>5. /\ f \in [F -> NextSlots(F)]
      /\ \A a, b \in F : f[a] = f[b] => a = b
      /\ \A s \in NextSlots(F) : \E e \in F : f[e] = s
      /\ \A e \in F : f[e][1] = Kind(e)
  BY DEF Numberings, Bijection, Injection, Surjection, IsInjective
<1>6. ASSUME NEW e \in F
      PROVE  /\ f[e] \in Slots /\ f[e] # NoSlot
             /\ len[Kind(e)] <= f[e][2] /\ f[e][2] < n[Kind(e)]
  <2>1. PICK k \in Kinds : f[e] \in {k} \X (len[k]..(len[k] + CountOf(k, F) - 1))
    BY <1>5 DEF NextSlots
  <2>2. f[e][1] = k /\ f[e][2] \in len[k]..(len[k] + CountOf(k, F) - 1)
    BY <2>1
  <2>3. k = Kind(e)
    BY <1>5, <2>2
  <2>4. f[e] \in Slots
    BY <2>1, <1>1, <1>2 DEF Slots
  <2>5. f[e] # NoSlot
    BY <2>4, SentinelAssumption DEF Slots, Kinds
  <2> QED
    BY <2>2, <2>3, <2>4, <2>5, <1>1, <1>2
<1>7. slot \in [Entities -> Slots \cup {NoSlot}]
  BY <1>6 DEF IInv, TypeOK
<1>8. Numbered(memSlot, len)
  BY DEF IInv, SlotsAreNumbered
<1>9. \A e \in Entities : memSlot[e] # NoSlot => memSlot[e] \in Slots
  BY DEF IInv, TypeOK
<1>10. Numbered(slot, n)
  <2>1. \A e \in Entities : slot[e] # NoSlot => slot[e][1] = Kind(e)
    BY <1>5, <1>8 DEF Numbered
  <2>2. ASSUME NEW e \in Entities, NEW x \in Entities,
               slot[e] # NoSlot, slot[x] = slot[e]
        PROVE  x = e
    <3>1. CASE e \in F /\ x \in F
      BY <3>1, <2>2, <1>5
    <3>2. CASE e \notin F /\ x \notin F
      BY <3>2, <2>2, <1>8 DEF Numbered
    <3>3. ASSUME NEW a \in F, NEW b \in Entities \ F, memSlot[b] # NoSlot
          PROVE  f[a] # memSlot[b]
      <4>1. memSlot[b][1] = Kind(b) /\ memSlot[b][2] < len[Kind(b)]
        BY <3>3, <1>8 DEF Numbered
      <4>2. memSlot[b][2] \in Nat
        BY <3>3, <1>9 DEF Slots
      <4>3. f[a][1] = Kind(a) /\ len[Kind(a)] <= f[a][2] /\ f[a][2] \in Nat
        BY <1>5, <1>6 DEF Slots
      <4> QED
        BY <4>1, <4>2, <4>3, <1>2, <1>4
    <3> QED
      BY <2>2, <3>1, <3>2, <3>3
  <2>3. ASSUME NEW e \in Entities, slot[e] # NoSlot
        PROVE  slot[e][2] < n[Kind(e)]
    <3>1. CASE e \in F
      BY <3>1, <1>6
    <3>2. CASE e \notin F
      <4>1. memSlot[e][2] < len[Kind(e)] /\ memSlot[e][2] \in Nat
        BY <3>2, <2>3, <1>8, <1>9 DEF Numbered, Slots
      <4> HIDE DEF n
      <4> QED
        BY <3>2, <4>1, <1>2, <1>3, <1>4
    <3> QED
      BY <3>1, <3>2
  <2>4. ASSUME NEW k \in Kinds, NEW i \in 0..(n[k] - 1)
        PROVE  \E e \in Entities : slot[e] = <<k, i>>
    <3>1. CASE i < len[k]
      <4>1. i \in 0..(len[k] - 1)
        BY <3>1, <1>2
      <4>2. PICK e \in Entities : memSlot[e] = <<k, i>>
        BY <4>1, <1>8 DEF Numbered
      <4>3. <<k, i>> \in Slots
        BY <4>1, <1>2 DEF Slots
      <4>4. memSlot[e] # NoSlot
        BY <4>2, <4>3, SentinelAssumption DEF Slots, Kinds
      <4> QED
        BY <4>2, <4>4
    <3>2. CASE ~ (i < len[k])
      <4>1. i \in len[k]..(len[k] + CountOf(k, F) - 1)
        BY <3>2, <1>1, <1>2
      <4>2. <<k, i>> \in NextSlots(F)
        BY <4>1 DEF NextSlots
      <4>3. PICK e \in F : f[e] = <<k, i>>
        BY <4>2, <1>5
      <4> QED
        BY <4>3
    <3> QED
      BY <3>1, <3>2
  <2> QED
    BY <2>1, <2>2, <2>3, <2>4 DEF Numbered
<1> QED
  BY <1>3, <1>6, <1>7, <1>10

\* Apply takes the corpus one cycle ahead of the database, by exactly the
\* cycle that it returns.
LEMMA ApplyCycleStep == IInv /\ ApplyCycle => IInv'
<1> SUFFICES ASSUME IInv, ApplyCycle
             PROVE  IInv'
  OBVIOUS
<1> DEFINE rows == Snapshot(NextDue)
           F == Fresh(rows)
<1>1. /\ NextDue \in queue /\ NextDue \in Times /\ NextDue > at
      /\ UpTo(listed, NextDue) # {}
  BY NextIsDue DEF IInv, ApplyCycle
<1>2. rows \in Totals
  BY <1>1, SnapshotType DEF IInv, ApplyCycle
<1>3. F = {e \in Entities : rows[e] # Absent /\ memSlot[e] = NoSlot}
  BY <1>2 DEF Fresh, Present, Totals
<1>4. PICK f \in Numberings(F) :
        memSlot' = [e \in Entities |-> IF e \in F THEN f[e] ELSE memSlot[e]]
  BY DEF ApplyCycle
<1>5. /\ len' = [k \in Kinds |-> len[k] + CountOf(k, F)]
      /\ memTotal' = [e \in Entities |-> IF rows[e] # Absent THEN rows[e]
                                         ELSE memTotal[e]]
      /\ cycle' = [at |-> NextDue, fresh |-> F, delta |-> Production(rows)]
      /\ at' = NextDue
      /\ phase = "looping" /\ phase' = "committing"
      /\ UNCHANGED <<archive, database, proc, winAt, applied, failed, listed,
                     queue, dirty, published, requests, faults>>
  BY <1>2 DEF ApplyCycle, Present, Totals
<1>6. /\ memSlot' \in [Entities -> Slots \cup {NoSlot}]
      /\ len' \in [Kinds -> Nat]
      /\ \A e \in F : memSlot'[e] # NoSlot
      /\ Numbered(memSlot', len')
  BY <1>3, <1>4, <1>5, AppendedNumbers
<1>7. /\ memSlot = dbSlot /\ memTotal = dbTotal
      /\ at = Latest(Committed) /\ applied = Committed
      /\ proc # "down"
  BY <1>5 DEF IInv, TypeOK, Control, MemoryIsDurable
<1>8. /\ Production(rows) \in Totals
      /\ \A e \in Entities :
           IF Production(rows)[e] = Absent
           THEN e \notin F => memTotal'[e] = memTotal[e]
           ELSE memSlot[e] # NoSlot
  <2> SUFFICES ASSUME NEW e \in Entities
               PROVE  /\ Production(rows)[e] \in Row \cup {Absent}
                      /\ IF Production(rows)[e] = Absent
                         THEN e \notin F => memTotal'[e] = memTotal[e]
                         ELSE memSlot[e] # NoSlot
    BY DEF Production, Totals
  <2>1. CASE rows[e] # Absent /\ e \notin F /\ rows[e] # memTotal[e]
    <3>1. memSlot[e] # NoSlot /\ rows[e] \in Row
      BY <2>1, <1>2, <1>3 DEF Totals
    <3>2. memTotal[e] \in Row
      BY <3>1 DEF IInv, TypeOK, TotalsHaveSlots, Totals
    <3>3. Change(memTotal[e], rows[e]) \in Row
      BY <3>1, <3>2 DEF Change, Row
    <3>4. Production(rows)[e] = Change(memTotal[e], rows[e])
      BY <2>1, <1>2 DEF Production, Present, Totals
    <3> QED
      BY <3>1, <3>3, <3>4, AbsentAssumption
  <2>2. CASE ~ (rows[e] # Absent /\ e \notin F /\ rows[e] # memTotal[e])
    <3>1. Production(rows)[e] = Absent
      BY <2>2, <1>2 DEF Production, Present, Totals
    <3> QED
      BY <2>2, <3>1, <1>5
  <2> QED
    BY <2>1, <2>2
<1>9. TypeOK'
  <2>1. memTotal' \in Totals
    BY <1>2, <1>5 DEF IInv, TypeOK, Totals
  <2>2. cycle' \in Pending
    BY <1>1, <1>3, <1>5, <1>8 DEF Pending
  <2> QED
    BY <1>1, <1>5, <1>6, <2>1, <2>2
    DEF IInv, TypeOK, archive, database, requests
<1>10. SlotsAreNumbered'
  <2>1. \E n \in [Kinds -> Nat] : Numbered(dbSlot, n)'
    BY <1>5 DEF IInv, SlotsAreNumbered, Numbered, database
  <2> QED
    BY <1>6, <2>1 DEF SlotsAreNumbered, Numbered
<1>11. TotalsHaveSlots'
  <2> SUFFICES ASSUME NEW e \in Entities
               PROVE  memSlot'[e] = NoSlot <=> memTotal'[e] = Absent
    BY <1>5 DEF IInv, TotalsHaveSlots, database
  <2>1. CASE rows[e] # Absent
    BY <2>1, <1>3, <1>4, <1>5, <1>6
  <2>2. CASE rows[e] = Absent
    BY <2>2, <1>3, <1>4, <1>5 DEF IInv, TotalsHaveSlots
  <2> QED
    BY <2>1, <2>2
<1>12. DatabaseIsItsLog'
  BY <1>5 DEF IInv, DatabaseIsItsLog, database, Committed, TotalsAt
<1>13. CycleIsTheDifference'
  <2>1. Committed' = Committed
    BY <1>5 DEF Committed, database
  <2>2. \A t \in Committed : t < at'
    <3>1. \A t \in Committed : t <= at /\ t \in Nat
      BY <1>7, NewestCommitted, TimesAssumption
      DEF IInv, DatabaseIsItsLog, Committed
    <3>2. at \in Nat /\ at' \in Nat /\ at' > at
      BY <1>1, <1>5, TimesAssumption DEF IInv, TypeOK
    <3> QED
      BY <3>1, <3>2
  <2>3. cycle'.fresh = {e \in Entities : dbSlot[e] = NoSlot /\ memSlot'[e] # NoSlot}
    BY <1>3, <1>4, <1>5, <1>6, <1>7
  <2>4. \A e \in Entities : dbSlot[e] # NoSlot => memSlot'[e] = dbSlot[e]
    BY <1>3, <1>4, <1>7
  <2>5. \A e \in Entities : IF cycle'.delta[e] = Absent
                            THEN e \notin cycle'.fresh => memTotal'[e] = dbTotal[e]
                            ELSE dbSlot[e] # NoSlot
    BY <1>5, <1>7, <1>8
  <2> QED
    BY <1>1, <1>5, <1>7, <2>1, <2>2, <2>3, <2>4, <2>5
    DEF CycleIsTheDifference, database
<1>14. Control'
  BY <1>5, <1>7 DEF IInv, Control, Unlocked, requests
<1>15. MemoryIsDurable'
  BY <1>5 DEF MemoryIsDurable
<1>16. ListedAreStored'
  BY <1>5 DEF IInv, ListedAreStored, Stored, archive
<1> QED
  BY <1>9, <1>10, <1>11, <1>12, <1>13, <1>14, <1>15, <1>16 DEF IInv

-----------------------------------------------------------------------------
(* WriteCycle: the database catches up. *)

\* What is written is what the memory is ahead by: every first sighting is
\* inserted in its own slot, and every delta meets the row of its entity.
LEMMA CommitCatchesUp ==
  ASSUME IInv, phase = "committing"
  PROVE  /\ Inserted = cycle.fresh
         /\ SlotsAfter = memSlot
         /\ TotalsAfter = memTotal
         /\ DeltasAfter = cycle.delta
<1>1. /\ memSlot \in [Entities -> Slots \cup {NoSlot}]
      /\ memTotal \in Totals /\ cycle.delta \in Totals
      /\ \A e, x \in Entities : memSlot[e] # NoSlot /\ memSlot[x] = memSlot[e] => x = e
  BY DEF IInv, TypeOK, Pending, SlotsAreNumbered, Numbered
<1>2. /\ cycle.fresh = {e \in Entities : dbSlot[e] = NoSlot /\ memSlot[e] # NoSlot}
      /\ \A e \in Entities : dbSlot[e] # NoSlot => memSlot[e] = dbSlot[e]
      /\ \A e \in Entities : IF cycle.delta[e] = Absent
                             THEN e \notin cycle.fresh => memTotal[e] = dbTotal[e]
                             ELSE dbSlot[e] # NoSlot
  BY DEF IInv, CycleIsTheDifference
<1>3. Inserted = cycle.fresh
  BY <1>1, <1>2 DEF Inserted
<1>4. SlotsAfter = memSlot
  BY <1>1, <1>2, <1>3 DEF SlotsAfter
<1>5. ASSUME NEW x \in Entities
      PROVE  Writers(x) = IF cycle.delta[x] = Absent THEN {} ELSE {x}
  BY <1>1, <1>2, <1>4 DEF Writers
<1>6. ASSUME NEW x \in Entities, cycle.delta[x] # Absent
      PROVE  Writer(x) = x
  BY <1>5, <1>6 DEF Writer
<1>7. TotalsAfter = memTotal
  <2>1. ASSUME NEW x \in Entities
        PROVE  TotalsAfter[x] = memTotal[x]
    BY <1>2, <1>3, <1>5, <1>6 DEF TotalsAfter
  <2> QED
    BY <2>1, <1>1 DEF TotalsAfter, Totals
<1>8. DeltasAfter = cycle.delta
  <2>1. ASSUME NEW x \in Entities
        PROVE  DeltasAfter[x] = cycle.delta[x]
    BY <1>5, <1>6 DEF DeltasAfter
  <2> QED
    BY <2>1, <1>1 DEF DeltasAfter, Totals
<1> QED
  BY <1>3, <1>4, <1>7, <1>8

\* WriteCycle makes the database catch up with the corpus.
LEMMA CommitCycleStep == IInv /\ CommitCycle => IInv'
<1> SUFFICES ASSUME IInv, CommitCycle
             PROVE  IInv'
  OBVIOUS
<1>1. /\ cycle.at = at /\ at \in Times
      /\ \A t \in Committed : t < at
      /\ applied = Committed
      /\ proc # "down" /\ ~ failed
  BY DEF IInv, CommitCycle, CycleIsTheDifference, Control
<1>2. /\ dbSlot' = memSlot /\ dbTotal' = memTotal
      /\ cycles' = [cycles EXCEPT ![at] = [fresh |-> cycle.fresh,
                                           delta |-> cycle.delta]]
      /\ history' = [history EXCEPT ![at] = memTotal]
      /\ winAt' = at /\ applied' = applied \cup {at}
      /\ phase' = "looping" /\ cycle' = NoCycle /\ dirty' = TRUE
      /\ UNCHANGED <<archive, proc, memSlot, memTotal, len, at, failed, listed,
                     queue, published, requests, faults>>
  BY <1>1, CommitCatchesUp DEF CommitCycle
<1>3. [fresh |-> cycle.fresh, delta |-> cycle.delta] \in Cycle
  BY DEF IInv, TypeOK, Pending, Cycle
<1>4. TypeOK'
  BY <1>1, <1>2, <1>3, EmptyValues DEF IInv, TypeOK, archive, requests
<1>5. SlotsAreNumbered'
  BY <1>2 DEF IInv, TypeOK, SlotsAreNumbered, Numbered
<1>6. TotalsHaveSlots'
  BY <1>2 DEF IInv, TotalsHaveSlots
<1>7. Committed' = Committed \cup {at}
  <2>1. cycles'[at] # Absent
    BY <1>1, <1>2, <1>3, RowlessAssumption DEF IInv, TypeOK
  <2>2. \A t \in Times \ {at} : cycles'[t] = cycles[t]
    BY <1>2 DEF IInv, TypeOK
  <2> QED
    BY <1>1, <2>1, <2>2 DEF Committed
<1>8. IsFiniteSet(Committed')
  BY <1>7, FS_AddElement DEF IInv, DatabaseIsItsLog
<1>9. Latest(Committed') = at
  <2>1. Committed' \in SUBSET Nat /\ at \in Committed' /\ at \in Nat
    BY <1>1, <1>7, TimesAssumption DEF Committed
  <2>2. /\ Latest(Committed') \in Committed'
        /\ at <= Latest(Committed')
    BY <1>8, <2>1, LatestIsNewest
  <2>3. \A t \in Committed' : t <= at
    BY <1>1, <1>7, <2>1
  <2>4. Latest(Committed') \in Nat /\ Latest(Committed') <= at
    BY <2>1, <2>2, <2>3
  <2> QED
    BY <2>1, <2>2, <2>4
<1>10. DatabaseIsItsLog'
  <2>1. \A t \in Times : cycles'[t] = Absent <=> history'[t] = Absent
    BY <1>1, <1>2, <1>3, RowlessAssumption DEF IInv, TypeOK, DatabaseIsItsLog
  <2>2. at # 0 /\ history'[at] = memTotal
    BY <1>1, <1>2, TimesAssumption DEF IInv, TypeOK
  <2>3. dbTotal' = TotalsAt(Latest(Committed))'
    BY <1>2, <1>9, <2>2 DEF TotalsAt
  <2> QED
    BY <1>8, <2>1, <2>3 DEF DatabaseIsItsLog
<1>11. MemoryIsDurable'
  BY <1>1, <1>2, <1>7, <1>9 DEF MemoryIsDurable
<1>12. CycleIsTheDifference' /\ ListedAreStored'
  BY <1>2 DEF IInv, CycleIsTheDifference, ListedAreStored, Stored, archive
<1>13. Control'
  BY <1>1, <1>2 DEF IInv, Control, Unlocked, CommitCycle, requests
<1> QED
  BY <1>4, <1>5, <1>6, <1>10, <1>11, <1>12, <1>13 DEF IInv

\* A failed commit leaves the corpus ahead, with nothing published.
LEMMA CommitFailsStep == IInv /\ CommitFails => IInv'
<1> SUFFICES ASSUME IInv, CommitFails
             PROVE  IInv'
  OBVIOUS
<1>1. TypeOK'
  <2>1. faults' \in 0..MaxFaults
    BY MaxFaultsAssumption DEF IInv, TypeOK, CommitFails
  <2> QED
    BY <2>1, EmptyValues
    DEF IInv, TypeOK, CommitFails, FailClosed, EndPass, OffPass, archive, database, requests
<1>2. SlotsAreNumbered' /\ TotalsHaveSlots' /\ DatabaseIsItsLog'
  BY RowsKept DEF IInv, CommitFails
<1>3. CycleIsTheDifference' /\ MemoryIsDurable' /\ ListedAreStored'
  BY DEF CycleIsTheDifference, MemoryIsDurable, ListedAreStored, CommitFails, FailClosed,
         EndPass, OffPass
<1>4. Control'
  BY DEF IInv, TypeOK, Control, Unlocked, CommitFails, FailClosed, EndPass, OffPass, requests
<1> QED
  BY <1>1, <1>2, <1>3, <1>4 DEF IInv

-----------------------------------------------------------------------------
(* The invariant, and what it gives. *)

\* Every step preserves the invariant.
LEMMA StepIInv == IInv /\ [Next]_vars => IInv'
<1> SUFFICES ASSUME IInv, [Next]_vars
             PROVE  IInv'
  OBVIOUS
<1>1. CASE Collect
  BY <1>1, CollectStep
<1>2. CASE Restart
  BY <1>2, RestartStep
<1>3. CASE Crash
  BY <1>3, CrashStep
<1>4. CASE BeginIngest
  BY <1>4, PassOnlyStep
<1>5. CASE PassStep
  <2>1. CASE ApplyCycle
    BY <2>1, ApplyCycleStep
  <2>2. CASE CommitCycle
    BY <2>2, CommitCycleStep
  <2> QED
    BY <1>5, <2>1, <2>2, PassOnlyStep DEF PassStep
<1>6. CASE ListFails
  BY <1>6, PassOnlyStep
<1>7. CASE CommitFails
  BY <1>7, CommitFailsStep
<1>8. CASE \E r \in Readers : Request(r) \/ Serve(r) \/ Enter(r)
  BY <1>8, RequestStep DEF Serve, Enter
<1>9. CASE UNCHANGED vars
  <2>1. UNCHANGED <<archive, database, proc, corpus, pass, published, requests,
                    faults>>
    BY <1>9 DEF vars
  <2>2. TypeOK'
    BY <2>1 DEF IInv, TypeOK, archive, database, corpus, pass, requests
  <2>3. /\ SlotsAreNumbered' /\ TotalsHaveSlots' /\ DatabaseIsItsLog'
        /\ CycleIsTheDifference' /\ MemoryIsDurable'
    BY <2>1, CorpusKept DEF pass
  <2>4. Control' /\ ListedAreStored'
    BY <2>1 DEF IInv, Control, Unlocked, ListedAreStored, Stored, archive, corpus,
                pass, requests
  <2> QED
    BY <2>2, <2>3, <2>4 DEF IInv
<1> QED
  BY <1>1, <1>2, <1>3, <1>4, <1>5, <1>6, <1>7, <1>8, <1>9 DEF Next

\* The inductive invariant holds of every behaviour; the safety theorems below
\* follow from it (service.go:245-402, store.go:162-354, server.go:49-63).
THEOREM Invariance == Spec => []IInv
BY InitIInv, StepIInv, PTL DEF Spec

\* The model's values keep their types, whatever crashes and fails.
THEOREM TypeCorrect == Spec => []TypeOK
<1>1. IInv => TypeOK
  BY DEF IInv
<1> QED
  BY <1>1, Invariance, PTL

\* The corpus in memory is what a restart would load, for every corpus, archive
\* and number of faults (service.go:360-369).
THEOREM Durability == Spec => []MemoryIsDurable
<1>1. IInv => MemoryIsDurable
  BY DEF IInv
<1> QED
  BY <1>1, Invariance, PTL

\* A request under the lock answers from one committed cycle, although its
\* snapshot points into the structures that ingest changes (server.go:49-63).
THEOREM OneCycle == Spec => []ReadersSeeOneCycle
<1>1. ASSUME IInv
      PROVE  ReadersSeeOneCycle
  <2> SUFFICES ASSUME NEW r \in Readers, reader[r] = "locked"
               PROVE  held[r] = at /\ winAt = at /\ memTotal = TotalsAt(at)
    BY DEF ReadersSeeOneCycle
  <2>1. published # Nil /\ held[r] = published /\ proc # "down" /\ ~ failed
    BY <1>1 DEF IInv, Control
  <2>2. phase \in {"idle", "waiting"} /\ ~ dirty
    BY <1>1 DEF IInv, TypeOK, Control, Unlocked
  <2>3. published = at
    BY <1>1, <2>1, <2>2 DEF IInv, Control
  <2>4. memTotal = dbTotal /\ at = Latest(Committed) /\ winAt = at
    BY <1>1, <2>1, <2>2 DEF IInv, TypeOK, MemoryIsDurable
  <2> QED
    BY <1>1, <2>1, <2>3, <2>4 DEF IInv, DatabaseIsItsLog
<1> QED
  BY <1>1, Invariance, PTL

\* After a failed commit nothing is served (service.go:280-283).
THEOREM NothingServedAfterFailure == Spec => []FailStop
<1>1. IInv => FailStop
  BY DEF IInv, Control, FailStop, Unlocked
<1> QED
  BY <1>1, Invariance, PTL

\* What was committed can be loaded again, whenever the process stops: the slots
\* of a kind are numbered without a gap (store.go:156-161, service.go:366-368).
THEOREM Recoverable == Spec => []RestartLoads
<1>1. ASSUME IInv
      PROVE  RestartLoads
  <2>1. PICK n \in [Kinds -> Nat] : Numbered(dbSlot, n)
    BY <1>1 DEF IInv, SlotsAreNumbered
  <2> SUFFICES ASSUME NEW k \in Kinds
               PROVE  \E i \in 0..Cardinality(Of(k)) : Dense(k, i)
    BY DEF RestartLoads, Loadable
  <2>2. StoredSlots(k) = 0..(n[k] - 1)
    BY <1>1, <2>1, StoredAreDense
  <2>3. n[k] <= Cardinality(Of(k))
    <3> DEFINE Slotted == {x \in Of(k) : dbSlot[x] # NoSlot}
               num == [x \in Slotted |-> dbSlot[x][2]]
    <3>1. IsFiniteSet(Of(k))
      BY EntitiesAssumption, FiniteAssumption DEF Of
    <3>2. /\ IsFiniteSet(Slotted)
          /\ Cardinality(Slotted) <= Cardinality(Of(k))
      BY <3>1, FS_Subset
    <3>3. num \in Surjection(Slotted, StoredSlots(k))
      BY DEF Surjection, StoredSlots
    <3>4. Cardinality(StoredSlots(k)) <= Cardinality(Slotted)
      BY <3>2, <3>3, FS_Surjection
    <3>5. n[k] \in Nat /\ Cardinality(0..(n[k] - 1)) = n[k]
      <4>1. n[k] \in Nat /\ 0 \in Int /\ n[k] - 1 \in Int
        BY <2>1
      <4>2. Cardinality(0..(n[k] - 1)) = IF 0 > n[k] - 1 THEN 0
                                         ELSE (n[k] - 1) - 0 + 1
        BY <4>1, FS_Interval
      <4> QED
        BY <4>1, <4>2
    <3>6. Cardinality(Slotted) \in Nat /\ Cardinality(Of(k)) \in Nat
      BY <3>1, <3>2, FS_CardinalityType
    <3> QED
      BY <2>2, <3>2, <3>4, <3>5, <3>6
  <2>4. n[k] \in 0..Cardinality(Of(k))
    <3>1. Cardinality(Of(k)) \in Nat
      BY EntitiesAssumption, FiniteAssumption, FS_CardinalityType DEF Of
    <3> QED
      BY <2>1, <2>3, <3>1
  <2> QED
    BY <2>2, <2>4 DEF Dense
<1> QED
  BY <1>1, Invariance, PTL

-----------------------------------------------------------------------------
(* What a step may do to the record and to the answers. *)

\* Only a commit writes the database.
LEMMA DatabaseSteps == [Next]_vars => CommitCycle \/ UNCHANGED database
BY DEF Next, vars, Collect, StoreTeams, StoreUsers, Restart, Crash, BeginIngest,
       PassStep, Refuse, ListTeams, ListUsers, ApplyCycle, RejectCycle, FinishPass,
       ListFails, CommitFails, Serve, Enter, Request, Load, Adopt, Retry, Respond

\* Only the end of a request changes what a reader was answered.
LEMMA AnswerSteps ==
  [Next]_vars => (\E r \in Readers : Respond(r)) \/ UNCHANGED answer
BY DEF Next, vars, requests, Collect, StoreTeams, StoreUsers, Restart, Crash,
       BeginIngest, PassStep, Refuse, ListTeams, ListUsers, ApplyCycle, RejectCycle,
       CommitCycle, FinishPass, ListFails, CommitFails, Serve, Enter, Request, Load,
       Adopt, Retry

\* The commit of a cycle, told by the corpus in memory.
LEMMA CommitShape ==
  ASSUME IInv, CommitCycle
  PROVE  /\ at \in Times /\ cycle.at = at
         /\ \A t \in Committed : t < at
         /\ dbSlot' = memSlot
         /\ cycles' = [cycles EXCEPT ![at] = [fresh |-> cycle.fresh,
                                              delta |-> cycle.delta]]
         /\ history' = [history EXCEPT ![at] = memTotal]
         /\ Committed' = Committed \cup {at}
         /\ UNCHANGED <<published, answer>>
<1>1. /\ at \in Times /\ cycle.at = at
      /\ \A t \in Committed : t < at
  BY DEF IInv, CommitCycle, CycleIsTheDifference
<1>2. /\ dbSlot' = memSlot
      /\ cycles' = [cycles EXCEPT ![at] = [fresh |-> cycle.fresh,
                                           delta |-> cycle.delta]]
      /\ history' = [history EXCEPT ![at] = memTotal]
      /\ UNCHANGED <<published, answer>>
  BY <1>1, CommitCatchesUp DEF CommitCycle, requests
<1>3. [fresh |-> cycle.fresh, delta |-> cycle.delta] # Absent
  BY RowlessAssumption DEF IInv, TypeOK, Pending, Cycle
<1>4. Committed' = Committed \cup {at}
  BY <1>1, <1>2, <1>3 DEF IInv, TypeOK, Committed
<1> QED
  BY <1>1, <1>2, <1>4

\* The record only grows at its end, and a slot keeps its entity
\* (service.go:271-275, store.go:158-161).
THEOREM AppendOnly == Spec => RecordGrowsAtItsEnd
<1> DEFINE Grows ==
             /\ \A t \in Committed : cycles'[t] = cycles[t] /\ history'[t] = history[t]
             /\ \A t \in Committed' \ Committed : \A s \in Committed : s < t
             /\ \A e \in Entities : dbSlot[e] # NoSlot => dbSlot'[e] = dbSlot[e]
<1>1. ASSUME IInv, [Next]_vars
      PROVE  Grows
  <2>1. CASE UNCHANGED database
    BY <2>1 DEF database, Committed
  <2>2. CASE CommitCycle
    <3>1. /\ at \in Times /\ \A t \in Committed : t < at
          /\ dbSlot' = memSlot
          /\ cycles' = [cycles EXCEPT ![at] = [fresh |-> cycle.fresh,
                                               delta |-> cycle.delta]]
          /\ history' = [history EXCEPT ![at] = memTotal]
          /\ Committed' = Committed \cup {at}
      BY <1>1, <2>2, CommitShape
    <3>2. at \notin Committed
      BY <3>1, TimesAssumption
    <3>3. \A t \in Committed : cycles'[t] = cycles[t] /\ history'[t] = history[t]
      BY <3>1, <3>2, <1>1 DEF IInv, TypeOK, Committed
    <3>4. \A e \in Entities : dbSlot[e] # NoSlot => dbSlot'[e] = dbSlot[e]
      BY <3>1, <1>1, <2>2 DEF IInv, CycleIsTheDifference, CommitCycle
    <3> QED
      BY <3>1, <3>3, <3>4
  <2> QED
    BY <1>1, <2>1, <2>2, DatabaseSteps
<1>2. IInv /\ [Next]_vars => [Grows]_vars
  BY <1>1
<1> QED
  BY <1>2, Invariance, PTL DEF Spec, RecordGrowsAtItsEnd

\* A request is answered from the newest cycle.
LEMMA AnswerShape ==
  ASSUME IInv, NEW r \in Readers, Respond(r)
  PROVE  /\ answer' = [answer EXCEPT ![r] = [at |-> Latest(Committed),
                                             totals |-> TotalsAt(Latest(Committed))]]
         /\ published = Latest(Committed) /\ published # Nil
         /\ UNCHANGED <<database, published>>
<1>1. reader[r] = "locked"
  BY DEF Respond
<1>2. published # Nil /\ held[r] = published /\ proc # "down" /\ ~ failed
  BY <1>1 DEF IInv, Control
<1>3. phase \in {"idle", "waiting"} /\ ~ dirty
  BY <1>1 DEF IInv, TypeOK, Control, Unlocked
<1>4. published = at
  BY <1>2, <1>3 DEF IInv, Control
<1>5. memTotal = dbTotal /\ at = Latest(Committed)
  BY <1>2, <1>3 DEF IInv, TypeOK, MemoryIsDurable
<1>6. memTotal = TotalsAt(Latest(Committed))
  BY <1>5 DEF IInv, DatabaseIsItsLog
<1> QED
  BY <1>2, <1>4, <1>5, <1>6 DEF Respond

\* No answer is from a cycle that is not committed.
AnswersAreCommitted ==
  \A r \in Readers : answer[r] # Nil => answer[r].at <= Latest(Committed)

\* The newest committed time never goes back.
LEMMA CommittedAdvances ==
  ASSUME IInv, [Next]_vars
  PROVE  /\ Latest(Committed) \in Nat /\ Latest(Committed)' \in Nat
         /\ Latest(Committed)' >= Latest(Committed)
<1>1. Latest(Committed) \in Nat
  <2>1. IsFiniteSet(Committed)
    BY DEF IInv, DatabaseIsItsLog
  <2>2. Latest(Committed) \in Times \cup {0}
    BY <2>1, NewestCommitted
  <2> QED
    BY <2>2, TimesAreNumbers
<1>2. CASE UNCHANGED database
  BY <1>1, <1>2 DEF database, Committed
<1>3. CASE CommitCycle
  <2>1. /\ at \in Times /\ \A t \in Committed : t < at
        /\ Committed' = Committed \cup {at}
    BY <1>3, CommitShape
  <2>2. IsFiniteSet(Committed')
    BY <2>1, FS_AddElement DEF IInv, DatabaseIsItsLog
  <2>3. Committed' \in SUBSET Nat /\ at \in Committed'
    BY <2>1, TimesAssumption DEF Committed
  <2>4. Latest(Committed') \in Nat /\ at <= Latest(Committed')
    BY <2>2, <2>3, LatestIsNewest
  <2>5. Latest(Committed) = 0 \/ Latest(Committed) < at
    BY <2>1, NewestCommitted DEF IInv, DatabaseIsItsLog, Latest
  <2>6. at \in Nat
    BY <2>3
  <2> QED
    BY <1>1, <2>4, <2>5, <2>6
<1> QED
  BY <1>2, <1>3, DatabaseSteps

\* Every answer was that of a committed time, and the next one is no older.
LEMMA AnswersStep ==
  ASSUME IInv, AnswersAreCommitted, [Next]_vars
  PROVE  /\ AnswersAreCommitted'
         /\ \A r \in Readers :
              answer[r] # Nil => answer'[r] # Nil /\ answer'[r].at >= answer[r].at
<1>1. /\ Latest(Committed) \in Nat /\ Latest(Committed)' \in Nat
      /\ Latest(Committed)' >= Latest(Committed)
  BY CommittedAdvances
<1>2. ASSUME NEW r \in Readers, answer[r] # Nil
      PROVE  answer[r].at \in Nat
  <2>1. answer[r] \in Answer
    BY <1>2 DEF IInv, TypeOK
  <2>2. answer[r].at \in Times \cup {0}
    BY <2>1 DEF Answer
  <2> QED
    BY <2>2, TimesAreNumbers
<1>3. CASE UNCHANGED answer
  BY <1>1, <1>2, <1>3 DEF AnswersAreCommitted
<1>4. ASSUME NEW r \in Readers, Respond(r)
      PROVE  /\ AnswersAreCommitted'
             /\ \A q \in Readers :
                  answer[q] # Nil => answer'[q] # Nil /\ answer'[q].at >= answer[q].at
  <2> DEFINE new == [at |-> Latest(Committed), totals |-> TotalsAt(Latest(Committed))]
  <2>1. answer' = [answer EXCEPT ![r] = new] /\ UNCHANGED database
    BY <1>4, AnswerShape
  <2>2. new # Nil
    <3>1. answer'[r] \in Answer \cup {Nil}
      BY <1>4, StepIInv DEF IInv, TypeOK
    <3>2. TotalsAt(Latest(Committed)) \in Totals /\ Latest(Committed) \in Times \cup {0}
      BY NewestCommitted DEF IInv, TypeOK, DatabaseIsItsLog
    <3> QED
      BY <3>2, RowlessAssumption DEF Answer
  <2>3. new.at = Latest(Committed)
    OBVIOUS
  <2>4. Latest(Committed)' = Latest(Committed)
    BY <2>1 DEF database, Committed
  <2> HIDE DEF new
  <2>5. \A q \in Readers : IF q = r THEN answer'[q] = new ELSE answer'[q] = answer[q]
    BY <2>1 DEF IInv, TypeOK
  <2> QED
    BY <1>1, <1>2, <2>2, <2>3, <2>4, <2>5 DEF AnswersAreCommitted
<1> QED
  BY <1>3, <1>4, AnswerSteps

\* What a reader is shown never goes back in time (server.go:49-50).
THEOREM NeverBack == Spec => AnswersAdvance
<1> DEFINE Advance ==
             \A r \in Readers :
               answer[r] # Nil => answer'[r] # Nil /\ answer'[r].at >= answer[r].at
<1>1. Init => AnswersAreCommitted
  BY DEF Init, AnswersAreCommitted
<1>2. IInv /\ AnswersAreCommitted /\ [Next]_vars => AnswersAreCommitted' /\ [Advance]_vars
  BY AnswersStep
<1> QED
  BY <1>1, <1>2, Invariance, PTL DEF Spec, AnswersAdvance

-----------------------------------------------------------------------------
(* The stored deltas. *)

\* The deltas that wait for their commit are told by the database, too.
PendingIsTheDifference ==
  phase = "committing" =>
    \A e \in Entities :
      cycle.delta[e] # Absent =>
        /\ dbTotal[e] # Absent /\ memTotal[e] # Absent
        /\ cycle.delta[e] = Change(dbTotal[e], memTotal[e])

ProductionInv == ProductionIsTheDifference /\ PendingIsTheDifference

\* The cycle before one that was committed does not change.
LEMMA BeforeKept ==
  ASSUME IInv, CommitCycle, NEW t \in Committed
  PROVE  /\ t # at
         /\ Before(t)' = Before(t)
         /\ TotalsAt(Before(t))' = TotalsAt(Before(t))
<1>1. /\ at \in Times /\ \A s \in Committed : s < at
      /\ history' = [history EXCEPT ![at] = memTotal]
      /\ Committed' = Committed \cup {at}
  BY CommitShape
<1>2. t \in Nat /\ at \in Nat /\ t < at
  BY <1>1, TimesAreNumbers DEF Committed
<1>3. {s \in Committed' : s < t} = {s \in Committed : s < t}
  BY <1>1, <1>2
<1>4. Before(t)' = Before(t)
  BY <1>3 DEF Before
<1>5. Before(t) = 0 \/ (Before(t) \in Committed /\ Before(t) # at)
  <2> DEFINE S == {s \in Committed : s < t}
  <2>1. S \in SUBSET Nat
    BY TimesAreNumbers DEF Committed
  <2>2. IsFiniteSet(S)
    BY FS_Subset DEF IInv, DatabaseIsItsLog
  <2>3. CASE S = {}
    BY <2>3 DEF Before, Latest
  <2>4. CASE S # {}
    <3>1. Latest(S) \in S
      BY <2>1, <2>2, <2>4, LatestIsNewest
    <3>2. Before(t) \in S
      BY <3>1 DEF Before
    <3>3. Before(t) \in Committed /\ Before(t) < t /\ Before(t) \in Nat
      BY <2>1, <3>2
    <3> QED
      BY <3>3, <1>2
  <2> QED
    BY <2>3, <2>4
<1>6. TotalsAt(Before(t))' = TotalsAt(Before(t))
  BY <1>1, <1>4, <1>5 DEF IInv, TypeOK, Committed, TotalsAt
<1> QED
  BY <1>2, <1>4, <1>6

\* The cycle before the one being committed is the newest of the database.
LEMMA BeforeNewest ==
  ASSUME IInv, CommitCycle
  PROVE  TotalsAt(Before(at))' = dbTotal
<1>1. /\ at \in Times /\ \A s \in Committed : s < at
      /\ history' = [history EXCEPT ![at] = memTotal]
      /\ Committed' = Committed \cup {at}
      /\ at' = at
  BY CommitShape DEF CommitCycle
<1>2. {s \in Committed' : s < at} = Committed
  BY <1>1, TimesAreNumbers
<1>3. Before(at)' = Latest(Committed)
  BY <1>1, <1>2 DEF Before
<1>4. IsFiniteSet(Committed) /\ dbTotal = TotalsAt(Latest(Committed))
  BY DEF IInv, DatabaseIsItsLog
<1>5. Latest(Committed) = 0 \/ (Latest(Committed) \in Committed /\ Latest(Committed) # at)
  <2>1. CASE Committed = {}
    BY <2>1 DEF Latest
  <2>2. CASE Committed # {}
    BY <1>1, <1>4, <2>2, NewestCommitted, TimesAreNumbers
  <2> QED
    BY <2>1, <2>2
<1> QED
  BY <1>1, <1>3, <1>4, <1>5 DEF IInv, TypeOK, Committed, TotalsAt

\* A step keeps the deltas of the database, and the pending ones of a cycle,
\* the differences of the totals.
LEMMA ProductionStep ==
  ASSUME IInv, ProductionInv, [Next]_vars
  PROVE  ProductionInv'
<1>1. CASE UNCHANGED database /\ ~ ApplyCycle
  <2>1. ProductionIsTheDifference'
    BY <1>1 DEF ProductionInv, ProductionIsTheDifference, database, Committed,
                TotalsAt, Before, Explained
  <2>2. phase' = "committing" => phase = "committing" /\ UNCHANGED <<cycle, memTotal>>
    BY <1>1 DEF Next, vars, Collect, StoreTeams, StoreUsers, Restart, Crash, BeginIngest,
           PassStep, Refuse, ListTeams, ListUsers, RejectCycle, CommitCycle,
           FinishPass, ListFails, CommitFails, Serve, Enter, Request, Load, Adopt,
           Retry, Respond, EndPass, OffPass, pass, corpus
  <2> QED
    BY <1>1, <2>1, <2>2 DEF ProductionInv, PendingIsTheDifference, database
<1>2. CASE ApplyCycle
  <2> DEFINE rows == Snapshot(NextDue)
  <2>1. UNCHANGED database
    BY <1>2 DEF ApplyCycle
  <2>2. ProductionIsTheDifference'
    BY <2>1 DEF ProductionInv, ProductionIsTheDifference, database, Committed,
                TotalsAt, Before, Explained
  <2>3. dbTotal = memTotal
    BY <1>2 DEF IInv, TypeOK, Control, MemoryIsDurable, ApplyCycle
  <2>4. rows \in Totals
    BY <1>2, NextIsDue, SnapshotType DEF IInv, ApplyCycle
  <2>5. /\ cycle'.delta = Production(rows)
        /\ memTotal' = [e \in Entities |-> IF rows[e] # Absent THEN rows[e]
                                           ELSE memTotal[e]]
    BY <1>2, <2>4 DEF ApplyCycle, Present, Totals
  <2>6. ASSUME NEW e \in Entities, Production(rows)[e] # Absent
        PROVE  /\ rows[e] # Absent /\ memTotal[e] # Absent
               /\ Production(rows)[e] = Change(memTotal[e], rows[e])
    BY <2>4, <2>6 DEF Production, Present, Totals, Fresh, IInv, TotalsHaveSlots
  <2> QED
    BY <2>1, <2>2, <2>3, <2>5, <2>6
    DEF ProductionInv, PendingIsTheDifference, database
<1>3. CASE CommitCycle
  <2>1. /\ at \in Times
        /\ cycles' = [cycles EXCEPT ![at] = [fresh |-> cycle.fresh,
                                             delta |-> cycle.delta]]
        /\ history' = [history EXCEPT ![at] = memTotal]
        /\ Committed' = Committed \cup {at}
    BY <1>3, CommitShape
  <2>2. ASSUME NEW t \in Committed, NEW e \in Entities
        PROVE  LET old == TotalsAt(Before(t))'[e]
                   new == history'[t][e]
               IN /\ Explained(old, new, cycles'[t].delta[e])
                  /\ e \in cycles'[t].fresh <=> (old = Absent /\ new # Absent)
    <3>1. t # at /\ TotalsAt(Before(t))' = TotalsAt(Before(t))
      BY <1>3, BeforeKept
    <3>2. history'[t] = history[t] /\ cycles'[t] = cycles[t]
      BY <2>1, <3>1 DEF IInv, TypeOK, Committed
    <3> QED
      BY <3>1, <3>2 DEF ProductionInv, ProductionIsTheDifference
  <2>3. ASSUME NEW e \in Entities
        PROVE  LET old == TotalsAt(Before(at))'[e]
                   new == history'[at][e]
               IN /\ Explained(old, new, cycles'[at].delta[e])
                  /\ e \in cycles'[at].fresh <=> (old = Absent /\ new # Absent)
    <3>1. TotalsAt(Before(at))' = dbTotal
      BY <1>3, BeforeNewest
    <3>2. /\ history'[at] = memTotal
          /\ cycles'[at].delta = cycle.delta /\ cycles'[at].fresh = cycle.fresh
      BY <2>1 DEF IInv, TypeOK
    <3>3. /\ cycle.fresh = {x \in Entities : dbSlot[x] = NoSlot /\ memSlot[x] # NoSlot}
          /\ dbSlot[e] # NoSlot => memSlot[e] = dbSlot[e]
          /\ cycle.delta[e] = Absent => (e \notin cycle.fresh => memTotal[e] = dbTotal[e])
      BY <1>3 DEF IInv, CycleIsTheDifference, CommitCycle
    <3>4. /\ memSlot[e] = NoSlot <=> memTotal[e] = Absent
          /\ dbSlot[e] = NoSlot <=> dbTotal[e] = Absent
      BY DEF IInv, TotalsHaveSlots
    <3>5. cycle.delta[e] # Absent =>
            /\ dbTotal[e] # Absent /\ memTotal[e] # Absent
            /\ cycle.delta[e] = Change(dbTotal[e], memTotal[e])
      BY <1>3 DEF ProductionInv, PendingIsTheDifference, CommitCycle
    <3> QED
      BY <3>1, <3>2, <3>3, <3>4, <3>5 DEF Explained
  <2>4. at' = at
    BY <1>3 DEF CommitCycle
  <2>5. ProductionIsTheDifference'
    <3> SUFFICES ASSUME NEW t \in Committed', NEW e \in Entities
                 PROVE  LET old == TotalsAt(Before(t))'[e]
                            new == history'[t][e]
                        IN /\ Explained(old, new, cycles'[t].delta[e])
                           /\ e \in cycles'[t].fresh <=> (old = Absent /\ new # Absent)
      BY DEF ProductionIsTheDifference, Explained
    <3>1. CASE t \in Committed
      BY <3>1, <2>2
    <3>2. CASE t = at
      BY <3>2, <2>3, <2>4 DEF TotalsAt, Before
    <3> QED
      BY <2>1, <3>1, <3>2
  <2> QED
    BY <1>3, <2>5 DEF ProductionInv, PendingIsTheDifference, CommitCycle
<1> QED
  BY <1>1, <1>2, <1>3, DatabaseSteps

\* The deltas of a cycle tell the difference of the totals to the cycle before,
\* with no production for an entity first seen (state.go:4-7, 203-210).
THEOREM DeltasExplainTotals == Spec => []ProductionIsTheDifference
<1>1. Init => ProductionInv
  BY DEF Init, ProductionInv, ProductionIsTheDifference, PendingIsTheDifference,
         Committed
<1>2. IInv /\ ProductionInv /\ [Next]_vars => ProductionInv'
  BY ProductionStep
<1>3. ProductionInv => ProductionIsTheDifference
  BY DEF ProductionInv
<1> QED
  BY <1>1, <1>2, <1>3, Invariance, PTL DEF Spec

-----------------------------------------------------------------------------
(* The collector implements the log of cycles. *)

\* The abstract log has an entry for each committed time.
LEMMA LoggedIsCommitted == IInv => Log!Logged = Committed
BY DEF IInv, DatabaseIsItsLog, Log!Logged, Committed

\* Only these steps change what a reader of the API can see.
LEMMA VisibleSteps ==
  ASSUME [Next]_vars
  PROVE  \/ CommitCycle \/ FinishPass \/ CommitFails \/ Crash
         \/ \E r \in Readers : Respond(r)
         \/ UNCHANGED <<history, published, answer>>
BY DEF Next, vars, Collect, StoreTeams, StoreUsers, Restart, BeginIngest, PassStep,
       Refuse, ListTeams, ListUsers, ApplyCycle, RejectCycle, ListFails, Serve, Enter,
       Request, Load, Adopt, Retry, database, requests

\* Every step of the collector is a step of the log of cycles, or none.
LEMMA LogStep ==
  ASSUME IInv, [Next]_vars
  PROVE  [Log!Next]_(Log!vars)
<1>1. CASE CommitCycle
  <2>1. /\ at \in Times /\ \A t \in Committed : t < at
        /\ history' = [history EXCEPT ![at] = memTotal]
        /\ UNCHANGED <<published, answer>>
    BY <1>1, CommitShape
  <2>2. history'[at] = memTotal /\ memTotal \in Totals
    BY <2>1 DEF IInv, TypeOK
  <2>3. Log!Append
    BY <2>1, <2>2, LoggedIsCommitted DEF Log!Append
  <2> QED
    BY <2>3 DEF Log!Next
<1>2. CASE FinishPass
  <2>1. UNCHANGED <<history, answer>>
    BY <1>2 DEF FinishPass, database, requests
  <2>2. CASE published' = published
    BY <2>1, <2>2 DEF Log!vars
  <2>3. CASE published' = at
    <3>1. at = Latest(Committed) /\ IsFiniteSet(Committed)
      BY <1>2 DEF IInv, TypeOK, Control, MemoryIsDurable, DatabaseIsItsLog, FinishPass
    <3>2. CASE Committed = {}
      BY <2>1, <2>3, <3>1, <3>2, LoggedIsCommitted
      DEF Latest, Log!Publish, Log!Next
    <3>3. CASE Committed # {}
      <4>1. at \in Committed /\ \A t \in Committed : t <= at
        BY <3>1, <3>3, NewestCommitted
      <4>2. Log!Newest(at)
        BY <4>1, LoggedIsCommitted DEF Log!Newest
      <4> QED
        BY <2>1, <2>3, <4>2 DEF Log!Publish, Log!Next
    <3> QED
      BY <3>2, <3>3
  <2> QED
    BY <1>2, <2>2, <2>3 DEF FinishPass
<1>3. CASE CommitFails \/ Crash
  BY <1>3 DEF CommitFails, FailClosed, Crash, database, requests, Log!Withdraw, Log!Next
<1>4. ASSUME NEW r \in Readers, Respond(r)
      PROVE  Log!Next
  <2>1. /\ answer' = [answer EXCEPT ![r] = [at |-> Latest(Committed),
                                            totals |-> TotalsAt(Latest(Committed))]]
        /\ published = Latest(Committed) /\ published # Nil
        /\ UNCHANGED <<history, published>>
    BY <1>4, AnswerShape DEF database
  <2>2. Log!Reply(r)
    BY <2>1 DEF Log!Reply, TotalsAt
  <2> QED
    BY <2>2 DEF Log!Next
<1>5. CASE UNCHANGED <<history, published, answer>>
  BY <1>5 DEF Log!vars
<1> QED
  BY <1>1, <1>2, <1>3, <1>4, <1>5, VisibleSteps

\* For whoever reads the API, the collector is a log of cycles that grows at its
\* end, with the newest one in view (service.go:246, server.go:49-63).
THEOREM Implementation == Spec => ImplementsCycleLog
<1>1. Init => Log!Init
  BY DEF Init, Log!Init
<1>2. IInv /\ [Next]_vars => [Log!Next]_(Log!vars)
  BY LogStep
<1> QED
  BY <1>1, <1>2, Invariance, PTL DEF Spec, ImplementsCycleLog, Log!Spec
=============================================================================
