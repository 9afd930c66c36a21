---------------------------- MODULE RelayProofs ----------------------------
(***************************************************************************)
(* The safety of Relay for any owners, machines, tokens and limits, and    *)
(* any number of connections, restarts and failed writes.                  *)
(***************************************************************************)
EXTENDS Relay, FiniteSetTheorems, TLAPS

-----------------------------------------------------------------------------
(* The inductive invariant. *)

ConnRecords ==
  [phase : Phases, key : Machines \union Owners \union {None},
   owner : Owners \union {None}, addr : Addrs \union {None}, at : Nat, closed : BOOLEAN]

\* The phases in which it is known who is at the other end.
KnownPhases == {"proven", "found", "leaving", "serving"} \union JoiningPhases

\* A connection that is not idle has an address; one whose party is known has the key of
\* its kind; only machines are looked up; what is past the handshake has an owner; and
\* none has read a time that is still to come.
ConnWell(c, r) ==
  /\ r \in ConnRecords
  /\ r.phase # "idle" => r.addr \in Addrs
  /\ r.phase \in {"proven", "found"} => c \in AgentConns
  /\ r.phase \in KnownPhases => r.key \in IF c \in AgentConns THEN Machines ELSE Owners
  /\ r.phase \in JoiningPhases \union {"serving", "leaving"} => r.owner \in Owners

ConnsWell == conn \in [Conns -> ConnRecords] /\ \A c \in Conns : ConnWell(c, conn[c])

NoteRecords ==
  [at : {"rest", "cut", "owned", "flags", "push"}, owner : Owners \union {None},
   whom : Machines \union {None}, all : BOOLEAN, machines : SUBSET Machines]

\* A frame that is made is for an owner, and a cut is of a machine.
NoteWell(n) ==
  /\ n \in NoteRecords
  /\ n.at # "rest" => n.owner \in Owners
  /\ n.at = "cut" => n.whom \in Machines

NotesWell == note \in [Conns -> NoteRecords] /\ \A c \in Conns : NoteWell(note[c])

StoreWell ==
  /\ now \in Nat /\ faults \in Nat
  /\ owner \in [Machines -> Owners \union {None}] /\ nonces \subseteq Tokens
  /\ disk \in [owner : [Machines -> Owners \union {None}], nonces : SUBSET Tokens]
  /\ enrolments \in [Tokens -> Nat] /\ astray \subseteq Tokens /\ excused \subseteq Owners

HubWell ==
  /\ agents \in [Machines -> AgentConns \union {None}] /\ browsers \subseteq BrowserConns
  /\ shown \in [BrowserConns -> SUBSET Machines]

LimiterWell ==
  /\ {inFlight, activeN, ownersN} \subseteq Nat
  /\ active \in [Addrs -> Nat]
  /\ failures \in [Addrs -> [n : Nat, since : Nat]]

Formed == ConnsWell /\ NotesWell /\ StoreWell /\ HubWell /\ LimiterWell

\* A token that has enrolled a machine has expired, or is spent in memory and on disk.
SpentIsKept ==
  \A t \in Tokens :
    t \notin astray /\ enrolments[t] # 0 =>
      TokenExp[t] <= now \/ t \in nonces \intersect disk.nonces

\* Nobody has read from the clock what it does not show yet.
ClockWasRead == \A c \in Conns : conn[c].at <= now

\* The connections in their handshake, and those that stay.
Greeting == {c \in Conns : conn[c].phase \in HandshakePhases}
Staying == {c \in Conns : conn[c].phase \in StayingPhases}
BrowsersStaying == {c \in BrowserConns : conn[c].phase \in StayingPhases}
StayingAt(a) == {c \in Conns : conn[c].phase \in StayingPhases /\ conn[c].addr = a}

IInv ==
  /\ Formed /\ OpenAgentIsRouted /\ ClockWasRead /\ SpentIsKept /\ TokenEnrolsOnce
  /\ LimiterBalances

-----------------------------------------------------------------------------
(* Connections stay well formed. *)

\* Closing connections changes nothing else of them.
LEMMA Closing ==
  ASSUME ConnsWell, NEW D, Overflow(D)
  PROVE  ConnsWell'
<1>1. ASSUME NEW d \in Conns PROVE conn'[d] \in ConnRecords /\ ConnWell(d, conn'[d])
  <2>1. conn'[d] = [conn[d] EXCEPT !.closed = TRUE] \/ conn'[d] = conn[d]
    BY DEF Overflow
  <2> QED
    BY <2>1 DEF ConnsWell, ConnWell, ConnRecords
<1> QED
  BY <1>1 DEF ConnsWell, Overflow

\* A connection may become any that is well formed.
LEMMA OneConn ==
  ASSUME ConnsWell, NEW c \in Conns, NEW r, ConnWell(c, r), conn' = [conn EXCEPT ![c] = r]
  PROVE  ConnsWell'
<1>1. r \in ConnRecords /\ conn \in [Conns -> ConnRecords]
  BY DEF ConnsWell, ConnWell
<1>2. conn' \in [Conns -> ConnRecords] /\ \A d \in Conns : conn'[d] = IF d = c THEN r ELSE conn[d]
  BY <1>1
<1>3. \A d \in Conns : ConnWell(d, conn'[d])
  BY <1>2 DEF ConnsWell
<1> QED
  BY <1>2, <1>3 DEF ConnsWell, ConnWell

\* The end of a connection leaves it idle.
LEMMA Ending ==
  ASSUME ConnsWell, NEW c \in Conns, conn' = [conn EXCEPT ![c] = Gone]
  PROVE  ConnsWell'
<1>1. ConnWell(c, Gone)
  BY DEF ConnWell, ConnRecords, Gone, Phases, KnownPhases, JoiningPhases
<1> HIDE DEF Gone
<1> QED
  BY <1>1, OneConn

\* A handshake that fails, or that succeeds, ends well formed.
LEMMA Refusing ==
  ASSUME ConnsWell, NEW c \in Conns, conn[c].phase # "idle", Refuse(c)
  PROVE  ConnsWell'
<1> DEFINE r == [Gone EXCEPT !.phase = "refused", !.addr = conn[c].addr]
<1>1. conn[c].addr \in Addrs
  BY DEF ConnsWell, ConnWell
<1>2. ConnWell(c, r)
  BY <1>1 DEF ConnWell, ConnRecords, Gone, Phases, KnownPhases, HandshakePhases, StayingPhases,
              JoiningPhases
<1>3. conn' = [conn EXCEPT ![c] = r]
  BY DEF Refuse
<1> HIDE DEF r
<1> QED
  BY <1>2, <1>3, OneConn

LEMMA Accepting ==
  ASSUME ConnsWell, NEW c \in Conns, NEW o \in Owners, conn[c].phase \in KnownPhases, Accept(c, o)
  PROVE  ConnsWell'
<1> DEFINE r == [conn[c] EXCEPT !.phase = "accepted", !.owner = o, !.at = 0]
<1>1. ConnWell(c, conn[c]) /\ conn[c].phase # "idle"
  BY DEF ConnsWell, KnownPhases, JoiningPhases
<1>2. r \in ConnRecords
  BY <1>1 DEF ConnWell, ConnRecords, Phases, HandshakePhases
<1>3. r.phase = "accepted" /\ r.owner = o /\ r.key = conn[c].key /\ r.addr = conn[c].addr
  BY <1>1 DEF ConnWell, ConnRecords
<1>4. ConnWell(c, r)
  BY <1>1, <1>2, <1>3 DEF ConnWell, KnownPhases, JoiningPhases
<1>5. conn' = [conn EXCEPT ![c] = r]
  BY DEF Accept
<1> HIDE DEF r
<1> QED
  BY <1>4, <1>5, OneConn

\* A connection that comes to a phase in which nothing new is known of it.
LEMMA Moving ==
  ASSUME ConnsWell, NEW c \in Conns, NEW p \in Phases, conn' = [conn EXCEPT ![c].phase = p],
         \/ conn[c].phase # "idle" /\ p \in {"handshake", "failing"}
         \/ conn[c].phase \in JoiningPhases /\ p \in JoiningPhases
  PROVE  ConnsWell'
<1> DEFINE r == [conn[c] EXCEPT !.phase = p]
<1>1. ConnWell(c, conn[c]) /\ conn[c].phase # "idle"
  BY DEF ConnsWell, JoiningPhases
<1>2. r \in ConnRecords /\ r.phase = p /\ r.owner = conn[c].owner /\ r.key = conn[c].key
      /\ r.addr = conn[c].addr
  BY <1>1 DEF ConnWell, ConnRecords
<1>3. ConnWell(c, r)
  BY <1>1, <1>2 DEF ConnWell, KnownPhases, JoiningPhases
<1>4. conn' = [conn EXCEPT ![c] = r]
  OBVIOUS
<1> HIDE DEF r
<1> QED
  BY <1>3, <1>4, OneConn

\* Every step of a handshake keeps connections well formed.
LEMMA HandshakesStay ==
  ASSUME ConnsWell, StoreWell, NEW c \in Conns, Handshake(c)
  PROVE  ConnsWell'
<1> USE RelayAssumption
<1>1. CASE Serve(c)
  <2>1. PICK a \in Addrs : conn' = [conn EXCEPT ![c].phase = "dialled", ![c].addr = a]
    BY <1>1 DEF Serve
  <2> DEFINE r == [conn[c] EXCEPT !.phase = "dialled", !.addr = a]
  <2>2. conn[c] \in ConnRecords
    BY DEF ConnsWell
  <2>3. r \in ConnRecords /\ r.phase = "dialled" /\ r.addr = a
    BY <2>2 DEF ConnRecords, Phases
  <2>4. ConnWell(c, r)
    BY <2>3 DEF ConnWell, KnownPhases, JoiningPhases
  <2>5. conn' = [conn EXCEPT ![c] = r]
    BY <2>1
  <2> HIDE DEF r
  <2> QED
    BY <2>4, <2>5, OneConn
<1>2. CASE Busy(c) \/ UpgradeFails(c) \/ Reject(c)
  BY <1>2, Ending DEF Busy, UpgradeFails, Reject
<1>3. CASE Begin(c) \/ HandshakeDone(c)
  <2>1. \E p \in Phases :
          /\ conn' = [conn EXCEPT ![c].phase = p]
          /\ \/ conn[c].phase # "idle" /\ p \in {"handshake", "failing"}
             \/ conn[c].phase \in JoiningPhases /\ p \in JoiningPhases
    BY <1>3 DEF Begin, HandshakeDone, Phases, HandshakePhases, JoiningPhases
  <2> QED
    BY <2>1, Moving
<1>4. CASE Unproven(c) \/ Unenrolled(c) \/ \E t \in Tokens : EnrolRefused(c, t) \/ EnrolFails(c, t)
  BY <1>4, Refusing DEF Unproven, Unenrolled, EnrolRefused, EnrolFails, Enrolling
<1>5. CASE BrowserProven(c)
  <2>1. PICK o \in Owners :
          conn' = [conn EXCEPT ![c].phase = "accepted", ![c].key = o, ![c].owner = o]
    BY <1>5, Zenon DEF BrowserProven
  <2> DEFINE r == [conn[c] EXCEPT !.phase = "accepted", !.key = o, !.owner = o]
  <2>2. conn[c] \in ConnRecords /\ conn[c].addr \in Addrs /\ c \notin AgentConns
    BY <1>5 DEF BrowserProven, ConnsWell, ConnWell
  <2>3. r \in ConnRecords /\ r.phase = "accepted" /\ r.owner = o /\ r.key = o
        /\ r.addr = conn[c].addr
    BY <2>2 DEF ConnRecords, Phases, HandshakePhases
  <2>4. ConnWell(c, r)
    BY <2>2, <2>3 DEF ConnWell, KnownPhases, JoiningPhases
  <2>5. conn' = [conn EXCEPT ![c] = r]
    BY <2>1
  <2> HIDE DEF r
  <2> QED
    BY <2>4, <2>5, OneConn
<1>6. CASE AgentProven(c)
  <2>1. PICK m \in Machines :
          conn' = [conn EXCEPT ![c].phase = "proven", ![c].key = m, ![c].at = now]
    BY <1>6, Zenon DEF AgentProven
  <2> DEFINE r == [conn[c] EXCEPT !.phase = "proven", !.key = m, !.at = now]
  <2>2. conn[c] \in ConnRecords /\ conn[c].addr \in Addrs /\ c \in AgentConns /\ now \in Nat
    BY <1>6 DEF AgentProven, ConnsWell, ConnWell, StoreWell
  <2>3. r \in ConnRecords /\ r.phase = "proven" /\ r.key = m /\ r.addr = conn[c].addr
    BY <2>2 DEF ConnRecords, Phases, HandshakePhases
  <2>4. ConnWell(c, r)
    BY <2>2, <2>3 DEF ConnWell, KnownPhases, JoiningPhases
  <2>5. conn' = [conn EXCEPT ![c] = r]
    BY <2>1
  <2> HIDE DEF r
  <2> QED
    BY <2>4, <2>5, OneConn
<1>7. CASE AgentFound(c)
  <2> DEFINE r == [conn[c] EXCEPT !.phase = "found", !.owner = owner[conn[c].key]]
  <2>1. ConnWell(c, conn[c]) /\ conn[c].phase = "proven" /\ c \in AgentConns
    BY <1>7 DEF AgentFound, ConnsWell, ConnWell
  <2>2. conn[c].key \in Machines /\ owner[conn[c].key] \in Owners \union {None}
    BY <2>1 DEF ConnWell, StoreWell, KnownPhases
  <2>3. r \in ConnRecords /\ r.phase = "found" /\ r.key = conn[c].key /\ r.addr = conn[c].addr
    BY <2>1, <2>2 DEF ConnWell, ConnRecords, Phases, HandshakePhases
  <2>4. ConnWell(c, r)
    BY <2>1, <2>2, <2>3 DEF ConnWell, JoiningPhases
  <2>5. conn' = [conn EXCEPT ![c] = r]
    BY <1>7 DEF AgentFound
  <2> HIDE DEF r
  <2> QED
    BY <2>4, <2>5, OneConn
<1>8. CASE Known(c) \/ Rename(c) \/ \E t \in Tokens : EnrolToken(c, t)
  <2>1. conn[c].phase = "found" /\ \E o \in Owners : Accept(c, o)
    BY <1>8 DEF Known, Rename, EnrolToken, Enrolling, ConnsWell, ConnWell, ConnRecords
  <2> QED
    BY <2>1, Accepting DEF KnownPhases
<1> QED
  BY <1>1, <1>2, <1>3, <1>4, <1>5, <1>6, <1>7, <1>8 DEF Handshake

\* Every step of the specification keeps connections well formed.
LEMMA ConnsStay ==
  ASSUME ConnsWell, NotesWell, StoreWell, [Next]_vars
  PROVE  ConnsWell'
<1> USE RelayAssumption
<1>1. CASE UNCHANGED conn
  BY <1>1 DEF ConnsWell
<1>2. CASE Restart
  BY <1>2 DEF Restart, ConnsWell, ConnWell, ConnRecords, Gone, Phases, KnownPhases, JoiningPhases
<1>3. ASSUME NEW c \in Conns, TurnAway(c) \/ Release(c) PROVE ConnsWell'
  BY <1>3, Ending DEF TurnAway, Release
<1>4. ASSUME NEW c \in Conns, Admit(c) \/ Succeed(c) PROVE ConnsWell'
  <2>1. \E p \in Phases :
          /\ conn' = [conn EXCEPT ![c].phase = p]
          /\ conn[c].phase \in JoiningPhases /\ p \in JoiningPhases
    BY <1>4 DEF Admit, Succeed, Phases, JoiningPhases
  <2> QED
    BY <2>1, Moving
<1>5. ASSUME NEW c \in Conns, Join(c) PROVE ConnsWell'
  <2>1. ASSUME NEW d \in Conns PROVE ConnWell(d, conn'[d])
    <3>1. \/ conn'[d] = [conn[d] EXCEPT !.closed = TRUE] \/ conn'[d] = conn[d]
          \/ /\ conn[d].phase = "cleared"
             /\ conn'[d] = [conn[d] EXCEPT !.phase = "serving"]
      BY <1>5 DEF Join, ConnsWell
    <3>2. ConnWell(d, conn[d])
      BY DEF ConnsWell
    <3>3. CASE conn'[d] = [conn[d] EXCEPT !.closed = TRUE]
      BY <3>2, <3>3 DEF ConnWell, ConnRecords
    <3>4. CASE conn[d].phase = "cleared" /\ conn'[d] = [conn[d] EXCEPT !.phase = "serving"]
      <4>1. conn'[d] \in ConnRecords /\ conn'[d].phase = "serving"
            /\ conn'[d].key = conn[d].key /\ conn'[d].owner = conn[d].owner
            /\ conn'[d].addr = conn[d].addr
        BY <3>2, <3>4 DEF ConnWell, ConnRecords, Phases, StayingPhases
      <4> QED
        BY <3>2, <3>4, <4>1 DEF ConnWell, KnownPhases, JoiningPhases
    <3> QED
      BY <3>1, <3>2, <3>3, <3>4
  <2>2. conn' = [d \in Conns |-> conn'[d]]
    BY <1>5 DEF Join, ConnsWell
  <2> QED
    BY <2>1, <2>2 DEF ConnsWell, ConnWell
<1>6. ASSUME NEW c \in Conns, Leave(c) PROVE ConnsWell'
  <2> DEFINE r == [conn[c] EXCEPT !.phase = "leaving", !.closed = TRUE]
  <2>1. ConnWell(c, conn[c]) /\ conn[c].phase = "serving"
    BY <1>6 DEF Leave, ConnsWell
  <2>2. r \in ConnRecords /\ r.phase = "leaving" /\ r.key = conn[c].key
        /\ r.owner = conn[c].owner /\ r.addr = conn[c].addr
    BY <2>1 DEF ConnWell, ConnRecords, Phases, StayingPhases
  <2>3. ConnWell(c, r)
    BY <2>1, <2>2 DEF ConnWell, KnownPhases
  <2>4. conn' = [conn EXCEPT ![c] = r]
    BY <1>6 DEF Leave
  <2> HIDE DEF r
  <2> QED
    BY <2>3, <2>4, OneConn
<1>7. ASSUME NEW c \in Conns, Push(c) \/ Forward(c) \/ Cut(c) PROVE ConnsWell'
  <2>1. \E D : Overflow(D)
    BY <1>7 DEF Push, Forward, Cut
  <2> QED
    BY <2>1, Closing
<1>8. ASSUME NEW c \in Conns,
              ListOwned(c) \/ ReadFlags(c) \/ \E m \in Machines : Forget(c, m)
       PROVE  UNCHANGED conn
  BY <1>8 DEF ListOwned, ReadFlags, Forget
<1>9. Tick \/ UNCHANGED vars => UNCHANGED conn
  BY DEF Tick, vars
<1> QED
  BY <1>1, <1>2, <1>3, <1>4, <1>5, <1>6, <1>7, <1>8, <1>9, HandshakesStay DEF Next

-----------------------------------------------------------------------------
(* So do frames, the store and the hub. *)

\* A frame may become any that is well formed.
LEMMA OneNote ==
  ASSUME NotesWell, NEW c \in Conns, NEW n, NoteWell(n), note' = [note EXCEPT ![c] = n]
  PROVE  NotesWell'
<1>1. n \in NoteRecords /\ note \in [Conns -> NoteRecords]
  BY DEF NotesWell, NoteWell
<1>2. note' \in [Conns -> NoteRecords] /\ \A d \in Conns : note'[d] = IF d = c THEN n ELSE note[d]
  BY <1>1
<1>3. \A d \in Conns : NoteWell(note'[d])
  BY <1>2 DEF NotesWell
<1> QED
  BY <1>2, <1>3 DEF NotesWell, NoteWell

\* Telling is of an owner.
LEMMA Announcing ==
  ASSUME NotesWell, NEW c \in Conns, NEW o \in Owners, NEW all \in BOOLEAN, Tell(c, o, all)
  PROVE  NotesWell'
BY DEF Tell, NotesWell, NoteWell, NoteRecords

\* Who joins, leaves or cuts tells an owner, or nobody.
LEMMA Announced ==
  ASSUME ConnsWell, NotesWell, NEW c \in Conns, Join(c) \/ Leave(c) \/ Cut(c)
  PROVE  UNCHANGED <<note, excused>> \/ \E o \in Owners, all \in BOOLEAN : Tell(c, o, all)
<1>1. CASE Join(c)
  <2>1. conn[c].owner \in Owners
    BY <1>1 DEF Join, ConnsWell, ConnWell, JoiningPhases
  <2>2. Tell(c, conn[c].owner, c \in AgentConns)
    BY <1>1 DEF Join
  <2>3. (c \in AgentConns) \in BOOLEAN
    OBVIOUS
  <2> QED
    BY <2>1, <2>2, <2>3
<1>2. CASE Leave(c)
  <2>1. conn[c].owner \in Owners
    BY <1>2 DEF Leave, ConnsWell, ConnWell
  <2> QED
    BY <1>2, <2>1 DEF Leave
<1>3. CASE Cut(c)
  <2>1. note[c].owner \in Owners
    BY <1>3 DEF Cut, NotesWell, NoteWell
  <2> QED
    BY <1>3, <2>1 DEF Cut
<1> QED
  BY <1>1, <1>2, <1>3

\* Every step keeps the frames that are made well formed.
LEMMA NotesStay ==
  ASSUME ConnsWell, NotesWell, StoreWell, [Next]_vars
  PROVE  NotesWell'
<1> USE RelayAssumption
<1>1. CASE UNCHANGED note
  BY <1>1 DEF NotesWell
<1>2. CASE Restart
  BY <1>2 DEF Restart, NotesWell, NoteWell, NoteRecords, Silent
<1>3. ASSUME NEW c \in Conns, Join(c) \/ Leave(c) \/ Cut(c) PROVE NotesWell'
  BY <1>1, <1>3, Announced, Announcing
<1>4. ASSUME NEW c \in Conns, ListOwned(c) PROVE NotesWell'
  <2> DEFINE n == [note[c] EXCEPT !.at = "flags", !.machines = OwnedBy(note[c].owner)]
  <2>1. NoteWell(note[c]) /\ note[c].at = "owned"
    BY <1>4 DEF ListOwned, NotesWell
  <2>2. NoteWell(n)
    <3>1. OwnedBy(note[c].owner) \in SUBSET Machines
      BY DEF OwnedBy
    <3> HIDE DEF OwnedBy
    <3>2. note[c] \in NoteRecords /\ note[c].owner \in Owners
      BY <2>1 DEF NoteWell
    <3>3. n \in NoteRecords /\ n.at = "flags" /\ n.owner = note[c].owner
      BY <3>1, <3>2 DEF NoteRecords
    <3> QED
      BY <3>2, <3>3 DEF NoteWell
  <2>3. note' = [note EXCEPT ![c] = n]
    BY <1>4 DEF ListOwned
  <2> HIDE DEF n
  <2> QED
    BY <2>2, <2>3, OneNote
<1>5. ASSUME NEW c \in Conns, ReadFlags(c) PROVE NotesWell'
  <2> DEFINE online == {m \in note[c].machines : agents[m] # None}
             n == [note[c] EXCEPT !.at = "push", !.machines = online]
  <2>1. NoteWell(note[c]) /\ note[c].at = "flags"
    BY <1>5 DEF ReadFlags, NotesWell
  <2>2. NoteWell(n)
    <3>1. online \in SUBSET Machines
      BY <2>1 DEF NoteWell, NoteRecords
    <3> HIDE DEF online
    <3>2. note[c] \in NoteRecords /\ note[c].owner \in Owners
      BY <2>1 DEF NoteWell
    <3>3. n \in NoteRecords /\ n.at = "push" /\ n.owner = note[c].owner
      BY <3>1, <3>2 DEF NoteRecords
    <3> QED
      BY <3>2, <3>3 DEF NoteWell
  <2>3. note' = [note EXCEPT ![c] = n]
    BY <1>5 DEF ReadFlags
  <2> HIDE DEF n
  <2> QED
    BY <2>2, <2>3, OneNote
<1>6. ASSUME NEW c \in Conns, Push(c) PROVE NotesWell'
  BY <1>6 DEF Push, Silent, NotesWell, NoteWell, NoteRecords
<1>7. ASSUME NEW c \in Conns, NEW m \in Machines, Forget(c, m) PROVE NotesWell'
  <2>1. conn[c].owner \in Owners
    BY <1>7 DEF Forget, Serving, ConnsWell, ConnWell, Phases
  <2> DEFINE cut == [at |-> "cut", owner |-> conn[c].owner, whom |-> m, all |-> TRUE, machines |-> {}]
  <2>2. UNCHANGED note \/ note' = [note EXCEPT ![c] = cut]
    BY <1>7 DEF Forget
  <2>3. cut \in NoteRecords /\ NoteWell(cut)
    BY <2>1 DEF NoteWell, NoteRecords
  <2> HIDE DEF cut
  <2>4. CASE note' = [note EXCEPT ![c] = cut]
    BY <2>3, <2>4 DEF NotesWell
  <2> QED
    BY <1>1, <2>2, <2>4
<1>8. ASSUME NEW c \in Conns,
             \/ Handshake(c) \/ TurnAway(c) \/ Admit(c) \/ Succeed(c) \/ Release(c) \/ Forward(c)
      PROVE  UNCHANGED note
  BY <1>8 DEF Handshake, Serve, Busy, Begin, UpgradeFails, Unproven, BrowserProven, AgentProven,
              AgentFound, Known, Rename, Unenrolled, Enrolling, EnrolRefused, EnrolToken,
              EnrolFails, Refuse, Accept, HandshakeDone, Reject, TurnAway, Admit, Succeed, Release,
              Forward, hub
<1>9. Tick \/ UNCHANGED vars => UNCHANGED note
  BY DEF Tick, vars
<1> QED
  BY <1>1, <1>2, <1>3, <1>4, <1>5, <1>6, <1>7, <1>8, <1>9 DEF Next

\* Every step keeps the store and the history of it well formed.
LEMMA StoreStays ==
  ASSUME ConnsWell, NotesWell, StoreWell, [Next]_vars
  PROVE  StoreWell'
<1> USE RelayAssumption
<1>1. CASE UNCHANGED <<now, faults, owner, nonces, disk, used, excused>>
  BY <1>1 DEF StoreWell, used
<1>2. CASE Tick
  BY <1>2 DEF Tick, StoreWell, store, used
<1>3. CASE Restart
  <2>1. /\ owner' = disk.owner /\ nonces' = disk.nonces /\ excused' = {}
        /\ faults' = faults + 1 /\ UNCHANGED <<now, disk, used>>
    BY <1>3 DEF Restart, Load
  <2> QED
    BY <2>1 DEF StoreWell, used
<1>4. ASSUME NEW c \in Conns, Rename(c) PROVE StoreWell'
  <2>1. conn[c].key \in Machines /\ conn[c].owner \in Owners
    BY <1>4 DEF Rename, ConnsWell, ConnWell, ConnRecords, KnownPhases
  <2>2. owner' = owner \/ owner' = [owner EXCEPT ![conn[c].key] = conn[c].owner]
    BY <1>4 DEF Rename
  <2>3. owner' \in [Machines -> Owners \union {None}]
    BY <2>1, <2>2 DEF StoreWell
  <2>4. \/ disk' = [owner |-> owner', nonces |-> nonces] /\ faults' = faults
        \/ disk' = disk /\ faults' \in {faults, faults + 1}
    BY <1>4 DEF Rename, Saved, SaveFails
  <2>5. UNCHANGED <<now, nonces, used, excused>>
    BY <1>4 DEF Rename
  <2> QED
    BY <2>3, <2>4, <2>5 DEF StoreWell, used
<1>5. ASSUME NEW c \in Conns, NEW t \in Tokens, EnrolRefused(c, t) PROVE StoreWell'
  BY <1>5 DEF EnrolRefused, Unexpired, StoreWell, used
<1>6. ASSUME NEW c \in Conns, NEW t \in Tokens, EnrolToken(c, t) PROVE StoreWell'
  <2>1. TokenOwner[t] \in Owners
    OBVIOUS
  <2>2. owner' \in [Machines -> Owners \union {None}] /\ nonces' \subseteq Tokens
    BY <1>6, <2>1 DEF EnrolToken, Unexpired, StoreWell
  <2>3. faults' \in Nat /\ disk' \in [owner : [Machines -> Owners \union {None}], nonces : SUBSET Tokens]
    BY <1>6, <2>2 DEF EnrolToken, Saved, StoreWell
  <2>4. /\ enrolments' = [enrolments EXCEPT ![t] = AtMost(@ + 1, 2)]
        /\ UNCHANGED <<now, excused>> /\ astray' \subseteq astray \union {t}
    BY <1>6 DEF EnrolToken
  <2>5. /\ now' \in Nat /\ enrolments' \in [Tokens -> Nat] /\ excused' \subseteq Owners
        /\ astray' \subseteq Tokens
    BY <2>4 DEF StoreWell, AtMost
  <2> QED
    BY <2>2, <2>3, <2>5 DEF StoreWell
<1>7. ASSUME NEW c \in Conns, NEW t \in Tokens, EnrolFails(c, t) PROVE StoreWell'
  <2>1. TokenOwner[t] \in Owners
    OBVIOUS
  <2>2. owner' \in [Machines -> Owners \union {None}] /\ nonces' \subseteq Tokens
    BY <1>7, <2>1 DEF EnrolFails, Unexpired, StoreWell
  <2>3. faults' \in Nat /\ disk' \in [owner : [Machines -> Owners \union {None}], nonces : SUBSET Tokens]
    BY <1>7, <2>2 DEF EnrolFails, SaveFails, StoreWell
  <2>4. /\ now' \in Nat /\ enrolments' \in [Tokens -> Nat] /\ excused' \subseteq Owners
        /\ astray' \subseteq Tokens
    BY <1>7, <2>1 DEF EnrolFails, StoreWell, AtMost
  <2> QED
    BY <2>2, <2>3, <2>4 DEF StoreWell
<1>8. ASSUME NEW c \in Conns, NEW m \in Machines, Forget(c, m) PROVE StoreWell'
  <2>1. conn[c].owner \in Owners
    BY <1>8 DEF Forget, Serving, ConnsWell, ConnWell, Phases
  <2> QED
    BY <1>8, <2>1 DEF Forget, Saved, SaveFails, StoreWell, used
<1>9. ASSUME NEW c \in Conns, TurnAway(c) PROVE StoreWell'
  <2>1. conn[c].owner \in Owners
    BY <1>9 DEF TurnAway, ConnsWell, ConnWell, JoiningPhases
  <2> QED
    BY <1>9, <2>1 DEF TurnAway, StoreWell, store, used
<1>10. ASSUME NEW c \in Conns, Join(c) \/ Leave(c) \/ Cut(c) PROVE StoreWell'
  <2>1. UNCHANGED <<now, store, used, faults>>
    BY <1>10 DEF Join, Leave, Cut
  <2>2. UNCHANGED excused \/ \E o \in Owners, all \in BOOLEAN : Tell(c, o, all)
    BY <1>10, Announced
  <2>3. Displaced(c) \subseteq Owners
    BY DEF Displaced, ConnsWell, ConnWell, StoreWell, KnownPhases, JoiningPhases
  <2>4. excused' \subseteq Owners
    BY <2>2, <2>3 DEF Tell, StoreWell
  <2> QED
    BY <2>1, <2>4 DEF StoreWell, store, used
<1>11. ASSUME NEW c \in Conns,
              \/ Serve(c) \/ Busy(c) \/ Begin(c) \/ UpgradeFails(c) \/ Unproven(c)
              \/ BrowserProven(c) \/ AgentProven(c) \/ AgentFound(c) \/ Known(c) \/ Unenrolled(c)
              \/ HandshakeDone(c) \/ Reject(c) \/ Admit(c) \/ Succeed(c) \/ Release(c)
              \/ ListOwned(c) \/ ReadFlags(c) \/ Push(c) \/ Forward(c)
       PROVE  UNCHANGED <<now, faults, owner, nonces, disk, used, excused>>
  BY <1>11 DEF Serve, Busy, Begin, UpgradeFails, Unproven, BrowserProven, AgentProven, AgentFound,
               Known, Unenrolled, HandshakeDone, Reject, Admit, Succeed, Release, ListOwned,
               ReadFlags, Push, Forward, store
<1>12. UNCHANGED vars => UNCHANGED <<now, faults, owner, nonces, disk, used, excused>>
  BY DEF vars, store
<1> QED
  BY <1>1, <1>2, <1>3, <1>4, <1>5, <1>6, <1>7, <1>8, <1>9, <1>10, <1>11, <1>12
     DEF Next, Handshake

\* Every step keeps the maps of the hub well formed.
LEMMA HubStays ==
  ASSUME ConnsWell, NotesWell, HubWell, [Next]_vars
  PROVE  HubWell'
<1> USE RelayAssumption
<1>1. CASE UNCHANGED <<hub, shown>>
  BY <1>1 DEF HubWell, hub
<1>2. CASE Restart
  BY <1>2 DEF Restart, HubWell
<1>3. ASSUME NEW c \in Conns, Join(c) PROVE HubWell'
  BY <1>3 DEF Join, ConnsWell, ConnWell, KnownPhases, JoiningPhases, Conns, HubWell
<1>4. ASSUME NEW c \in Conns, Leave(c) PROVE HubWell'
  BY <1>4 DEF Leave, Unroute, Conns, HubWell
<1>5. ASSUME NEW c \in Conns, Push(c) PROVE HubWell'
  <2>1. note[c].machines \in SUBSET Machines
    BY DEF NotesWell, NoteRecords
  <2>2. shown' \in [BrowserConns -> SUBSET Machines]
    BY <1>5, <2>1 DEF Push, HubWell
  <2> QED
    BY <1>5, <2>2 DEF Push, HubWell, hub
<1>6. ASSUME NEW c \in Conns,
             \/ Handshake(c) \/ TurnAway(c) \/ Admit(c) \/ Succeed(c) \/ Release(c)
             \/ ListOwned(c) \/ ReadFlags(c) \/ Forward(c) \/ Cut(c) \/ \E m \in Machines : Forget(c, m)
      PROVE  UNCHANGED <<hub, shown>>
  BY <1>6 DEF Handshake, Serve, Busy, Begin, UpgradeFails, Unproven, BrowserProven, AgentProven,
              AgentFound, Known, Rename, Unenrolled, Enrolling, EnrolRefused, EnrolToken,
              EnrolFails, Refuse, Accept, HandshakeDone, Reject, TurnAway, Admit, Succeed, Release,
              ListOwned, ReadFlags,
              Forward, Cut, Forget
<1>7. Tick \/ UNCHANGED vars => UNCHANGED <<hub, shown>>
  BY DEF Tick, vars
<1> QED
  BY <1>1, <1>2, <1>3, <1>4, <1>5, <1>6, <1>7 DEF Next

-----------------------------------------------------------------------------
(* The limiter counts what is there. *)

\* A set with one more, and with one less.
LEMMA OneMore ==
  ASSUME NEW S, IsFiniteSet(S), NEW x, x \notin S
  PROVE  Cardinality(S) \in Nat /\ Cardinality(S \union {x}) = Cardinality(S) + 1
BY FS_AddElement, FS_CardinalityType

LEMMA OneLess ==
  ASSUME NEW S, IsFiniteSet(S), NEW x \in S
  PROVE  Cardinality(S) \in Nat \ {0} /\ Cardinality(S \ {x}) = Cardinality(S) - 1
BY FS_RemoveElement, FS_CardinalityType, FS_EmptySet

\* What is counted is finite.
LEMMA CountedAreFinite ==
  /\ IsFiniteSet(Greeting) /\ IsFiniteSet(Staying) /\ IsFiniteSet(BrowsersStaying)
  /\ \A a : IsFiniteSet(StayingAt(a))
<1>1. \A S : S \subseteq Conns => IsFiniteSet(S)
  BY RelayAssumption, FS_Subset
<1> QED
  BY <1>1 DEF Greeting, Staying, BrowsersStaying, StayingAt, Conns

\* The counters, in terms of these sets.
Balanced ==
  /\ inFlight = Cardinality(Greeting)
  /\ activeN = Cardinality(Staying)
  /\ ownersN = Cardinality(BrowsersStaying)
  /\ \A a \in Addrs : active[a] = Cardinality(StayingAt(a))

\* They are what LimiterBalances says of them, in a state and in the next one.
LEMMA BalancedIsLimiterBalances == Balanced <=> LimiterBalances
BY DEF Balanced, LimiterBalances, Greeting, Staying, BrowsersStaying, StayingAt

LEMMA BalancedStep == Balanced' <=> LimiterBalances'
BY DEF Balanced, LimiterBalances, Greeting, Staying, BrowsersStaying, StayingAt

GreetingPhase(p) == p \in HandshakePhases
StayingPhase(p) == p \in StayingPhases

\* No connection begins or ends its handshake, comes to stay or goes.
Same(d) ==
  /\ GreetingPhase(conn'[d].phase) <=> GreetingPhase(conn[d].phase)
  /\ StayingPhase(conn'[d].phase) <=> StayingPhase(conn[d].phase)
  /\ StayingPhase(conn[d].phase) => conn'[d].addr = conn[d].addr

\* A step at which nothing that is counted changes, and no counter does.
LEMMA StandingStill ==
  ASSUME Balanced, \A d \in Conns : Same(d), UNCHANGED <<inFlight, activeN, ownersN, active>>
  PROVE  Balanced'
<1>1. UNCHANGED <<Greeting, Staying, BrowsersStaying>> /\ \A a : StayingAt(a)' = StayingAt(a)
  BY DEF Same, Greeting, Staying, BrowsersStaying, StayingAt, GreetingPhase, StayingPhase, Conns
<1> QED
  BY <1>1 DEF Balanced

\* A handshake begins.
LEMMA Greet ==
  ASSUME Balanced, NEW c \in Conns, \A d \in Conns \ {c} : Same(d),
         ~ GreetingPhase(conn[c].phase), GreetingPhase(conn'[c].phase),
         ~ StayingPhase(conn[c].phase), ~ StayingPhase(conn'[c].phase),
         inFlight' = inFlight + 1, UNCHANGED <<activeN, ownersN, active>>
  PROVE  Balanced'
<1>1. c \notin Greeting /\ Greeting' = Greeting \union {c}
  BY DEF Same, Greeting, GreetingPhase
<1>2. UNCHANGED <<Staying, BrowsersStaying>> /\ \A a : StayingAt(a)' = StayingAt(a)
  BY DEF Same, Staying, BrowsersStaying, StayingAt, StayingPhase, Conns
<1>3. inFlight' = Cardinality(Greeting')
  BY <1>1, CountedAreFinite, OneMore DEF Balanced
<1> QED
  BY <1>2, <1>3 DEF Balanced

\* A handshake ends.
LEMMA Part ==
  ASSUME Balanced, NEW c \in Conns, \A d \in Conns \ {c} : Same(d),
         GreetingPhase(conn[c].phase), ~ GreetingPhase(conn'[c].phase),
         ~ StayingPhase(conn[c].phase), ~ StayingPhase(conn'[c].phase),
         Done, UNCHANGED <<activeN, ownersN, active>>
  PROVE  Balanced' /\ inFlight' \in Nat
<1>1. c \in Greeting /\ Greeting' = Greeting \ {c}
  BY DEF Same, Greeting, GreetingPhase
<1>2. UNCHANGED <<Staying, BrowsersStaying>> /\ \A a : StayingAt(a)' = StayingAt(a)
  BY DEF Same, Staying, BrowsersStaying, StayingAt, StayingPhase, GreetingPhase, Conns
<1>3. inFlight' = Cardinality(Greeting') /\ inFlight' \in Nat
  <2>1. inFlight = Cardinality(Greeting) /\ IsFiniteSet(Greeting)
    BY CountedAreFinite DEF Balanced
  <2>2. Cardinality(Greeting) \in Nat \ {0} /\ Cardinality(Greeting') = Cardinality(Greeting) - 1
    BY <1>1, <2>1, OneLess
  <2> QED
    BY <2>1, <2>2 DEF Done
<1> QED
  BY <1>2, <1>3 DEF Balanced

\* A connection comes to stay.
LEMMA Settle ==
  ASSUME Balanced, NEW c \in Conns, \A d \in Conns \ {c} : Same(d),
         active \in [Addrs -> Nat],
         ~ GreetingPhase(conn[c].phase), ~ GreetingPhase(conn'[c].phase),
         ~ StayingPhase(conn[c].phase), StayingPhase(conn'[c].phase),
         conn'[c].addr = conn[c].addr,
         UNCHANGED inFlight, activeN' = activeN + 1,
         active' = [active EXCEPT ![conn[c].addr] = @ + 1],
         ownersN' = IF c \in BrowserConns THEN ownersN + 1 ELSE ownersN
  PROVE  Balanced'
<1>1. Greeting' = Greeting
  BY DEF Same, Greeting, GreetingPhase
<1>2. c \notin Staying /\ Staying' = Staying \union {c}
  BY DEF Same, Staying, StayingPhase
<1>3. c \notin BrowsersStaying
      /\ BrowsersStaying' = IF c \in BrowserConns THEN BrowsersStaying \union {c} ELSE BrowsersStaying
  BY DEF Same, BrowsersStaying, StayingPhase, Conns
<1>4. ASSUME NEW a \in Addrs
      PROVE  c \notin StayingAt(a)
             /\ StayingAt(a)' = IF a = conn[c].addr THEN StayingAt(a) \union {c} ELSE StayingAt(a)
  BY DEF Same, StayingAt, StayingPhase
<1>5. activeN' = Cardinality(Staying')
  BY <1>2, CountedAreFinite, OneMore DEF Balanced
<1>6. ownersN' = Cardinality(BrowsersStaying')
  BY <1>3, CountedAreFinite, OneMore DEF Balanced
<1>7. ASSUME NEW a \in Addrs PROVE active'[a] = Cardinality(StayingAt(a)')
  BY <1>4, CountedAreFinite, OneMore DEF Balanced
<1> QED
  BY <1>1, <1>5, <1>6, <1>7 DEF Balanced

\* A connection that stayed is gone.
LEMMA Depart ==
  ASSUME Balanced, NEW c \in Conns, \A d \in Conns \ {c} : Same(d),
         active \in [Addrs -> Nat], conn[c].addr \in Addrs,
         ~ GreetingPhase(conn[c].phase), ~ GreetingPhase(conn'[c].phase),
         StayingPhase(conn[c].phase), ~ StayingPhase(conn'[c].phase),
         UNCHANGED inFlight, activeN' = IF activeN > 0 THEN activeN - 1 ELSE 0,
         active' = [active EXCEPT ![conn[c].addr] = IF @ > 0 THEN @ - 1 ELSE 0],
         ownersN' = IF c \in BrowserConns /\ ownersN > 0 THEN ownersN - 1 ELSE ownersN
  PROVE  Balanced'
<1>1. Greeting' = Greeting
  BY DEF Same, Greeting, GreetingPhase
<1>2. c \in Staying /\ Staying' = Staying \ {c}
  BY DEF Same, Staying, StayingPhase
<1>3. IF c \in BrowserConns THEN c \in BrowsersStaying /\ BrowsersStaying' = BrowsersStaying \ {c}
      ELSE BrowsersStaying' = BrowsersStaying
  BY DEF Same, BrowsersStaying, StayingPhase, Conns
<1>4. ASSUME NEW a \in Addrs
      PROVE  IF a = conn[c].addr THEN c \in StayingAt(a) /\ StayingAt(a)' = StayingAt(a) \ {c}
             ELSE StayingAt(a)' = StayingAt(a)
  BY DEF Same, StayingAt, StayingPhase
<1>5. activeN' = Cardinality(Staying')
  BY <1>2, CountedAreFinite, OneLess DEF Balanced
<1>6. ownersN' = Cardinality(BrowsersStaying')
  BY <1>3, CountedAreFinite, OneLess DEF Balanced
<1>7. ASSUME NEW a \in Addrs PROVE active'[a] = Cardinality(StayingAt(a)')
  <2>1. CASE a = conn[c].addr
    BY <1>4, <2>1, CountedAreFinite, OneLess DEF Balanced
  <2>2. CASE a # conn[c].addr
    BY <1>4, <2>2 DEF Balanced
  <2> QED
    BY <2>1, <2>2
<1> QED
  BY <1>1, <1>5, <1>6, <1>7 DEF Balanced

\* The count of failures of an address.
LEMMA FailuresWell ==
  ASSUME now \in Nat, failures \in [Addrs -> [n : Nat, since : Nat]], NEW a \in Addrs, Failed(a)
  PROVE  failures' \in [Addrs -> [n : Nat, since : Nat]]
BY RelayAssumption DEF Failed, AtMost

\* Closing connections moves none.
LEMMA ClosingMovesNone ==
  ASSUME ConnsWell, NEW D, Overflow(D)
  PROVE  \A d \in Conns : Same(d)
<1>1. ASSUME NEW d \in Conns
      PROVE  conn'[d].phase = conn[d].phase /\ conn'[d].addr = conn[d].addr
  <2>1. conn'[d] = [conn[d] EXCEPT !.closed = TRUE] \/ conn'[d] = conn[d]
    BY DEF Overflow
  <2> QED
    BY <2>1 DEF ConnsWell, ConnRecords
<1> QED
  BY <1>1 DEF Same

\* What is charged in which phase.
LEMMA Classes ==
  /\ \A p \in {"handshake", "proven", "found", "refused", "accepted"} :
       GreetingPhase(p) /\ ~ StayingPhase(p)
  /\ \A p \in {"admitted", "cleared", "serving", "leaving"} :
       StayingPhase(p) /\ ~ GreetingPhase(p)
  /\ \A p \in {"idle", "dialled", "failing", "authed"} :
       ~ StayingPhase(p) /\ ~ GreetingPhase(p)
BY DEF GreetingPhase, StayingPhase, HandshakePhases, StayingPhases

\* One connection comes to another phase, or ends.
LEMMA OneChanges ==
  ASSUME ConnsWell, NEW c \in Conns, NEW p, conn' = [conn EXCEPT ![c].phase = p]
  PROVE  /\ conn'[c].phase = p /\ conn'[c].addr = conn[c].addr
         /\ \A d \in Conns : d # c => Same(d)
BY DEF ConnsWell, ConnRecords, Same

LEMMA OneEnds ==
  ASSUME ConnsWell, NEW c \in Conns, conn' = [conn EXCEPT ![c] = Gone]
  PROVE  conn'[c].phase = "idle" /\ \A d \in Conns : d # c => Same(d)
BY DEF ConnsWell, Gone, Same

\* A handshake, an admission and an end are of one connection.
LEMMA OthersKeep ==
  ASSUME ConnsWell, NEW c \in Conns,
         Handshake(c) \/ TurnAway(c) \/ Admit(c) \/ Succeed(c) \/ Release(c)
  PROVE  \A d \in Conns : d # c => conn'[d] = conn[d]
<1>1. (\E r : conn' = [conn EXCEPT ![c] = r]) => \A d \in Conns : d # c => conn'[d] = conn[d]
  BY DEF ConnsWell
<1>2. \A p, q : /\ conn' = [conn EXCEPT ![c].phase = p]
               \/ conn' = [conn EXCEPT ![c].phase = p, ![c].addr = q]
               \/ conn' = [conn EXCEPT ![c].phase = p, ![c].owner = q]
      => \A d \in Conns : d # c => conn'[d] = conn[d]
  BY DEF ConnsWell
<1>3. Serve(c) \/ AgentFound(c) \/ Begin(c) \/ HandshakeDone(c) \/ Admit(c) \/ Succeed(c) =>
        \A d \in Conns : d # c => conn'[d] = conn[d]
  BY <1>2 DEF Serve, AgentFound, Begin, HandshakeDone, Admit, Succeed
<1>4. Refuse(c) \/ Busy(c) \/ UpgradeFails(c) \/ Reject(c) \/ TurnAway(c) \/ Release(c) =>
        \A d \in Conns : d # c => conn'[d] = conn[d]
  BY <1>1 DEF Refuse, Busy, UpgradeFails, Reject, TurnAway, Release
<1>5. BrowserProven(c) \/ AgentProven(c) \/ (\E o : Accept(c, o)) =>
        \A d \in Conns : d # c => conn'[d] = conn[d]
  <2>1. BrowserProven(c) => \A d \in Conns : d # c => conn'[d] = conn[d]
    BY DEF BrowserProven, ConnsWell, ConnRecords
  <2>2. AgentProven(c) => \A d \in Conns : d # c => conn'[d] = conn[d]
    BY DEF AgentProven, ConnsWell, ConnRecords
  <2>3. \A o : Accept(c, o) => \A d \in Conns : d # c => conn'[d] = conn[d]
    BY DEF Accept, ConnsWell, ConnRecords
  <2> QED
    BY <2>1, <2>2, <2>3
<1>6. Unproven(c) \/ Unenrolled(c) \/ (\E t \in Tokens : EnrolRefused(c, t) \/ EnrolFails(c, t)) =>
        Refuse(c)
  BY Zenon DEF Unproven, Unenrolled, EnrolRefused, EnrolFails
<1>7. Known(c) \/ Rename(c) \/ (\E t \in Tokens : EnrolToken(c, t)) => \E o : Accept(c, o)
  BY Zenon DEF Known, Rename, EnrolToken
<1> QED
  BY <1>3, <1>4, <1>5, <1>6, <1>7 DEF Handshake

\* Every step keeps the counters true.
LEMMA LimiterStays ==
  ASSUME ConnsWell, NotesWell, StoreWell, LimiterWell, Balanced, [Next]_vars
  PROVE  LimiterWell' /\ Balanced'
<1> USE RelayAssumption
<1>1. ASSUME UNCHANGED limiter, \A d \in Conns : Same(d)
      PROVE  LimiterWell' /\ Balanced'
  BY <1>1, StandingStill DEF LimiterWell, limiter
<1>2. CASE Restart
  <2>1. Greeting' = {} /\ Staying' = {} /\ BrowsersStaying' = {} /\ \A a \in Addrs : StayingAt(a)' = {}
    BY <1>2 DEF Restart, Gone, Greeting, Staying, BrowsersStaying, StayingAt, Conns,
                HandshakePhases, StayingPhases
  <2>2. Cardinality({}) = 0
    BY FS_EmptySet
  <2>3. inFlight' = 0 /\ activeN' = 0 /\ ownersN' = 0 /\ active' = [a \in Addrs |-> 0]
        /\ failures' = [a \in Addrs |-> NoFailures]
    BY <1>2 DEF Restart
  <2>4. Balanced'
    BY <2>1, <2>2, <2>3 DEF Balanced
  <2>5. LimiterWell'
    BY <2>3 DEF LimiterWell, NoFailures
  <2> QED
    BY <2>4, <2>5
<1>3. ASSUME NEW c \in Conns, Begin(c) PROVE LimiterWell' /\ Balanced'
  <2>1. /\ conn[c].phase = "dialled" /\ inFlight' = inFlight + 1
        /\ conn' = [conn EXCEPT ![c].phase = "handshake"]
        /\ UNCHANGED <<activeN, ownersN, active, failures>>
    BY <1>3 DEF Begin
  <2>2. conn'[c].phase = "handshake" /\ \A d \in Conns \ {c} : Same(d)
    BY <2>1, OneChanges
  <2>3. Balanced'
    BY <2>1, <2>2, Greet, Classes
  <2> QED
    BY <2>1, <2>3 DEF LimiterWell
<1>4. ASSUME NEW c \in Conns, UpgradeFails(c) \/ HandshakeDone(c)
      PROVE  LimiterWell' /\ Balanced'
  <2>1. /\ Done /\ UNCHANGED <<activeN, ownersN, active, failures>>
        /\ conn[c].phase \in {"handshake", "refused", "accepted"}
        /\ \/ conn' = [conn EXCEPT ![c] = Gone]
           \/ \E p \in {"failing", "authed"} : conn' = [conn EXCEPT ![c].phase = p]
    BY <1>4 DEF UpgradeFails, HandshakeDone
  <2>2. conn'[c].phase \in {"idle", "failing", "authed"} /\ \A d \in Conns \ {c} : Same(d)
    BY <2>1, OneChanges, OneEnds
  <2>3. Balanced' /\ inFlight' \in Nat
    BY <2>1, <2>2, Part, Classes
  <2> QED
    BY <2>1, <2>3 DEF LimiterWell
<1>5. ASSUME NEW c \in Conns, Reject(c) \/ Succeed(c) PROVE LimiterWell' /\ Balanced'
  <2>1. conn[c].addr \in Addrs /\ UNCHANGED <<inFlight, activeN, ownersN, active>>
    BY <1>5 DEF Reject, Succeed, ConnsWell, ConnWell
  <2>2. \A d \in Conns : Same(d)
    <3>1. CASE Reject(c)
      <4>1. conn[c].phase = "failing" /\ conn' = [conn EXCEPT ![c] = Gone]
        BY <3>1 DEF Reject
      <4> QED
        BY <4>1, OneEnds, Classes DEF Same
    <3>2. CASE Succeed(c)
      <4>1. conn[c].phase = "admitted" /\ conn' = [conn EXCEPT ![c].phase = "cleared"]
        BY <3>2 DEF Succeed
      <4> QED
        BY <4>1, OneChanges, Classes DEF Same
    <3> QED
      BY <1>5, <3>1, <3>2
  <2>3. failures' \in [Addrs -> [n : Nat, since : Nat]]
    <3>1. CASE Reject(c)
      BY <2>1, <3>1, FailuresWell DEF Reject, LimiterWell, StoreWell
    <3>2. CASE Succeed(c)
      <4>1. NoFailures \in [n : Nat, since : Nat]
        BY DEF NoFailures
      <4> QED
        BY <2>1, <3>2, <4>1 DEF Succeed, LimiterWell
    <3> QED
      BY <1>5, <3>1, <3>2
  <2> QED
    BY <2>1, <2>2, <2>3, StandingStill DEF LimiterWell
<1>6. ASSUME NEW c \in Conns,
             \/ Serve(c) \/ Busy(c) \/ Unproven(c) \/ BrowserProven(c) \/ AgentProven(c)
             \/ AgentFound(c) \/ Known(c) \/ Rename(c) \/ Unenrolled(c) \/ TurnAway(c)
             \/ \E t \in Tokens : EnrolRefused(c, t) \/ EnrolToken(c, t) \/ EnrolFails(c, t)
      PROVE  UNCHANGED limiter /\ \A d \in Conns : Same(d)
  <2>1. UNCHANGED limiter
    BY <1>6, Zenon DEF Serve, Busy, Unproven, BrowserProven, AgentProven, AgentFound, Known, Rename,
                       Unenrolled, TurnAway, EnrolRefused, EnrolToken, EnrolFails
  <2>2. \/ conn[c].phase \in {"idle", "dialled", "authed"} /\ conn'[c].phase \in {"idle", "dialled"}
        \/ /\ conn[c].phase \in {"handshake", "proven", "found"}
           /\ conn'[c].phase \in {"proven", "found", "refused", "accepted"}
    <3>1. Serve(c) => conn[c].phase = "idle" /\ conn'[c].phase = "dialled"
      BY DEF Serve, ConnsWell, ConnRecords
    <3>2. Busy(c) \/ TurnAway(c) => conn[c].phase \in {"dialled", "authed"} /\ conn'[c].phase = "idle"
      BY DEF Busy, TurnAway, Gone, ConnsWell
    <3>3. Refuse(c) => conn'[c].phase = "refused"
      BY DEF Refuse, Gone, ConnsWell
    <3>4. \A o : Accept(c, o) => conn'[c].phase = "accepted"
      BY DEF Accept, ConnsWell, ConnRecords
    <3>5. BrowserProven(c) => conn[c].phase = "handshake" /\ conn'[c].phase = "accepted"
      BY DEF BrowserProven, ConnsWell, ConnRecords
    <3>6. AgentProven(c) => conn[c].phase = "handshake" /\ conn'[c].phase = "proven"
      BY DEF AgentProven, ConnsWell, ConnRecords
    <3>7. AgentFound(c) => conn[c].phase = "proven" /\ conn'[c].phase = "found"
      BY DEF AgentFound, ConnsWell, ConnRecords
    <3>8. Unproven(c) => conn[c].phase = "handshake" /\ Refuse(c)
      BY DEF Unproven
    <3>9. Known(c) \/ Rename(c) \/ (\E t \in Tokens : EnrolToken(c, t)) =>
            conn[c].phase = "found" /\ \E o : Accept(c, o)
      BY Zenon DEF Known, Rename, EnrolToken, Enrolling
    <3>10. Unenrolled(c) \/ (\E t \in Tokens : EnrolRefused(c, t) \/ EnrolFails(c, t)) =>
             conn[c].phase = "found" /\ Refuse(c)
      BY Zenon DEF Unenrolled, EnrolRefused, EnrolFails, Enrolling
    <3> QED
      BY <1>6, <3>1, <3>2, <3>3, <3>4, <3>5, <3>6, <3>7, <3>8, <3>9, <3>10
  <2>3. \A d \in Conns : d # c => conn'[d] = conn[d]
    <3>1. Handshake(c) \/ TurnAway(c)
      BY <1>6, Zenon DEF Handshake
    <3> QED
      BY <3>1, OthersKeep
  <2> QED
    BY <2>1, <2>2, <2>3, Classes DEF Same
<1>7. ASSUME NEW c \in Conns, Admit(c) PROVE LimiterWell' /\ Balanced'
  <2>1. /\ conn[c].phase = "authed" /\ conn' = [conn EXCEPT ![c].phase = "admitted"]
        /\ UNCHANGED <<inFlight, failures>> /\ activeN' = activeN + 1
        /\ active' = [active EXCEPT ![conn[c].addr] = @ + 1]
        /\ ownersN' = IF c \in BrowserConns THEN ownersN + 1 ELSE ownersN
    BY <1>7 DEF Admit
  <2>2. conn[c].addr \in Addrs
    BY <2>1 DEF ConnsWell, ConnWell
  <2>3. /\ conn'[c].phase = "admitted" /\ conn'[c].addr = conn[c].addr
        /\ \A d \in Conns \ {c} : Same(d)
    BY <2>1, OneChanges
  <2>4. Balanced'
    BY <2>1, <2>3, Settle, Classes DEF LimiterWell
  <2> QED
    BY <2>1, <2>2, <2>4 DEF LimiterWell
<1>8. ASSUME NEW c \in Conns, Join(c) \/ Leave(c)
      PROVE  UNCHANGED limiter /\ \A d \in Conns : Same(d)
  <2>1. UNCHANGED limiter
    BY <1>8 DEF Join, Leave
  <2>2. CASE Join(c)
    <3>1. ASSUME NEW d \in Conns
          PROVE  /\ conn'[d].addr = conn[d].addr
                 /\ \/ conn'[d].phase = conn[d].phase
                    \/ conn[d].phase = "cleared" /\ conn'[d].phase = "serving"
      <4>1. \/ conn'[d] = [conn[d] EXCEPT !.closed = TRUE] \/ conn'[d] = conn[d]
            \/ conn[d].phase = "cleared" /\ conn'[d] = [conn[d] EXCEPT !.phase = "serving"]
        BY <2>2 DEF Join, ConnsWell
      <4> QED
        BY <4>1 DEF ConnsWell, ConnRecords
    <3> QED
      BY <2>1, <3>1, Classes DEF Same
  <2>3. CASE Leave(c)
    <3>1. /\ conn[c].phase = "serving"
          /\ conn' = [conn EXCEPT ![c].phase = "leaving", ![c].closed = TRUE]
      BY <2>3 DEF Leave
    <3>2. /\ conn'[c].phase = "leaving" /\ conn'[c].addr = conn[c].addr
          /\ \A d \in Conns : d # c => conn'[d] = conn[d]
      BY <3>1 DEF ConnsWell, ConnRecords
    <3> QED
      BY <2>1, <3>1, <3>2, Classes DEF Same
  <2> QED
    BY <1>8, <2>2, <2>3
<1>9. ASSUME NEW c \in Conns, Release(c) PROVE LimiterWell' /\ Balanced'
  <2>1. conn[c].phase = "leaving" /\ conn[c].addr \in Addrs
    BY <1>9 DEF Release, ConnsWell, ConnWell
  <2>2. conn'[c].phase = "idle" /\ \A d \in Conns \ {c} : Same(d)
    BY <1>9 DEF Release, Gone, Same, ConnsWell
  <2>3. /\ UNCHANGED inFlight /\ activeN' = IF activeN > 0 THEN activeN - 1 ELSE 0
        /\ active' = [active EXCEPT ![conn[c].addr] = IF @ > 0 THEN @ - 1 ELSE 0]
        /\ ownersN' = IF c \in BrowserConns /\ ownersN > 0 THEN ownersN - 1 ELSE ownersN
        /\ UNCHANGED failures
    BY <1>9 DEF Release
  <2>4. Balanced'
    BY <2>1, <2>2, <2>3, Depart, Classes DEF LimiterWell
  <2>5. LimiterWell'
    BY <2>1, <2>3 DEF LimiterWell
  <2> QED
    BY <2>4, <2>5
<1>10. ASSUME NEW c \in Conns, Push(c) \/ Forward(c) \/ Cut(c)
       PROVE  UNCHANGED limiter /\ \A d \in Conns : Same(d)
  <2>1. UNCHANGED limiter /\ \E D : Overflow(D)
    BY <1>10 DEF Push, Forward, Cut
  <2> QED
    BY <2>1, ClosingMovesNone
<1>11. ASSUME NEW c \in Conns,
              ListOwned(c) \/ ReadFlags(c) \/ \E m \in Machines : Forget(c, m)
       PROVE  UNCHANGED <<conn, limiter>>
  BY <1>11 DEF ListOwned, ReadFlags, Forget
<1>12. UNCHANGED conn => \A d \in Conns : Same(d)
  BY DEF Same
<1>13. UNCHANGED vars => UNCHANGED <<conn, limiter>>
  BY DEF vars
<1>14. CASE Tick
  <2>1. UNCHANGED <<conn, inFlight, activeN, ownersN, active>>
    BY <1>14 DEF Tick
  <2>2. failures' \in [Addrs -> [n : Nat, since : Nat]]
    BY <1>14 DEF Tick, NoFailures, LimiterWell
  <2> QED
    BY <2>1, <2>2, <1>12, StandingStill DEF LimiterWell
<1> QED
  BY <1>1, <1>2, <1>3, <1>4, <1>5, <1>6, <1>7, <1>8, <1>9, <1>10, <1>11, <1>12, <1>13, <1>14
     DEF Next, Handshake

-----------------------------------------------------------------------------
(* The map leads to the open connection of a machine. *)

\* None of these steps leads to a connection that is served.
LEMMA PhaseOfHandshake ==
  ASSUME ConnsWell, NEW c \in Conns,
         Handshake(c) \/ TurnAway(c) \/ Admit(c) \/ Succeed(c) \/ Release(c)
  PROVE  conn'[c].phase \notin {"serving", "leaving"}
<1>1. (Busy(c) \/ UpgradeFails(c) \/ Reject(c) \/ TurnAway(c) \/ Release(c)) =>
        conn'[c].phase = "idle"
  BY OneEnds DEF Busy, UpgradeFails, Reject, TurnAway, Release
<1>2. \A p : conn' = [conn EXCEPT ![c].phase = p] => conn'[c].phase = p
  BY OneChanges
<1>3. Begin(c) \/ HandshakeDone(c) \/ Admit(c) \/ Succeed(c) =>
        conn'[c].phase \in {"handshake", "failing", "authed", "admitted", "cleared"}
  BY <1>2 DEF Begin, HandshakeDone, Admit, Succeed
<1>4. Serve(c) => conn'[c].phase = "dialled"
  BY DEF Serve, ConnsWell, ConnRecords
<1>5. Refuse(c) => conn'[c].phase = "refused"
  BY DEF Refuse, Gone, ConnsWell
<1>6. \A o : Accept(c, o) => conn'[c].phase = "accepted"
  BY DEF Accept, ConnsWell, ConnRecords
<1>7. BrowserProven(c) => conn'[c].phase = "accepted"
  BY DEF BrowserProven, ConnsWell, ConnRecords
<1>8. AgentProven(c) => conn'[c].phase = "proven"
  BY DEF AgentProven, ConnsWell, ConnRecords
<1>9. AgentFound(c) => conn'[c].phase = "found"
  BY DEF AgentFound, ConnsWell, ConnRecords
<1>10. Unproven(c) \/ Unenrolled(c)
       \/ (\E t \in Tokens : EnrolRefused(c, t) \/ EnrolFails(c, t)) => Refuse(c)
  BY Zenon DEF Unproven, Unenrolled, EnrolRefused, EnrolFails
<1>11. Known(c) \/ Rename(c) \/ (\E t \in Tokens : EnrolToken(c, t)) => \E o : Accept(c, o)
  BY Zenon DEF Known, Rename, EnrolToken
<1> QED
  BY <1>1, <1>3, <1>4, <1>5, <1>6, <1>7, <1>8, <1>9, <1>10, <1>11 DEF Handshake

\* A step after which no other connection serves, and the map is the same.
LEMMA MapKept ==
  ASSUME OpenAgentIsRouted, UNCHANGED agents,
         \A d \in AgentConns :
           conn'[d].phase = "serving" /\ ~conn'[d].closed =>
             conn[d].phase = "serving" /\ ~conn[d].closed /\ conn'[d].key = conn[d].key
  PROVE  OpenAgentIsRouted'
BY DEF OpenAgentIsRouted

\* Every step keeps the map true.
LEMMA RoutedStays ==
  ASSUME ConnsWell, HubWell, OpenAgentIsRouted, [Next]_vars
  PROVE  OpenAgentIsRouted'
<1> USE RelayAssumption
<1>1. CASE UNCHANGED <<conn, agents>>
  BY <1>1 DEF OpenAgentIsRouted
<1>2. CASE Restart
  BY <1>2 DEF Restart, Gone, OpenAgentIsRouted, Conns
<1>3. ASSUME NEW c \in Conns,
             Handshake(c) \/ TurnAway(c) \/ Admit(c) \/ Succeed(c) \/ Release(c)
      PROVE  OpenAgentIsRouted'
  <2>1. UNCHANGED agents
    <3>1. Serve(c) \/ Busy(c) \/ Begin(c) \/ UpgradeFails(c) \/ Unproven(c) \/ Reject(c)
          \/ HandshakeDone(c) \/ TurnAway(c) \/ Admit(c) \/ Succeed(c) \/ Release(c) => UNCHANGED hub
      BY Zenon DEF Serve, Busy, Begin, UpgradeFails, Unproven, Reject, HandshakeDone, TurnAway, Admit,
                   Succeed, Release
    <3>2. BrowserProven(c) \/ AgentProven(c) \/ AgentFound(c) \/ Known(c) \/ Rename(c)
          \/ Unenrolled(c)
          \/ (\E t \in Tokens : EnrolRefused(c, t) \/ EnrolToken(c, t) \/ EnrolFails(c, t)) =>
            UNCHANGED hub
      BY Zenon DEF BrowserProven, AgentProven, AgentFound, Known, Rename, Unenrolled, EnrolRefused,
                   EnrolToken, EnrolFails
    <3> QED
      BY <1>3, <3>1, <3>2 DEF Handshake, hub
  <2>2. conn'[c].phase # "serving"
    BY <1>3, PhaseOfHandshake
  <2>3. \A d \in Conns : d # c => conn'[d] = conn[d]
    BY <1>3, OthersKeep
  <2> QED
    BY <2>1, <2>2, <2>3, MapKept DEF Conns
<1>4. ASSUME NEW c \in Conns, Join(c) PROVE OpenAgentIsRouted'
  <2>1. CASE c \in AgentConns
    <3> DEFINE m == conn[c].key
    <3>1. m \in Machines
      BY <1>4, <2>1 DEF Join, ConnsWell, ConnWell, KnownPhases, JoiningPhases
    <3>2. agents' = [agents EXCEPT ![m] = c]
      BY <1>4, <2>1 DEF Join
    <3>3. conn'[c].key = m
      BY <1>4, <2>1 DEF Join, ConnsWell, ConnRecords
    <3>4. ASSUME NEW d \in AgentConns, d # c, conn'[d].phase = "serving", ~conn'[d].closed
          PROVE  agents'[conn'[d].key] = d
      <4>1. conn'[d] = IF d = agents[m] THEN [conn[d] EXCEPT !.closed = TRUE] ELSE conn[d]
        BY <1>4, <2>1, <3>4 DEF Join, Conns
      <4>2. d # agents[m] /\ conn'[d] = conn[d]
        BY <4>1, <3>4 DEF ConnsWell, ConnRecords, Conns
      <4>3. agents[conn[d].key] = d
        BY <4>2, <3>4 DEF OpenAgentIsRouted
      <4>4. conn[d].key # m
        BY <4>2, <4>3
      <4> QED
        BY <3>2, <4>2, <4>3, <4>4 DEF HubWell
    <3>5. agents'[conn'[c].key] = c
      BY <3>1, <3>2, <3>3 DEF HubWell
    <3> QED
      BY <3>4, <3>5 DEF OpenAgentIsRouted
  <2>2. CASE c \notin AgentConns
    BY <1>4, <2>2 DEF Join, OpenAgentIsRouted, ConnsWell, Conns
  <2> QED
    BY <2>1, <2>2
<1>5. ASSUME NEW c \in Conns, Leave(c) PROVE OpenAgentIsRouted'
  <2>1. conn'[c].phase = "leaving" /\ \A d \in Conns \ {c} : conn'[d] = conn[d]
    BY <1>5 DEF Leave, ConnsWell, ConnRecords
  <2>2. \A m \in Machines : agents'[m] = agents[m] \/ agents[m] = c
    BY <1>5 DEF Leave, Unroute, HubWell
  <2>3. \A d \in AgentConns : conn[d].phase = "serving" => conn[d].key \in Machines
    BY DEF ConnsWell, ConnWell, KnownPhases, Conns
  <2> QED
    BY <2>1, <2>2, <2>3 DEF OpenAgentIsRouted, Conns
<1>6. ASSUME NEW c \in Conns, Push(c) \/ Forward(c) \/ Cut(c) PROVE OpenAgentIsRouted'
  <2>1. UNCHANGED agents /\ \E D : Overflow(D)
    BY <1>6 DEF Push, Forward, Cut, hub
  <2>2. PICK D : Overflow(D)
    BY <2>1
  <2>3. ASSUME NEW d \in AgentConns, conn'[d].phase = "serving", ~conn'[d].closed
        PROVE  conn'[d] = conn[d]
    <3>1. conn'[d] = [conn[d] EXCEPT !.closed = TRUE] \/ conn'[d] = conn[d]
      BY <2>2 DEF Overflow, Conns
    <3> QED
      BY <3>1, <2>3 DEF ConnsWell, ConnRecords, Conns
  <2> QED
    BY <2>1, <2>3, MapKept
<1>7. ASSUME NEW c \in Conns,
             ListOwned(c) \/ ReadFlags(c) \/ \E m \in Machines : Forget(c, m)
      PROVE  UNCHANGED <<conn, agents>>
  BY <1>7 DEF ListOwned, ReadFlags, Forget, hub
<1>8. Tick \/ UNCHANGED vars => UNCHANGED <<conn, agents>>
  BY DEF Tick, vars, hub
<1> QED
  BY <1>1, <1>2, <1>3, <1>4, <1>5, <1>6, <1>7, <1>8 DEF Next

-----------------------------------------------------------------------------
(* A token enrols once. *)

\* Nobody has read a time that is still to come.
LEMMA ClockStays ==
  ASSUME ConnsWell, StoreWell, ClockWasRead, [Next]_vars
  PROVE  ClockWasRead'
<1>1. now' \in Nat /\ now <= now'
  <2>1. Tick \/ UNCHANGED now
    <3>1. Restart \/ UNCHANGED vars => UNCHANGED now
      BY Zenon DEF Restart, vars
    <3>2. \A c \in Conns : Handshake(c) => UNCHANGED now
      <4> SUFFICES ASSUME NEW c \in Conns, Handshake(c) PROVE UNCHANGED now
        OBVIOUS
      <4>1. Serve(c) \/ Busy(c) \/ Begin(c) \/ UpgradeFails(c) \/ Unproven(c) \/ BrowserProven(c)
            \/ AgentProven(c) \/ AgentFound(c) \/ Known(c) => UNCHANGED now
        BY Zenon DEF Serve, Busy, Begin, UpgradeFails, Unproven, BrowserProven, AgentProven,
                     AgentFound, Known
      <4>2. Rename(c) \/ Unenrolled(c) \/ HandshakeDone(c) \/ Reject(c)
            \/ (\E t \in Tokens : EnrolRefused(c, t) \/ EnrolToken(c, t) \/ EnrolFails(c, t)) =>
              UNCHANGED now
        BY Zenon DEF Rename, Unenrolled, EnrolRefused, EnrolToken, EnrolFails, HandshakeDone, Reject
      <4> QED
        BY <4>1, <4>2 DEF Handshake
    <3>3. \A c \in Conns : TurnAway(c) \/ Admit(c) \/ Succeed(c) \/ Join(c) \/ Leave(c) \/ Release(c)
          \/ ListOwned(c) \/ ReadFlags(c) \/ Push(c) \/ Forward(c) \/ Cut(c)
          \/ (\E m \in Machines : Forget(c, m)) => UNCHANGED now
      BY Zenon DEF TurnAway, Admit, Succeed, Join, Leave, Release, ListOwned, ReadFlags, Push, Forward,
                   Cut, Forget
    <3> QED
      BY <3>1, <3>2, <3>3 DEF Next
  <2> QED
    BY <2>1 DEF Tick, StoreWell
<1>2. ASSUME NEW d \in Conns PROVE conn'[d].at \in {conn[d].at, 0, now}
  <2>1. CASE UNCHANGED conn
    BY <2>1
  <2>2. CASE Restart
    BY <2>2 DEF Restart, Gone
  <2>3. ASSUME NEW c \in Conns,
               Handshake(c) \/ TurnAway(c) \/ Admit(c) \/ Succeed(c) \/ Release(c)
        PROVE  conn'[d].at \in {conn[d].at, 0, now}
    <3>1. CASE d # c
      BY <3>1, <2>3, OthersKeep
    <3>2. CASE d = c
      <4>1. \A p, q : \/ conn' = [conn EXCEPT ![c].phase = p]
                     \/ conn' = [conn EXCEPT ![c].phase = p, ![c].addr = q]
                     \/ conn' = [conn EXCEPT ![c].phase = p, ![c].owner = q]
              => conn'[c].at = conn[c].at
        BY DEF ConnsWell, ConnRecords
      <4>2. /\ \A p, q, x : conn' = [conn EXCEPT ![c].phase = p, ![c].key = q, ![c].at = x]
                           => conn'[c].at = x
            /\ \A p, q, x : conn' = [conn EXCEPT ![c].phase = p, ![c].owner = q, ![c].at = x]
                           => conn'[c].at = x
        BY DEF ConnsWell, ConnRecords
      <4>3. conn' = [conn EXCEPT ![c] = Gone] \/ Refuse(c) => conn'[c].at = 0
        <5>1. \A r : conn' = [conn EXCEPT ![c] = r] => conn'[c] = r
          BY DEF ConnsWell
        <5>2. Gone.at = 0 /\ [Gone EXCEPT !.phase = "refused", !.addr = conn[c].addr].at = 0
          BY DEF Gone
        <5> QED
          BY <5>1, <5>2, Zenon DEF Refuse
      <4>4. Serve(c) \/ Begin(c) \/ AgentFound(c) \/ HandshakeDone(c) \/ Admit(c) \/ Succeed(c) =>
              conn'[c].at = conn[c].at
        BY <4>1 DEF Serve, Begin, AgentFound, HandshakeDone, Admit, Succeed
      <4>5. BrowserProven(c) => conn'[c].at = conn[c].at
        BY DEF BrowserProven, ConnsWell, ConnRecords
      <4>6. AgentProven(c) => conn'[c].at = now
        BY <4>2, Zenon DEF AgentProven
      <4>7. \A o : Accept(c, o) => conn'[c].at = 0
        BY DEF Accept, ConnsWell, ConnRecords
      <4>8. Busy(c) \/ UpgradeFails(c) \/ Reject(c) \/ TurnAway(c) \/ Release(c) => conn'[c].at = 0
        BY <4>3 DEF Busy, UpgradeFails, Reject, TurnAway, Release
      <4>9. Unproven(c) \/ Unenrolled(c)
             \/ (\E t \in Tokens : EnrolRefused(c, t) \/ EnrolFails(c, t)) => Refuse(c)
        BY Zenon DEF Unproven, Unenrolled, EnrolRefused, EnrolFails
      <4>10. Known(c) \/ Rename(c) \/ (\E t \in Tokens : EnrolToken(c, t)) => \E o : Accept(c, o)
        BY Zenon DEF Known, Rename, EnrolToken
      <4> QED
        BY <2>3, <3>2, <4>3, <4>4, <4>5, <4>6, <4>7, <4>8, <4>9, <4>10 DEF Handshake
    <3> QED
      BY <3>1, <3>2
  <2>4. ASSUME NEW c \in Conns, Join(c) PROVE conn'[d].at = conn[d].at
    BY <2>4 DEF Join, ConnsWell, ConnRecords
  <2>5. ASSUME NEW c \in Conns, Leave(c) PROVE conn'[d].at = conn[d].at
    BY <2>5 DEF Leave, ConnsWell, ConnRecords
  <2>6. ASSUME NEW c \in Conns, Push(c) \/ Forward(c) \/ Cut(c) PROVE conn'[d].at = conn[d].at
    <3>1. \E D : Overflow(D)
      BY <2>6 DEF Push, Forward, Cut
    <3> QED
      BY <3>1 DEF Overflow, ConnsWell, ConnRecords
  <2>7. ASSUME NEW c \in Conns,
               ListOwned(c) \/ ReadFlags(c) \/ \E m \in Machines : Forget(c, m)
        PROVE  UNCHANGED conn
    BY <2>7, Zenon DEF ListOwned, ReadFlags, Forget
  <2>8. Tick \/ UNCHANGED vars => UNCHANGED conn
    BY Zenon DEF Tick, vars
  <2> QED
    BY <2>1, <2>2, <2>3, <2>4, <2>5, <2>6, <2>7, <2>8 DEF Next
<1>3. now \in Nat /\ \A d \in Conns : conn[d].at <= now
  BY DEF StoreWell, ClockWasRead
<1>4. \A d \in Conns : conn[d].at \in Nat
  BY DEF ConnsWell, ConnRecords
<1> QED
  BY <1>1, <1>2, <1>3, <1>4 DEF ClockWasRead

\* Every step keeps spent tokens spent.
LEMMA TokensStay ==
  ASSUME ConnsWell, StoreWell, ClockWasRead, SpentIsKept, TokenEnrolsOnce, [Next]_vars
  PROVE  SpentIsKept' /\ TokenEnrolsOnce'
<1> USE RelayAssumption
<1>1. ASSUME UNCHANGED <<now, used>>,
             \A t \in Tokens : TokenExp[t] > now /\ t \in nonces \intersect disk.nonces =>
               t \in nonces' \intersect disk'.nonces
      PROVE  SpentIsKept' /\ TokenEnrolsOnce'
  BY <1>1 DEF SpentIsKept, TokenEnrolsOnce, StoreWell, used
<1>2. CASE Tick
  BY <1>2 DEF Tick, SpentIsKept, TokenEnrolsOnce, StoreWell, store, used
<1>3. CASE Restart
  BY <1>3, <1>1 DEF Restart, Load
<1>4. \A c \in Conns, t \in Tokens : t \in nonces /\ TokenExp[t] > now => t \in Unexpired(c)
  BY DEF Unexpired, ClockWasRead, ConnsWell, ConnRecords, StoreWell
<1>5. ASSUME NEW c \in Conns, NEW t \in Tokens, EnrolToken(c, t)
      PROVE  SpentIsKept' /\ TokenEnrolsOnce'
  <2>1. t \notin Unexpired(c)
    BY <1>5 DEF EnrolToken, TokenRefused
  <2>2. t \in astray' \/ (TokenExp[t] > now /\ t \notin astray)
    BY <1>5 DEF EnrolToken
  <2>3. t \notin astray' => enrolments[t] = 0
    BY <2>1, <2>2, <1>4 DEF SpentIsKept, StoreWell
  <2>4. /\ now' = now /\ enrolments' = [enrolments EXCEPT ![t] = AtMost(@ + 1, 2)]
        /\ astray \subseteq astray'
    BY <1>5 DEF EnrolToken
  <2>5. nonces' = Unexpired(c) \union {t} /\ disk'.nonces = nonces'
    BY <1>5 DEF EnrolToken, Saved
  <2>6. TokenEnrolsOnce'
    BY <2>3, <2>4 DEF TokenEnrolsOnce, StoreWell, AtMost
  <2>7. ASSUME NEW u \in Tokens, u \notin astray', enrolments'[u] # 0
        PROVE  TokenExp[u] <= now' \/ u \in nonces' \intersect disk'.nonces
    <3>1. CASE u = t
      BY <3>1, <2>5
    <3>2. CASE u # t
      <4>1. enrolments[u] # 0 /\ u \notin astray
        BY <3>2, <2>4, <2>7 DEF StoreWell
      <4> QED
        BY <4>1, <2>4, <2>5, <1>4 DEF SpentIsKept, StoreWell
    <3> QED
      BY <3>1, <3>2
  <2> QED
    BY <2>6, <2>7 DEF SpentIsKept
<1>6. ASSUME NEW c \in Conns, NEW t \in Tokens, EnrolFails(c, t)
      PROVE  SpentIsKept' /\ TokenEnrolsOnce'
  <2>1. /\ now' = now /\ enrolments' = [enrolments EXCEPT ![t] = AtMost(@ + 1, 2)]
        /\ astray' = astray \union {t} /\ disk' = disk /\ nonces' = Unexpired(c)
    BY <1>6 DEF EnrolFails, SaveFails
  <2>2. \A u \in Tokens : u \notin astray' => u \notin astray /\ enrolments'[u] = enrolments[u]
    BY <2>1 DEF StoreWell
  <2>3. TokenEnrolsOnce'
    BY <2>2 DEF TokenEnrolsOnce
  <2>4. SpentIsKept'
    BY <2>1, <2>2, <1>4 DEF SpentIsKept, StoreWell
  <2> QED
    BY <2>3, <2>4
<1>7. ASSUME NEW c \in Conns, \E t \in Tokens : EnrolRefused(c, t)
      PROVE  SpentIsKept' /\ TokenEnrolsOnce'
  <2>1. UNCHANGED <<now, used, disk>> /\ nonces' = Unexpired(c)
    BY <1>7, Zenon DEF EnrolRefused
  <2> QED
    BY <2>1, <1>1, <1>4
<1>8. ASSUME NEW c \in Conns, Rename(c) \/ \E m \in Machines : Forget(c, m)
      PROVE  SpentIsKept' /\ TokenEnrolsOnce'
  <2>1. UNCHANGED <<now, used, nonces>> /\ (UNCHANGED disk \/ disk'.nonces = nonces)
    BY <1>8 DEF Rename, Forget, Saved, SaveFails
  <2> QED
    BY <2>1, <1>1
<1>9. ASSUME NEW c \in Conns,
             \/ Serve(c) \/ Busy(c) \/ Begin(c) \/ UpgradeFails(c) \/ Unproven(c)
             \/ BrowserProven(c) \/ AgentProven(c) \/ AgentFound(c) \/ Known(c) \/ Unenrolled(c)
             \/ HandshakeDone(c) \/ Reject(c)
      PROVE  UNCHANGED <<now, store, used>>
  BY <1>9, Zenon DEF Serve, Busy, Begin, UpgradeFails, Unproven, BrowserProven, AgentProven,
                     AgentFound, Known, Unenrolled, HandshakeDone, Reject
<1>10. ASSUME NEW c \in Conns,
              \/ TurnAway(c) \/ Admit(c) \/ Succeed(c) \/ Join(c) \/ Leave(c) \/ Release(c)
              \/ ListOwned(c) \/ ReadFlags(c) \/ Push(c) \/ Forward(c) \/ Cut(c)
       PROVE  UNCHANGED <<now, store, used>>
  BY <1>10, Zenon DEF TurnAway, Admit, Succeed, Join, Leave, Release, ListOwned, ReadFlags, Push,
                      Forward, Cut
<1>11. UNCHANGED vars => UNCHANGED <<now, store, used>>
  BY DEF vars
<1>12. UNCHANGED <<now, store, used>> => SpentIsKept' /\ TokenEnrolsOnce'
  BY <1>1 DEF store
<1> QED
  BY <1>2, <1>3, <1>5, <1>6, <1>7, <1>8, <1>9, <1>10, <1>11, <1>12 DEF Next, Handshake

-----------------------------------------------------------------------------
(* The theorems. *)

\* The invariant holds at the start.
LEMMA InitIInv == Init => IInv
<1> SUFFICES ASSUME Init PROVE IInv
  OBVIOUS
<1> USE RelayAssumption
<1>1. ConnsWell
  BY DEF Init, Gone, ConnsWell, ConnWell, ConnRecords, Phases, KnownPhases, JoiningPhases
<1>2. NotesWell
  BY DEF Init, Silent, NotesWell, NoteWell, NoteRecords
<1>3. StoreWell
  BY DEF Init, StoreWell
<1>4. HubWell
  BY DEF Init, HubWell
<1>5. Greeting = {} /\ Staying = {} /\ BrowsersStaying = {} /\ \A a \in Addrs : StayingAt(a) = {}
  BY DEF Init, Gone, Greeting, Staying, BrowsersStaying, StayingAt, Conns, HandshakePhases,
         StayingPhases
<1>6. LimiterWell
  BY DEF Init, LimiterWell, NoFailures
<1>7. Balanced
  <2>1. Cardinality({}) = 0
    BY FS_EmptySet
  <2> QED
    BY <1>5, <2>1 DEF Init, Balanced
<1>8. OpenAgentIsRouted /\ ClockWasRead /\ SpentIsKept /\ TokenEnrolsOnce
  BY DEF Init, Gone, OpenAgentIsRouted, ClockWasRead, SpentIsKept, TokenEnrolsOnce, Conns
<1> QED
  BY <1>1, <1>2, <1>3, <1>4, <1>6, <1>7, <1>8, BalancedIsLimiterBalances DEF IInv, Formed

\* Every step keeps it.
LEMMA StepIInv == IInv /\ [Next]_vars => IInv'
<1> SUFFICES ASSUME IInv, [Next]_vars PROVE IInv'
  OBVIOUS
<1>1. Balanced /\ (Balanced' => LimiterBalances')
  BY BalancedIsLimiterBalances, BalancedStep DEF IInv
<1> QED
  BY <1>1, ConnsStay, NotesStay, StoreStays, HubStays, LimiterStays, RoutedStays, ClockStays,
     TokensStay DEF IInv, Formed

\* The invariant holds throughout.
LEMMA Invariance == Spec => []IInv
BY InitIInv, StepIInv, PTL DEF Spec

\* Every variable keeps to its type, but for what SelectSeq leaves of the
\* moments of the last enrolments (store.go:123-131).
THEOREM TypesCorrect == Spec => []Types
<1>1. IInv => Types
  BY DEF IInv, Formed, ConnsWell, ConnRecords, NotesWell, NoteRecords, StoreWell, HubWell,
         LimiterWell, Types
<1> QED
  BY <1>1, Invariance, PTL

\* However machines reconnect, the map leads to the one connection of a machine
\* that is open (hub.go:288-316).
THEOREM Routing == Spec => []OpenAgentIsRouted
<1>1. IInv => OpenAgentIsRouted
  BY DEF IInv
<1> QED
  BY <1>1, Invariance, PTL

\* A token enrols one machine once, over restarts, machines that are forgotten and its own
\* expiry, unless it went astray: a write failed with which it had enrolled one, or a
\* handshake that had read the clock before it expired used it after (store.go:110-149).
THEOREM SingleUse == Spec => []TokenEnrolsOnce
<1>1. IInv => TokenEnrolsOnce
  BY DEF IInv
<1> QED
  BY <1>1, Invariance, PTL

\* What the limiter counts is what is there, between any two of the locks serve takes and
\* on every way through it, an upgrade that fails included (limit.go:83-133).
THEOREM Counting == Spec => []LimiterBalances
<1>1. IInv => LimiterBalances
  BY DEF IInv
<1> QED
  BY <1>1, Invariance, PTL

-----------------------------------------------------------------------------
(* Presence: what a browser is shown is corrected by a frame that is made, or *)
(* by one that will be.                                                       *)

\* The map leads to the connections of machines that are served.
Routes ==
  \A m \in Machines :
    agents[m] # None => conn[agents[m]].phase = "serving" /\ conn[agents[m]].key = m

BrowsersServe == \A b \in browsers : conn[b].phase = "serving"

\* Frames are made by those who were admitted; one that is for a single browser, by that
\* browser.
FramesHaveTellers ==
  \A c \in Conns :
    note[c].at # "rest" =>
      /\ conn[c].phase \in {"serving", "leaving"}
      /\ ~note[c].all => note[c].owner = conn[c].owner

\* Where a machine is connected for another owner than its own, the connection that
\* enrolled it has still to join.
Joins(o, m) ==
  \E d \in AgentConns :
    conn[d].phase \in JoiningPhases /\ conn[d].owner = o /\ conn[d].key = m
StrangersAreAwaited ==
  \A m \in Machines, o \in Owners :
    agents[m] # None /\ owner[m] = o /\ conn[agents[m]].owner # o /\ o \notin excused =>
      Joins(o, m)

Online(o) == {m \in OwnedBy(o) : agents[m] # None}

\* An owner will be told, by a machine that joins or a browser that has forgotten one.
Awaited(o) ==
  \/ \E d \in AgentConns : conn[d].phase \in JoiningPhases /\ conn[d].owner = o
  \/ \E d \in Conns : note[d].at = "cut" /\ note[d].owner = o

\* A frame that is made tells what is so.
FramesAreTrue(o) ==
  \A d \in Conns :
    note[d].owner = o =>
      /\ note[d].at = "flags" => note[d].machines = OwnedBy(o)
      /\ note[d].at = "push" => note[d].machines = Online(o)

\* A browser is shown what is so, or a frame for it is made.
ToldOrTelling(o) ==
  \A b \in browsers :
    conn[b].owner = o /\ ~conn[b].closed =>
      shown[b] = Online(o) \/ \E d \in Telling(o) : note[d].all \/ d = b

Informed(o) == o \notin excused => Awaited(o) \/ (FramesAreTrue(o) /\ ToldOrTelling(o))

PresenceInv ==
  /\ Routes /\ BrowsersServe /\ FramesHaveTellers /\ StrangersAreAwaited
  /\ \A o \in Owners : Informed(o)

\* A connection that was accepted stays what it is, and open only if it was.
ConnsKeep ==
  \A d \in Conns :
    /\ conn[d].phase \in JoiningPhases =>
         /\ conn'[d].phase \in JoiningPhases /\ conn'[d].key = conn[d].key
         /\ conn'[d].owner = conn[d].owner
    /\ conn[d].phase = "serving" =>
         /\ conn'[d].phase = "serving" /\ conn'[d].key = conn[d].key
         /\ conn'[d].owner = conn[d].owner /\ (conn[d].closed => conn'[d].closed)
    /\ conn[d].phase = "leaving" /\ note[d].at # "rest" =>
         conn'[d].phase = "leaving" /\ conn'[d].owner = conn[d].owner

\* So it does while others are closed, or shake hands, or are gone.
LEMMA ClosingKeeps == ASSUME NEW D, Overflow(D) PROVE ConnsKeep
BY DEF Overflow, ConnsKeep

LEMMA OneMoves ==
  ASSUME ConnsWell, NEW c \in Conns, \A d \in Conns : d # c => conn'[d] = conn[d],
         \/ conn[c].phase \notin JoiningPhases \union {"serving", "leaving"}
         \/ conn[c].phase = "leaving" /\ note[c].at = "rest"
  PROVE  ConnsKeep
BY DEF ConnsKeep, JoiningPhases

\* So it does when one comes nearer to the maps.
LEMMA OneJoins ==
  ASSUME ConnsWell, NEW c \in Conns, HandshakeDone(c) \/ Admit(c) \/ Succeed(c)
  PROVE  ConnsKeep
<1>1. CASE conn[c].phase = "refused"
  <2>1. \A d \in Conns : d # c => conn'[d] = conn[d]
    BY OthersKeep DEF Handshake
  <2> QED
    BY <1>1, <2>1, OneMoves DEF JoiningPhases
<1>2. CASE conn[c].phase # "refused"
  <2>1. conn[c].phase \in JoiningPhases /\ \E p \in JoiningPhases : conn' = [conn EXCEPT ![c].phase = p]
    BY <1>2 DEF HandshakeDone, Admit, Succeed, JoiningPhases
  <2>2. /\ conn'[c].phase \in JoiningPhases /\ conn'[c].key = conn[c].key
        /\ conn'[c].owner = conn[c].owner /\ \A d \in Conns : d # c => conn'[d] = conn[d]
    BY <2>1 DEF ConnsWell, ConnRecords
  <2> QED
    BY <2>1, <2>2 DEF ConnsKeep, JoiningPhases
<1> QED
  BY <1>1, <1>2

\* Whatever keeps the connections and the maps keeps the routes.
LEMMA RoutesKept ==
  ASSUME PresenceInv, HubWell, ConnsKeep, UNCHANGED hub
  PROVE  /\ Routes' /\ BrowsersServe'
         /\ \A o \in Owners, m \in Machines : Joins(o, m) => Joins(o, m)'
         /\ \A m \in Machines : agents[m] # None =>
              conn'[agents[m]].owner = conn[agents[m]].owner
         /\ \A b \in browsers : /\ b \in Conns /\ conn'[b].owner = conn[b].owner
                                /\ ~conn'[b].closed => ~conn[b].closed
<1>1. \A m \in Machines : agents[m] # None => agents[m] \in Conns
  BY DEF HubWell, Conns
<1>2. browsers \subseteq Conns /\ AgentConns \subseteq Conns
  BY DEF HubWell, Conns
<1>3. Routes' /\ BrowsersServe'
  BY <1>1, <1>2 DEF PresenceInv, Routes, BrowsersServe, ConnsKeep, hub
<1>4. \A o \in Owners, m \in Machines : Joins(o, m) => Joins(o, m)'
  BY <1>2 DEF Joins, ConnsKeep
<1>5. \A m \in Machines : agents[m] # None => conn'[agents[m]].owner = conn[agents[m]].owner
  BY <1>1 DEF PresenceInv, Routes, ConnsKeep
<1>6. \A b \in browsers : /\ b \in Conns /\ conn'[b].owner = conn[b].owner
                          /\ ~conn'[b].closed => ~conn[b].closed
  BY <1>2 DEF PresenceInv, BrowsersServe, ConnsKeep
<1> QED
  BY <1>3, <1>4, <1>5, <1>6

\* A step that moves connections alone.
LEMMA OnlyConnsMove ==
  ASSUME PresenceInv, HubWell, ConnsKeep, UNCHANGED <<owner, hub, note, shown, excused>>
  PROVE  PresenceInv'
<1>1. Routes' /\ BrowsersServe'
  BY RoutesKept
<1>2. FramesHaveTellers'
  BY DEF PresenceInv, FramesHaveTellers, ConnsKeep
<1>3. StrangersAreAwaited'
  BY RoutesKept DEF PresenceInv, StrangersAreAwaited, hub
<1>4. ASSUME NEW o \in Owners
      PROVE  Informed(o)'
  <2>1. Informed(o)
    BY DEF PresenceInv
  <2>2. OwnedBy(o)' = OwnedBy(o) /\ Online(o)' = Online(o) /\ Telling(o)' = Telling(o)
    BY DEF OwnedBy, Online, Telling, hub
  <2>3. Awaited(o) => Awaited(o)'
    BY DEF Awaited, ConnsKeep, Conns
  <2>4. FramesAreTrue(o) => FramesAreTrue(o)'
    BY <2>2 DEF FramesAreTrue
  <2>5. ToldOrTelling(o) => ToldOrTelling(o)'
    BY <2>2, RoutesKept DEF ToldOrTelling, hub
  <2> QED
    BY <2>1, <2>3, <2>4, <2>5 DEF Informed
<1> QED
  BY <1>1, <1>2, <1>3, <1>4 DEF PresenceInv

\* A step that gives a machine an owner, or takes it from him, when he will be told.
LEMMA OwnerMoves ==
  ASSUME PresenceInv, HubWell, ConnsKeep, UNCHANGED <<hub, shown>>, excused \subseteq excused',
         NEW o \in Owners, NEW m \in Machines,
         \A k \in Machines : k # m => owner'[k] = owner[k],
         owner[m] \in {None, o}, owner'[m] \in {None, o},
         \A d \in Conns : note'[d] = note[d]
           \/ /\ note[d].at = "rest" /\ conn[d].phase = "serving"
              /\ note'[d].at = "cut" /\ note'[d].all,
         o \notin excused' => Awaited(o)',
         o \notin excused' /\ owner'[m] = o => Joins(o, m)'
  PROVE  PresenceInv'
<1>1. Routes' /\ BrowsersServe'
  BY RoutesKept
<1>2. FramesHaveTellers'
  BY DEF PresenceInv, FramesHaveTellers, ConnsKeep
<1>3. StrangersAreAwaited'
  <2> SUFFICES ASSUME NEW k \in Machines, NEW x \in Owners, agents[k] # None, owner'[k] = x,
                      conn'[agents[k]].owner # x, x \notin excused'
               PROVE  Joins(x, k)'
    BY DEF StrangersAreAwaited, hub
  <2>1. CASE k = m
    BY <2>1, RelayAssumption
  <2>2. CASE k # m
    BY <2>2, RoutesKept DEF PresenceInv, StrangersAreAwaited
  <2> QED
    BY <2>1, <2>2
<1>4. ASSUME NEW x \in Owners, x # o
      PROVE  Informed(x)'
  <2>1. Informed(x)
    BY DEF PresenceInv
  <2>2. OwnedBy(x)' = OwnedBy(x)
    BY <1>4, RelayAssumption DEF OwnedBy
  <2>3. Online(x)' = Online(x)
    BY <2>2 DEF Online, hub
  <2>4. \A d \in Conns : d \in Telling(x) => d \in Telling(x)' /\ note'[d] = note[d]
    BY DEF Telling
  <2>5. Awaited(x) => Awaited(x)'
    BY DEF Awaited, ConnsKeep, Conns
  <2>6. FramesAreTrue(x) => FramesAreTrue(x)'
    BY <2>2, <2>3 DEF FramesAreTrue
  <2>7. ToldOrTelling(x) => ToldOrTelling(x)'
    <3> SUFFICES ASSUME ToldOrTelling(x), NEW b \in browsers, conn'[b].owner = x, ~conn'[b].closed
                 PROVE  shown[b] = Online(x) \/ \E d \in Telling(x)' : note'[d].all \/ d = b
      BY <2>3 DEF ToldOrTelling, hub
    <3>1. shown[b] = Online(x) \/ \E d \in Telling(x) : note[d].all \/ d = b
      BY RoutesKept DEF ToldOrTelling
    <3> QED
      BY <2>4, <3>1 DEF Telling
  <2> QED
    BY <2>1, <2>5, <2>6, <2>7 DEF Informed
<1>5. Informed(o)'
  BY DEF Informed
<1> QED
  BY <1>1, <1>2, <1>3, <1>4, <1>5 DEF PresenceInv

\* Who tells an owner has made the only frame for him, or he is excused.
LEMMA TellIsAlone ==
  ASSUME NotesWell, NEW c \in Conns, NEW o \in Owners, NEW all \in BOOLEAN, Tell(c, o, all)
  PROVE  /\ note'[c].at = "owned" /\ note'[c].owner = o /\ note'[c].all = all
         /\ \A d \in Conns : d # c => note'[d] = note[d]
         /\ excused \subseteq excused' /\ Displaced(c) \subseteq excused'
         /\ o \notin excused' => \A d \in Conns :
              d # c /\ note[d].owner = o => note[d].at \notin {"owned", "flags", "push"}
<1>1. note' = [note EXCEPT ![c] =
        [at |-> "owned", owner |-> o, whom |-> None, all |-> all, machines |-> {}]]
  BY DEF Tell
<1>2. o \notin excused' => Telling(o) \ {c} = {}
  BY DEF Tell
<1> QED
  BY <1>1, <1>2 DEF Tell, NotesWell, Telling

\* A frame to all browsers of an owner is going to inform them.
LEMMA TellInforms ==
  ASSUME NotesWell, NEW c \in Conns, NEW o \in Owners, Tell(c, o, TRUE)
  PROVE  Informed(o)'
<1> SUFFICES ASSUME o \notin excused'
             PROVE  FramesAreTrue(o)' /\ ToldOrTelling(o)'
  BY DEF Informed
<1>1. /\ note'[c].at = "owned" /\ note'[c].owner = o /\ note'[c].all
      /\ \A d \in Conns : d # c => note'[d] = note[d]
      /\ \A d \in Conns : d # c /\ note[d].owner = o => note[d].at \notin {"owned", "flags", "push"}
  BY TellIsAlone
<1>2. FramesAreTrue(o)'
  BY <1>1 DEF FramesAreTrue
<1>3. c \in Telling(o)'
  BY <1>1 DEF Telling
<1> QED
  BY <1>1, <1>2, <1>3 DEF ToldOrTelling

\* A handshake, and whatever else moves connections and the store alone, keeps it.
LEMMA HandshakeInforms ==
  ASSUME Formed, PresenceInv, NEW c \in Conns, Handshake(c)
  PROVE  PresenceInv'
<1> USE DEF Formed
<1>1. HandshakeDone(c) \/ conn[c].phase \notin JoiningPhases \union {"serving", "leaving"}
  <2>1. Serve(c) \/ Busy(c) \/ Begin(c) \/ UpgradeFails(c) \/ Unproven(c) \/ BrowserProven(c)
        \/ AgentProven(c) \/ AgentFound(c) \/ Reject(c) =>
          conn[c].phase \in {"idle", "dialled", "handshake", "proven", "failing"}
    BY Zenon DEF Serve, Busy, Begin, UpgradeFails, Unproven, BrowserProven, AgentProven, AgentFound,
                 Reject
  <2>2. Known(c) \/ Rename(c) \/ Unenrolled(c)
        \/ (\E t \in Tokens : EnrolRefused(c, t) \/ EnrolToken(c, t) \/ EnrolFails(c, t)) =>
          conn[c].phase = "found"
    BY Zenon DEF Known, Rename, Unenrolled, EnrolRefused, EnrolToken, EnrolFails, Enrolling
  <2> QED
    BY <2>1, <2>2 DEF Handshake, JoiningPhases
<1>2. \A d \in Conns : d # c => conn'[d] = conn[d]
  BY OthersKeep
<1>3. ConnsKeep
  BY <1>1, <1>2, OneMoves, OneJoins
<1>4. CASE \/ Serve(c) \/ Busy(c) \/ Begin(c) \/ UpgradeFails(c) \/ Unproven(c) \/ BrowserProven(c)
           \/ AgentProven(c) \/ AgentFound(c) \/ Known(c) \/ Unenrolled(c)
           \/ (\E t \in Tokens : EnrolRefused(c, t)) \/ HandshakeDone(c) \/ Reject(c)
  <2>1. UNCHANGED <<owner, hub, note, shown, excused>>
    BY <1>4, Zenon DEF Serve, Busy, Begin, UpgradeFails, Unproven, BrowserProven, AgentProven,
                       AgentFound, Known, Unenrolled, EnrolRefused, HandshakeDone, Reject, store
  <2> QED
    BY <1>3, <2>1, OnlyConnsMove
<1>5. ASSUME NEW o \in Owners, NEW m \in Machines, m = conn[c].key, Accept(c, o),
             conn[c].phase = "found"
      PROVE  Awaited(o)' /\ Joins(o, m)'
  <2>1. conn'[c].phase = "accepted" /\ conn'[c].owner = o /\ conn'[c].key = m
    BY <1>5 DEF Accept, ConnsWell, ConnRecords
  <2>2. c \in AgentConns
    BY <1>5 DEF ConnsWell, ConnWell
  <2> QED
    BY <2>1, <2>2 DEF Awaited, Joins, JoiningPhases
<1>6. CASE Rename(c)
  <2>1. /\ conn[c].owner \in Owners /\ conn[c].key \in Machines /\ conn[c].phase = "found"
        /\ Accept(c, conn[c].owner) /\ UNCHANGED <<hub, note, shown, excused>>
    <3>1. ConnWell(c, conn[c])
      BY DEF ConnsWell
    <3> QED
      BY <1>6, <3>1, Zenon DEF Rename, ConnWell, ConnRecords, KnownPhases
  <2>2. PICK o \in Owners, m \in Machines : o = conn[c].owner /\ m = conn[c].key
    BY <2>1
  <2>3. \/ owner' = owner
        \/ owner' = [owner EXCEPT ![m] = o] /\ owner[m] \in {None, o}
    BY <1>6, <2>2 DEF Rename, MayEnrol
  <2>4. CASE owner' = owner
    BY <1>3, <2>1, <2>4, OnlyConnsMove
  <2>5. CASE owner' = [owner EXCEPT ![m] = o] /\ owner[m] \in {None, o}
    <3>1. Awaited(o)' /\ Joins(o, m)'
      BY <1>5, <2>1, <2>2
    <3>2. owner'[m] = o /\ \A k \in Machines : k # m => owner'[k] = owner[k]
      BY <2>5 DEF StoreWell
    <3> QED
      BY <1>3, <2>1, <2>5, <3>1, <3>2, OwnerMoves
  <2> QED
    BY <2>3, <2>4, <2>5
<1>7. ASSUME NEW t \in Tokens, EnrolToken(c, t) \/ EnrolFails(c, t)
      PROVE  PresenceInv'
  <2>1. /\ TokenOwner[t] \in Owners /\ conn[c].phase = "found" /\ conn[c].key \in Machines
        /\ UNCHANGED <<hub, note, shown>>
    <3>1. conn[c].phase = "found" /\ UNCHANGED <<hub, note, shown>>
      BY <1>7, Zenon DEF EnrolToken, EnrolFails, Enrolling
    <3> QED
      BY <3>1, RelayAssumption DEF ConnsWell, ConnWell, KnownPhases
  <2>2. PICK o \in Owners, m \in Machines : o = TokenOwner[t] /\ m = conn[c].key
    BY <2>1
  <2>3. owner' = [owner EXCEPT ![m] = o] /\ owner[m] \in {None, o}
    BY <1>7, <2>2 DEF EnrolToken, EnrolFails, TokenRefused, MayEnrol
  <2>4. \/ Accept(c, o) /\ excused' = excused
        \/ excused' = excused \union {o}
    BY <1>7, <2>2 DEF EnrolToken, EnrolFails
  <2>5. o \notin excused' => Awaited(o)' /\ Joins(o, m)'
    BY <1>5, <2>1, <2>2, <2>4
  <2>6. excused \subseteq excused'
    BY <2>4
  <2>7. owner'[m] = o /\ \A k \in Machines : k # m => owner'[k] = owner[k]
    BY <2>3 DEF StoreWell
  <2> QED
    BY <1>3, <2>1, <2>3, <2>5, <2>6, <2>7, OwnerMoves
<1> QED
  BY <1>4, <1>6, <1>7 DEF Handshake

\* A browser that forgets a machine is to tell all of its owner's.
LEMMA ForgetInforms ==
  ASSUME Formed, PresenceInv, NEW c \in Conns, NEW m \in Machines, Forget(c, m)
  PROVE  PresenceInv'
<1> USE DEF Formed
<1>1. /\ conn[c].phase = "serving" /\ note[c].at = "rest" /\ owner[m] = conn[c].owner
      /\ owner' = [owner EXCEPT ![m] = None] /\ UNCHANGED <<hub, conn, shown>>
  BY DEF Forget, Serving
<1>2. PICK o \in Owners : o = conn[c].owner
  BY <1>1 DEF ConnsWell, ConnWell
<1>3. \/ /\ note' = [note EXCEPT ![c] =
              [at |-> "cut", owner |-> o, whom |-> m, all |-> TRUE, machines |-> {}]]
         /\ excused' = excused
      \/ note' = note /\ excused' = excused \union {o}
  BY <1>2 DEF Forget
<1>4. /\ owner'[m] = None /\ \A k \in Machines : k # m => owner'[k] = owner[k]
  BY <1>1 DEF StoreWell
<1>5. \A d \in Conns : note'[d] = note[d]
        \/ /\ note[d].at = "rest" /\ conn[d].phase = "serving"
           /\ note'[d].at = "cut" /\ note'[d].all
  BY <1>1, <1>3 DEF NotesWell
<1>6. o \notin excused' => Awaited(o)'
  BY <1>3 DEF Awaited, NotesWell
<1>7. excused \subseteq excused'
  BY <1>3
<1>8. ConnsKeep
  BY <1>1 DEF ConnsKeep
<1>9. owner'[m] # o
  BY <1>2, <1>4, RelayAssumption
<1> QED
  BY <1>1, <1>2, <1>4, <1>5, <1>6, <1>7, <1>8, <1>9, OwnerMoves

\* An accepted party that is turned away excuses its owner.
LEMMA TurnAwayInforms ==
  ASSUME Formed, PresenceInv, NEW c \in Conns, TurnAway(c)
  PROVE  PresenceInv'
<1> USE DEF Formed
<1>1. /\ conn[c].phase = "authed" /\ conn' = [conn EXCEPT ![c] = Gone]
      /\ excused' = excused \union {conn[c].owner} /\ UNCHANGED <<owner, hub, note, shown>>
  BY DEF TurnAway, store
<1>2. \A d \in Conns : d # c => conn'[d] = conn[d]
  BY <1>1 DEF ConnsWell
<1>3. /\ \A m \in Machines : agents[m] # None => agents[m] \in Conns /\ agents[m] # c
      /\ \A b \in browsers : b \in Conns /\ b # c
  BY <1>1 DEF PresenceInv, Routes, BrowsersServe, HubWell, Conns
<1>4. Routes' /\ BrowsersServe'
  BY <1>1, <1>2, <1>3 DEF PresenceInv, Routes, BrowsersServe, hub
<1>5. FramesHaveTellers'
  BY <1>1, <1>2 DEF PresenceInv, FramesHaveTellers
<1>6. StrangersAreAwaited'
  BY <1>1, <1>2, <1>3 DEF PresenceInv, StrangersAreAwaited, Joins, hub, Conns
<1>7. ASSUME NEW o \in Owners, o \notin excused'
      PROVE  Awaited(o)' \/ (FramesAreTrue(o)' /\ ToldOrTelling(o)')
  <2>1. Awaited(o) \/ (FramesAreTrue(o) /\ ToldOrTelling(o))
    BY <1>1, <1>7 DEF PresenceInv, Informed
  <2>2. OwnedBy(o)' = OwnedBy(o) /\ Online(o)' = Online(o) /\ Telling(o)' = Telling(o)
    BY <1>1 DEF OwnedBy, Online, Telling, hub
  <2>3. Awaited(o) => Awaited(o)'
    BY <1>1, <1>2, <1>7 DEF Awaited, Conns
  <2>4. FramesAreTrue(o) => FramesAreTrue(o)'
    BY <1>1, <2>2 DEF FramesAreTrue
  <2>5. ToldOrTelling(o) => ToldOrTelling(o)'
    BY <1>1, <1>2, <1>3, <2>2 DEF ToldOrTelling, hub
  <2> QED
    BY <2>1, <2>3, <2>4, <2>5
<1> QED
  BY <1>4, <1>5, <1>6, <1>7 DEF PresenceInv, Informed

\* Connections are admitted, end, and forward what they are sent, without a word to
\* browsers.
LEMMA QuietInforms ==
  ASSUME Formed, PresenceInv,
         Tick \/ UNCHANGED vars
           \/ \E c \in Conns : Admit(c) \/ Succeed(c) \/ Release(c) \/ Forward(c)
  PROVE  PresenceInv'
<1> USE DEF Formed
<1>1. UNCHANGED <<owner, hub, note, shown, excused>>
  BY Zenon DEF Tick, Admit, Succeed, Release, Forward, vars, store
<1>2. CASE Tick \/ UNCHANGED vars
  <2>1. ConnsKeep
    BY <1>2 DEF Tick, vars, ConnsKeep
  <2> QED
    BY <1>1, <2>1, OnlyConnsMove
<1>3. ASSUME NEW c \in Conns, Release(c) PROVE PresenceInv'
  <2>1. ConnsKeep
    BY <1>3, OneMoves DEF Release, ConnsWell
  <2> QED
    BY <1>1, <2>1, OnlyConnsMove
<1>4. ASSUME NEW c \in Conns, Forward(c) PROVE PresenceInv'
  <2>1. ConnsKeep
    BY <1>4, ClosingKeeps DEF Forward
  <2> QED
    BY <1>1, <2>1, OnlyConnsMove
<1>5. ASSUME NEW c \in Conns, Admit(c) \/ Succeed(c) PROVE PresenceInv'
  BY <1>1, <1>5, OneJoins, OnlyConnsMove
<1> QED
  BY <1>2, <1>3, <1>4, <1>5

\* The two steps of a frame that read what is so make it tell what is so.
LEMMA ReadingInforms ==
  ASSUME Formed, PresenceInv, NEW c \in Conns, ListOwned(c) \/ ReadFlags(c)
  PROVE  PresenceInv'
<1> USE DEF Formed
<1>1. UNCHANGED <<owner, hub, conn, shown, excused>>
  BY DEF ListOwned, ReadFlags, store
<1>2. /\ note'[c].owner = note[c].owner /\ note'[c].all = note[c].all
      /\ note[c].at \in {"owned", "flags"} /\ note'[c].at \in {"flags", "push"}
      /\ \A d \in Conns : d # c => note'[d] = note[d]
  BY DEF ListOwned, ReadFlags, NotesWell, NoteRecords
<1>3. Routes' /\ BrowsersServe' /\ StrangersAreAwaited'
  BY <1>1 DEF PresenceInv, Routes, BrowsersServe, StrangersAreAwaited, Joins, hub
<1>4. FramesHaveTellers'
  BY <1>1, <1>2 DEF PresenceInv, FramesHaveTellers
<1>5. ASSUME NEW o \in Owners
      PROVE  Informed(o)'
  <2>1. Informed(o)
    BY DEF PresenceInv
  <2>2. OwnedBy(o)' = OwnedBy(o) /\ Online(o)' = Online(o)
    BY <1>1 DEF OwnedBy, Online, hub
  <2>3. Awaited(o) => Awaited(o)'
    BY <1>1, <1>2 DEF Awaited, Conns
  <2>4. ASSUME FramesAreTrue(o), note[c].owner = o
        PROVE  /\ note'[c].at = "flags" => note'[c].machines = OwnedBy(o)
               /\ note'[c].at = "push" => note'[c].machines = Online(o)
    <3>1. CASE ListOwned(c)
      BY <2>4, <3>1 DEF ListOwned, NotesWell, NoteRecords
    <3>2. CASE ReadFlags(c)
      <4>1. note[c].machines = OwnedBy(o)
        BY <2>4, <3>2 DEF ReadFlags, FramesAreTrue
      <4>2. note'[c].at = "push" /\ note'[c].machines = {m \in note[c].machines : agents[m] # None}
        BY <3>2 DEF ReadFlags, NotesWell, NoteRecords
      <4> QED
        BY <4>1, <4>2 DEF Online
    <3> QED
      BY <3>1, <3>2
  <2>5. FramesAreTrue(o) => FramesAreTrue(o)'
    BY <1>2, <2>2, <2>4 DEF FramesAreTrue
  <2>6. \A d \in Telling(o) : d \in Telling(o)' /\ note'[d].all = note[d].all
    BY <1>2 DEF Telling
  <2>7. ToldOrTelling(o) => ToldOrTelling(o)'
    BY <1>1, <2>2, <2>6 DEF ToldOrTelling, hub
  <2> QED
    BY <1>1, <2>1, <2>3, <2>5, <2>7 DEF Informed
<1> QED
  BY <1>3, <1>4, <1>5 DEF PresenceInv

\* A frame that arrives shows what is so to whoever stays open.
LEMMA PushInforms ==
  ASSUME Formed, PresenceInv, NEW c \in Conns, Push(c)
  PROVE  PresenceInv'
<1> USE DEF Formed
<1> DEFINE heard == {b \in BrowserConns : /\ IF note[c].all
                                             THEN b \in browsers /\ conn[b].owner = note[c].owner
                                             ELSE b = c
                                          /\ ~conn[b].closed}
<1>1. /\ UNCHANGED <<owner, hub, excused>> /\ note[c].at = "push"
      /\ note'[c] = Silent /\ \A d \in Conns : d # c => note'[d] = note[d]
  BY DEF Push, store, NotesWell
<1>2. PICK full \in SUBSET heard :
        /\ Overflow(full)
        /\ shown' = [b \in BrowserConns |->
             IF b \in heard \ full THEN note[c].machines ELSE shown[b]]
  BY DEF Push
<1>3. ConnsKeep
  BY <1>2, ClosingKeeps
<1>4. Routes' /\ BrowsersServe'
  BY <1>1, <1>3, RoutesKept
<1>5. FramesHaveTellers'
  BY <1>1, <1>3 DEF PresenceInv, FramesHaveTellers, ConnsKeep, Silent
<1>6. StrangersAreAwaited'
  BY <1>1, <1>3, RoutesKept DEF PresenceInv, StrangersAreAwaited, hub
<1>7. ASSUME NEW o \in Owners
      PROVE  Informed(o)'
  <2>1. Informed(o)
    BY DEF PresenceInv
  <2>2. OwnedBy(o)' = OwnedBy(o) /\ Online(o)' = Online(o)
    BY <1>1 DEF OwnedBy, Online, hub
  <2>3. Awaited(o) => Awaited(o)'
    BY <1>1, <1>3 DEF Awaited, ConnsKeep, Conns
  <2>4. FramesAreTrue(o) => FramesAreTrue(o)'
    BY <1>1, <2>2 DEF FramesAreTrue, Silent
  <2>5. \A d \in Telling(o) : d # c => d \in Telling(o)' /\ note'[d] = note[d]
    BY <1>1 DEF Telling
  <2>6. ASSUME FramesAreTrue(o), ToldOrTelling(o),
               NEW b \in browsers, conn'[b].owner = o, ~conn'[b].closed
        PROVE  shown'[b] = Online(o) \/ \E d \in Telling(o)' : note'[d].all \/ d = b
    <3>1. b \in BrowserConns /\ b \in Conns
      BY DEF HubWell, Conns
    <3>2. conn[b].owner = o /\ ~conn[b].closed
      BY <1>1, <1>3, <2>6, RoutesKept
    <3>3. CASE b \in heard
      <4>1. note[c].owner = o
        BY <1>1, <3>2, <3>3 DEF PresenceInv, FramesHaveTellers
      <4>2. b \notin full
        BY <1>2, <2>6, <3>1, <3>3, <3>2 DEF Overflow, ConnsWell, ConnRecords
      <4>3. shown'[b] = note[c].machines
        BY <1>2, <3>1, <3>3, <4>2
      <4> QED
        BY <1>1, <2>6, <4>1, <4>3 DEF FramesAreTrue
    <3>4. CASE b \notin heard
      <4>1. shown'[b] = shown[b]
        BY <1>2, <3>1, <3>4
      <4>2. shown[b] = Online(o) \/ \E d \in Telling(o) : note[d].all \/ d = b
        BY <2>6, <3>2 DEF ToldOrTelling
      <4>3. ASSUME NEW d \in Telling(o), note[d].all \/ d = b PROVE d # c
        BY <3>1, <3>2, <3>4, <4>3 DEF Telling
      <4> QED
        BY <2>5, <4>1, <4>2, <4>3
    <3> QED
      BY <3>3, <3>4
  <2>7. FramesAreTrue(o) /\ ToldOrTelling(o) => ToldOrTelling(o)'
    BY <1>1, <2>2, <2>6 DEF ToldOrTelling, hub
  <2> QED
    BY <1>1, <2>1, <2>3, <2>4, <2>7 DEF Informed
<1> QED
  BY <1>4, <1>5, <1>6, <1>7 DEF PresenceInv

\* Other owners than the one that is told are as well informed as before.
LEMMA OthersStayInformed ==
  ASSUME NotesWell, NEW c \in Conns, NEW o \in Owners, NEW all \in BOOLEAN, Tell(c, o, all),
         NEW x \in Owners, x # o, Informed(x), UNCHANGED owner, Online(x)' = Online(x),
         note[c].at = "rest" \/ note[c].owner = o,
         conn[c].owner = o \/ conn[c].phase \notin JoiningPhases,
         \A d \in Conns : d # c =>
           conn'[d].phase = conn[d].phase /\ conn'[d].owner = conn[d].owner,
         \A b \in browsers' : conn'[b].owner = x /\ ~conn'[b].closed =>
           /\ b \in browsers /\ conn[b].owner = x /\ ~conn[b].closed
           /\ shown'[b] = shown[b]
  PROVE  Informed(x)'
<1>1. /\ note'[c].owner = o /\ \A d \in Conns : d # c => note'[d] = note[d]
      /\ excused \subseteq excused'
  BY TellIsAlone
<1>2. OwnedBy(x)' = OwnedBy(x)
  BY DEF OwnedBy
<1>3. Awaited(x) => Awaited(x)'
  BY <1>1 DEF Awaited, Conns
<1>4. FramesAreTrue(x) => FramesAreTrue(x)'
  BY <1>1, <1>2 DEF FramesAreTrue
<1>5. \A d \in Telling(x) : d \in Telling(x)' /\ note'[d] = note[d]
  BY <1>1 DEF Telling
<1>6. ToldOrTelling(x) => ToldOrTelling(x)'
  BY <1>5 DEF ToldOrTelling
<1> QED
  BY <1>1, <1>3, <1>4, <1>6 DEF Informed

\* A machine that joins is told of to its owner, unless he is another by now.
LEMMA MachineJoinInforms ==
  ASSUME Formed, PresenceInv, NEW c \in AgentConns, Join(c)
  PROVE  PresenceInv'
<1> USE DEF Formed
<1>1. c \in Conns /\ conn[c].phase = "cleared" /\ UNCHANGED <<owner, browsers, shown>>
  BY RelayAssumption DEF Join, Conns, store
<1>2. PICK o \in Owners, m \in Machines : o = conn[c].owner /\ m = conn[c].key
  BY <1>1 DEF ConnsWell, ConnWell, KnownPhases, JoiningPhases
<1>3. agents' = [agents EXCEPT ![m] = c] /\ Tell(c, o, TRUE)
  BY <1>2, Zenon DEF Join
<1>4. /\ conn'[c] = [conn[c] EXCEPT !.phase = "serving"]
      /\ \A d \in Conns : d # c =>
           conn'[d] = conn[d] \/ conn'[d] = [conn[d] EXCEPT !.closed = TRUE]
  BY <1>1 DEF Join
<1>5. /\ conn'[c].phase = "serving" /\ conn'[c].owner = o /\ conn'[c].key = m
      /\ \A d \in Conns : d # c =>
           /\ conn'[d].phase = conn[d].phase /\ conn'[d].owner = conn[d].owner
           /\ conn'[d].key = conn[d].key /\ (conn[d].closed => conn'[d].closed)
  <2>1. \A d \in Conns : conn[d] \in ConnRecords
    BY DEF ConnsWell
  <2>2. conn'[c].phase = "serving" /\ conn'[c].owner = o /\ conn'[c].key = m
    BY <1>1, <1>2, <1>4, <2>1 DEF ConnRecords
  <2>3. ASSUME NEW d \in Conns, d # c
        PROVE  /\ conn'[d].phase = conn[d].phase /\ conn'[d].owner = conn[d].owner
               /\ conn'[d].key = conn[d].key /\ (conn[d].closed => conn'[d].closed)
    <3>1. CASE conn'[d] = conn[d]
      BY <3>1
    <3>2. CASE conn'[d] = [conn[d] EXCEPT !.closed = TRUE]
      BY <2>1, <3>2 DEF ConnRecords
    <3> QED
      BY <1>4, <2>3, <3>1, <3>2
  <2> QED
    BY <2>2, <2>3
<1>6. /\ note[c].at = "rest" /\ note'[c].all /\ \A d \in Conns : d # c => note'[d] = note[d]
      /\ excused \subseteq excused' /\ Displaced(c) \subseteq excused'
  BY <1>1, <1>3, TellIsAlone DEF PresenceInv, FramesHaveTellers
<1>7. /\ agents'[m] = c /\ \A k \in Machines : k # m => agents'[k] = agents[k]
      /\ \A k \in Machines : agents[k] # None => agents[k] \in Conns /\ agents[k] # c
      /\ \A b \in browsers : b \in Conns /\ b # c
  BY <1>1, <1>3 DEF HubWell, PresenceInv, Routes, BrowsersServe, Conns
<1>8. Routes' /\ BrowsersServe'
  BY <1>1, <1>5, <1>7 DEF PresenceInv, Routes, BrowsersServe
<1>9. FramesHaveTellers'
  BY <1>5, <1>6 DEF PresenceInv, FramesHaveTellers
<1>10. \A x \in Owners : owner[m] = x /\ x # o => x \in excused'
  BY <1>1, <1>2, <1>6, RelayAssumption DEF Displaced
<1>11. StrangersAreAwaited'
  <2> SUFFICES ASSUME NEW k \in Machines, NEW x \in Owners, agents'[k] # None, owner[k] = x,
                      conn'[agents'[k]].owner # x, x \notin excused'
               PROVE  Joins(x, k)'
    BY <1>1 DEF StrangersAreAwaited
  <2>1. k # m
    BY <1>5, <1>7, <1>10
  <2>2. Joins(x, k)
    BY <1>5, <1>6, <1>7, <2>1 DEF PresenceInv, StrangersAreAwaited
  <2> QED
    BY <1>2, <1>5, <2>1, <2>2 DEF Joins, Conns
<1>12. ASSUME NEW x \in Owners, x # o
       PROVE  Informed(x)'
  <2>1. CASE owner[m] = x
    BY <1>10, <1>12, <2>1 DEF Informed
  <2>2. CASE owner[m] # x
    <3>1. Online(x)' = Online(x)
      BY <1>1, <1>7, <2>2 DEF Online, OwnedBy
    <3>2. Informed(x)
      BY DEF PresenceInv
    <3>3. \A b \in browsers' : conn'[b].owner = x /\ ~conn'[b].closed =>
            /\ b \in browsers /\ conn[b].owner = x /\ ~conn[b].closed
            /\ shown'[b] = shown[b]
      BY <1>1, <1>5, <1>7
    <3>4. /\ note[c].at = "rest" /\ conn[c].owner = o /\ UNCHANGED owner /\ c \in Conns
          /\ \A d \in Conns : d # c =>
               conn'[d].phase = conn[d].phase /\ conn'[d].owner = conn[d].owner
      BY <1>1, <1>2, <1>5, <1>6
    <3>5. PICK all \in BOOLEAN : Tell(c, o, all)
      BY <1>3
    <3> HIDE DEF Formed
    <3>6. NotesWell
      BY DEF Formed
    <3> QED
      BY <1>12, <3>6, <3>1, <3>2, <3>3, <3>4, <3>5, OthersStayInformed
  <2> QED
    BY <2>1, <2>2
<1>13. Informed(o)'
  BY <1>1, <1>3, TellInforms
<1> QED
  BY <1>8, <1>9, <1>11, <1>12, <1>13 DEF PresenceInv

\* A browser that joins is going to be told.
LEMMA BrowserJoinInforms ==
  ASSUME Formed, PresenceInv, NEW c \in BrowserConns, Join(c)
  PROVE  PresenceInv'
<1> USE DEF Formed
<1>1. /\ c \in Conns /\ c \notin AgentConns /\ conn[c].phase = "cleared"
      /\ UNCHANGED <<owner, agents>> /\ browsers' = browsers \union {c}
      /\ conn' = [conn EXCEPT ![c].phase = "serving"] /\ shown' = [shown EXCEPT ![c] = {}]
  BY RelayAssumption DEF Join, Conns, store
<1>2. PICK o \in Owners : o = conn[c].owner
  BY <1>1 DEF ConnsWell, ConnWell, JoiningPhases
<1>3. Tell(c, o, FALSE)
  <2>1. Tell(c, conn[c].owner, c \in AgentConns)
    BY DEF Join
  <2>2. (c \in AgentConns) = FALSE
    BY <1>1
  <2> QED
    BY <1>2, <2>1, <2>2
<1>4. /\ conn'[c].phase = "serving" /\ conn'[c].owner = o
      /\ \A d \in Conns : d # c => conn'[d] = conn[d]
  BY <1>1, <1>2 DEF ConnsWell, ConnRecords
<1>5. /\ note[c].at = "rest" /\ note'[c].at = "owned" /\ note'[c].owner = o
      /\ \A d \in Conns : d # c => note'[d] = note[d]
      /\ excused \subseteq excused'
      /\ o \notin excused' => \A d \in Conns :
           d # c /\ note[d].owner = o => note[d].at \notin {"owned", "flags", "push"}
  BY <1>1, <1>3, TellIsAlone DEF PresenceInv, FramesHaveTellers
<1>6. /\ \A k \in Machines : agents[k] # None => agents[k] \in Conns /\ agents[k] # c
      /\ \A b \in browsers : b \in Conns /\ b # c /\ b \in BrowserConns
  BY <1>1 DEF HubWell, PresenceInv, Routes, BrowsersServe, Conns
<1>7. Routes' /\ BrowsersServe'
  BY <1>1, <1>4, <1>6 DEF PresenceInv, Routes, BrowsersServe
<1>8. FramesHaveTellers'
  BY <1>4, <1>5 DEF PresenceInv, FramesHaveTellers
<1>9. StrangersAreAwaited'
  BY <1>1, <1>4, <1>5, <1>6 DEF PresenceInv, StrangersAreAwaited, Joins, Conns
<1>10. \A x \in Owners : OwnedBy(x)' = OwnedBy(x) /\ Online(x)' = Online(x)
  BY <1>1 DEF Online, OwnedBy
<1>11. \A b \in browsers : shown'[b] = shown[b]
  BY <1>1, <1>6 DEF HubWell
<1>12. ASSUME NEW x \in Owners, x # o
       PROVE  Informed(x)'
  <2>1. Informed(x)
    BY DEF PresenceInv
  <2>2. \A b \in browsers' : conn'[b].owner = x /\ ~conn'[b].closed =>
          /\ b \in browsers /\ conn[b].owner = x /\ ~conn[b].closed
          /\ shown'[b] = shown[b]
    BY <1>1, <1>4, <1>6, <1>11, <1>12
  <2> QED
    BY <1>1, <1>2, <1>3, <1>4, <1>5, <1>10, <1>12, <2>1, <2>2, OthersStayInformed
<1>13. Informed(o)'
  <2> SUFFICES ASSUME o \notin excused', ~Awaited(o)'
               PROVE  FramesAreTrue(o)' /\ ToldOrTelling(o)'
    BY DEF Informed
  <2>1. ~Awaited(o)
    BY <1>1, <1>4, <1>5 DEF Awaited, Conns
  <2>2. FramesAreTrue(o) /\ ToldOrTelling(o)
    BY <1>5, <2>1 DEF PresenceInv, Informed
  <2>3. FramesAreTrue(o)'
    BY <1>5, <1>10, <2>2 DEF FramesAreTrue
  <2>4. c \in Telling(o)'
    BY <1>1, <1>5 DEF Telling
  <2>5. ToldOrTelling(o)'
    <3> SUFFICES ASSUME NEW b \in browsers', b # c, conn'[b].owner = o, ~conn'[b].closed
                 PROVE  shown'[b] = Online(o)'
      BY <2>4 DEF ToldOrTelling
    <3>1. shown[b] = Online(o) \/ \E d \in Telling(o) : note[d].all \/ d = b
      BY <1>1, <1>4, <1>6, <2>2 DEF ToldOrTelling
    <3>2. Telling(o) = {}
      BY <1>5 DEF Telling
    <3> QED
      BY <1>1, <1>10, <1>11, <3>1, <3>2
  <2> QED
    BY <2>3, <2>5
<1> QED
  BY <1>7, <1>8, <1>9, <1>12, <1>13 DEF PresenceInv

\* A machine that leaves is told of to its owner, and to nobody else of whom it was.
LEMMA MachineLeaveInforms ==
  ASSUME Formed, PresenceInv, NEW c \in AgentConns, Leave(c)
  PROVE  PresenceInv'
<1> USE DEF Formed
<1>1. /\ c \in Conns /\ conn[c].phase = "serving" /\ note[c].at = "rest"
      /\ conn' = [conn EXCEPT ![c].phase = "leaving", ![c].closed = TRUE]
      /\ UNCHANGED <<owner, browsers, shown>>
  BY RelayAssumption DEF Leave, Conns, store
<1>2. PICK o \in Owners, m \in Machines : o = conn[c].owner /\ m = conn[c].key
  BY <1>1 DEF ConnsWell, ConnWell, KnownPhases
<1>3. agents' = [agents EXCEPT ![m] = IF @ = c THEN None ELSE @] /\ Tell(c, o, TRUE)
  BY <1>2 DEF Leave, Unroute
<1>4. /\ conn'[c].phase = "leaving" /\ conn'[c].owner = o
      /\ \A d \in Conns : d # c => conn'[d] = conn[d]
  BY <1>1, <1>2 DEF ConnsWell, ConnRecords
<1>5. /\ note'[c].all /\ \A d \in Conns : d # c => note'[d] = note[d]
      /\ excused \subseteq excused'
  BY <1>1, <1>3, TellIsAlone
<1>6. /\ agents'[m] = IF agents[m] = c THEN None ELSE agents[m]
      /\ \A k \in Machines : k # m => agents'[k] = agents[k]
      /\ \A k \in Machines : agents[k] # None =>
           /\ agents[k] \in Conns /\ conn[agents[k]].phase = "serving"
           /\ conn[agents[k]].key = k
      /\ \A b \in browsers : b \in Conns /\ b # c
  BY <1>1, <1>3, RelayAssumption DEF HubWell, PresenceInv, Routes, Conns
<1>7. \A k \in Machines : agents'[k] # None => agents'[k] = agents[k] /\ agents[k] # c
  BY <1>2, <1>6
<1>8. Routes' /\ BrowsersServe'
  <2>1. Routes'
    BY <1>4, <1>6, <1>7 DEF Routes
  <2>2. BrowsersServe'
    <3>1. UNCHANGED browsers /\ \A b \in browsers : conn[b].phase = "serving"
      BY <1>1 DEF PresenceInv, BrowsersServe
    <3> QED
      BY <1>4, <1>6, <3>1 DEF BrowsersServe
  <2> QED
    BY <2>1, <2>2
<1>9. FramesHaveTellers'
  BY <1>4, <1>5 DEF PresenceInv, FramesHaveTellers
<1>10. \A x \in Owners, k \in Machines : Joins(x, k) => Joins(x, k)'
  BY <1>1, <1>4 DEF Joins, Conns, JoiningPhases
<1>11. StrangersAreAwaited'
  BY <1>1, <1>4, <1>5, <1>6, <1>7, <1>10 DEF PresenceInv, StrangersAreAwaited
<1>12. ASSUME NEW x \in Owners, x # o
       PROVE  Informed(x)'
  <2>1. CASE agents[m] = c /\ owner[m] = x
    <3>1. x \notin excused' => Joins(x, m)
      BY <1>1, <1>2, <1>5, <1>12, <2>1, RelayAssumption DEF PresenceInv, StrangersAreAwaited
    <3>2. Joins(x, m)' => Awaited(x)'
      BY DEF Joins, Awaited
    <3> QED
      BY <1>10, <3>1, <3>2 DEF Informed
  <2>2. CASE agents[m] # c \/ owner[m] # x
    <3>1. Online(x)' = Online(x)
      BY <1>1, <1>6, <2>2 DEF Online, OwnedBy
    <3>2. Informed(x)
      BY DEF PresenceInv
    <3>3. \A b \in browsers' : conn'[b].owner = x /\ ~conn'[b].closed =>
            /\ b \in browsers /\ conn[b].owner = x /\ ~conn[b].closed
            /\ shown'[b] = shown[b]
      BY <1>1, <1>4, <1>6
    <3> QED
      BY <1>1, <1>2, <1>3, <1>4, <1>12, <3>1, <3>2, <3>3, OthersStayInformed
  <2> QED
    BY <2>1, <2>2
<1>13. Informed(o)'
  BY <1>1, <1>3, TellInforms
<1> QED
  BY <1>8, <1>9, <1>11, <1>12, <1>13 DEF PresenceInv

\* A browser that leaves is one fewer to be told.
LEMMA BrowserLeaveInforms ==
  ASSUME Formed, PresenceInv, NEW c \in BrowserConns, Leave(c)
  PROVE  PresenceInv'
<1> USE DEF Formed
<1>1. /\ c \in Conns /\ c \notin AgentConns /\ conn[c].phase = "serving"
      /\ conn' = [conn EXCEPT ![c].phase = "leaving", ![c].closed = TRUE]
      /\ browsers' = browsers \ {c} /\ UNCHANGED <<owner, agents, note, excused>>
  BY RelayAssumption DEF Leave, Conns, store
<1>2. /\ conn'[c].phase = "leaving" /\ conn'[c].owner = conn[c].owner
      /\ \A d \in Conns : d # c => conn'[d] = conn[d]
  BY <1>1 DEF ConnsWell, ConnRecords
<1>3. /\ \A k \in Machines : agents[k] # None => conn'[agents[k]] = conn[agents[k]]
      /\ \A b \in browsers : b \in Conns
      /\ \A b \in browsers' : shown'[b] = shown[b]
  <2>1. \A k \in Machines : agents[k] # None => conn'[agents[k]] = conn[agents[k]]
    BY <1>1, <1>2, RelayAssumption DEF HubWell, Conns
  <2>2. browsers \subseteq BrowserConns /\ shown' = [shown EXCEPT ![c] = {}]
    BY DEF HubWell, Leave
  <2> QED
    BY <1>1, <2>1, <2>2 DEF HubWell, Conns
<1>4. Routes' /\ BrowsersServe' /\ FramesHaveTellers'
  <2>1. agents' = agents
    BY <1>1
  <2>2. Routes'
    BY <1>3, <2>1 DEF PresenceInv, Routes
  <2>3. BrowsersServe'
    BY <1>1, <1>2, <1>3 DEF PresenceInv, BrowsersServe
  <2>4. FramesHaveTellers'
    BY <1>1, <1>2 DEF PresenceInv, FramesHaveTellers
  <2> QED
    BY <2>2, <2>3, <2>4
<1>5. StrangersAreAwaited'
  <2>1. \A x \in Owners, k \in Machines : Joins(x, k) => Joins(x, k)'
    BY <1>1, <1>2 DEF Joins, Conns
  <2>2. UNCHANGED <<owner, agents, excused>>
    BY <1>1
  <2> QED
    BY <1>3, <2>1, <2>2 DEF PresenceInv, StrangersAreAwaited
<1>6. ASSUME NEW o \in Owners
      PROVE  Informed(o)'
  <2>1. Informed(o)
    BY DEF PresenceInv
  <2>2. OwnedBy(o)' = OwnedBy(o) /\ Online(o)' = Online(o) /\ Telling(o)' = Telling(o)
    BY <1>1 DEF OwnedBy, Online, Telling
  <2>3. Awaited(o) => Awaited(o)'
    BY <1>1, <1>2 DEF Awaited, Conns
  <2>4. FramesAreTrue(o) => FramesAreTrue(o)'
    BY <1>1, <2>2 DEF FramesAreTrue
  <2>5. ToldOrTelling(o) => ToldOrTelling(o)'
    BY <1>1, <1>2, <1>3, <2>2 DEF ToldOrTelling
  <2> QED
    BY <1>1, <2>1, <2>3, <2>4, <2>5 DEF Informed
<1> QED
  BY <1>4, <1>5, <1>6 DEF PresenceInv

\* A machine that was forgotten is cut off, and its owner told.
LEMMA CutInforms ==
  ASSUME Formed, PresenceInv, NEW c \in Conns, Cut(c)
  PROVE  PresenceInv'
<1> USE DEF Formed
<1>1. note[c].at = "cut" /\ UNCHANGED <<owner, hub, shown>> /\ \E D : Overflow(D)
  BY DEF Cut, store
<1>2. PICK o \in Owners : o = note[c].owner
  BY <1>1 DEF NotesWell, NoteWell
<1>3. Tell(c, o, TRUE)
  BY <1>2 DEF Cut
<1>4. ConnsKeep
  BY <1>1, ClosingKeeps
<1>5. \A d \in Conns : conn'[d].phase = conn[d].phase /\ conn'[d].owner = conn[d].owner
  <2>1. \A d \in Conns : conn'[d] = conn[d] \/ conn'[d] = [conn[d] EXCEPT !.closed = TRUE]
    BY <1>1 DEF Overflow
  <2>2. \A d \in Conns : conn[d] \in ConnRecords
    BY DEF ConnsWell
  <2>3. \A r \in ConnRecords : LET x == [r EXCEPT !.closed = TRUE]
                             IN  x.phase = r.phase /\ x.owner = r.owner
    BY DEF ConnRecords
  <2> QED
    BY <2>1, <2>2, <2>3
<1>6. /\ note'[c].all /\ \A d \in Conns : d # c => note'[d] = note[d]
      /\ excused \subseteq excused'
  BY <1>1, <1>3, TellIsAlone
<1>7. Routes' /\ BrowsersServe'
  BY <1>1, <1>4, RoutesKept
<1>8. FramesHaveTellers'
  BY <1>1, <1>5, <1>6 DEF PresenceInv, FramesHaveTellers
<1>9. StrangersAreAwaited'
  BY <1>1, <1>4, <1>6, RoutesKept DEF PresenceInv, StrangersAreAwaited, hub
<1>10. ASSUME NEW x \in Owners, x # o
       PROVE  Informed(x)'
  <2>1. Online(x)' = Online(x)
    BY <1>1 DEF Online, OwnedBy, hub
  <2>2. Informed(x)
    BY DEF PresenceInv
  <2>3. \A b \in browsers' : conn'[b].owner = x /\ ~conn'[b].closed =>
          /\ b \in browsers /\ conn[b].owner = x /\ ~conn[b].closed
          /\ shown'[b] = shown[b]
    BY <1>1, <1>4, RoutesKept DEF hub
  <2>4. conn[c].phase \notin JoiningPhases
    BY <1>1 DEF PresenceInv, FramesHaveTellers, JoiningPhases
  <2> QED
    BY <1>1, <1>2, <1>3, <1>5, <1>10, <2>1, <2>2, <2>3, <2>4, OthersStayInformed
<1>11. Informed(o)'
  BY <1>3, TellInforms
<1> QED
  BY <1>7, <1>8, <1>9, <1>10, <1>11 DEF PresenceInv

\* Nobody is connected when the process starts.
LEMMA NobodyIsConnected ==
  ASSUME conn = [c \in Conns |-> Gone], note = [c \in Conns |-> Silent],
         agents = [m \in Machines |-> None], browsers = {}
  PROVE  PresenceInv
<1>1. \A c \in Conns : note[c].at = "rest"
  BY DEF Silent
<1>2. Routes /\ BrowsersServe /\ FramesHaveTellers /\ StrangersAreAwaited
  BY <1>1 DEF Routes, BrowsersServe, FramesHaveTellers, StrangersAreAwaited
<1>3. \A o \in Owners : Informed(o)
  BY <1>1 DEF Informed, FramesAreTrue, ToldOrTelling
<1> QED
  BY <1>2, <1>3 DEF PresenceInv

LEMMA InitPresenceInv == Init => PresenceInv
BY NobodyIsConnected DEF Init

\* Every step keeps owners informed.
LEMMA StepPresenceInv == IInv /\ PresenceInv /\ [Next]_vars => PresenceInv'
<1> SUFFICES ASSUME IInv, PresenceInv, [Next]_vars PROVE PresenceInv'
  OBVIOUS
<1>1. Formed
  BY DEF IInv
<1>2. CASE Restart
  <2>1. \A c \in Conns : note'[c].at = "rest"
    BY <1>2 DEF Restart, Silent
  <2>2. browsers' = {} /\ agents' = [m \in Machines |-> None]
    BY <1>2 DEF Restart
  <2>3. Routes' /\ BrowsersServe' /\ FramesHaveTellers' /\ StrangersAreAwaited'
    BY <2>1, <2>2 DEF Routes, BrowsersServe, FramesHaveTellers, StrangersAreAwaited
  <2>4. \A o \in Owners : Informed(o)'
    BY <2>1, <2>2 DEF Informed, FramesAreTrue, ToldOrTelling
  <2> QED
    BY <2>3, <2>4 DEF PresenceInv
<1>3. CASE Tick \/ UNCHANGED vars
  BY <1>1, <1>3, QuietInforms
<1>4. ASSUME NEW c \in Conns,
             \/ Handshake(c) \/ TurnAway(c) \/ Admit(c) \/ Succeed(c)
             \/ Join(c) \/ Leave(c) \/ Release(c)
             \/ ListOwned(c) \/ ReadFlags(c) \/ Push(c)
             \/ Forward(c) \/ Cut(c)
             \/ \E m \in Machines : Forget(c, m)
      PROVE  PresenceInv'
  <2>1. CASE Join(c) \/ Leave(c)
    BY <1>1, <2>1, MachineJoinInforms, BrowserJoinInforms, MachineLeaveInforms,
       BrowserLeaveInforms DEF Conns
  <2> QED
    BY <1>1, <1>4, <2>1, HandshakeInforms, TurnAwayInforms, QuietInforms, ReadingInforms,
       PushInforms, CutInforms, ForgetInforms
<1> QED
  BY <1>2, <1>3, <1>4 DEF Next

\* What a browser is shown is what is so once everything is quiet, however machines
\* and browsers came, were enrolled, forgotten and cut off (hub.go:337-357).
THEOREM Presence == Spec => []PresenceSettles
<1>1. PresenceInv /\ IInv => PresenceSettles
  <2> SUFFICES ASSUME PresenceInv, IInv, Settled, NEW b \in browsers,
                      conn[b].owner \notin excused
               PROVE  shown[b] = Online(conn[b].owner)
    BY DEF PresenceSettles, Online
  <2>1. b \in Conns /\ conn[b].phase = "serving"
    BY DEF IInv, Formed, HubWell, Conns, PresenceInv, BrowsersServe
  <2>2. PICK o \in Owners : o = conn[b].owner
    BY <2>1 DEF IInv, Formed, ConnsWell, ConnWell
  <2>3. ~conn[b].closed /\ ~Awaited(o) /\ Telling(o) = {}
    BY <2>1 DEF Settled, Awaited, Telling, Conns, JoiningPhases
  <2>4. ToldOrTelling(o)
    BY <2>2, <2>3 DEF PresenceInv, Informed
  <2> QED
    BY <2>2, <2>3, <2>4 DEF ToldOrTelling
<1>2. Spec => []PresenceInv
  <2>1. Init => PresenceInv
    BY InitPresenceInv
  <2>2. Spec => []IInv
    BY Invariance
  <2>3. IInv /\ PresenceInv /\ [Next]_vars => PresenceInv'
    BY StepPresenceInv
  <2> QED
    BY <2>1, <2>2, <2>3, PTL DEF Spec
<1> QED
  BY <1>1, <1>2, Invariance, PTL
=============================================================================
