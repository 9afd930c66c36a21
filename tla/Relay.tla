------------------------------- MODULE Relay -------------------------------
(***************************************************************************)
(* The relay: the hub that keeps the connections of machines and of their  *)
(* owners' browsers (internal/relay/hub.go), the store of enrolled         *)
(* machines and spent tokens (store.go), and the limits on what a stranger *)
(* may take (limit.go).                                                    *)
(*                                                                         *)
(* Every connection is a goroutine of its own.  A step is a section under  *)
(* one lock: a handler that takes a lock three times is three steps, and   *)
(* other connections come between.  What a frame carries is left out, but  *)
(* for the presence frame, which is the set of machines it shows online.   *)
(***************************************************************************)
EXTENDS Naturals, Sequences, FiniteSets, Functions

CONSTANTS
  Owners, Machines, Tokens, Addrs,
  AgentConns,     \* the connections machines may have open at once
  BrowserConns,   \* the connections browsers may have open at once
  None,
  TokenOwner,     \* [Tokens -> Owners]: who signed it
  TokenExp,       \* [Tokens -> Nat]: when it expires
  MaxHandshakes, MaxFailures, FailWindow,
  MaxActive,      \* MaxActiveConnections
  MaxPerAddress,  \* MaxActivePerAddress
  MaxOwners,      \* MaxActiveOwners
  MaxMachines, MaxPerOwner, MaxSpentNonces, MaxEnrolments,
  Minute,         \* the window of MaxEnrolmentsPerMinute
  MaxNow,         \* bound: the clock
  MaxFaults       \* bound: restarts and failed writes of the store

Conns == AgentConns \union BrowserConns

ASSUME RelayAssumption ==
  /\ AgentConns \intersect BrowserConns = {}
  /\ IsFiniteSet(Conns)
  /\ None \notin Owners \union Machines \union Conns
  /\ TokenOwner \in [Tokens -> Owners] /\ TokenExp \in [Tokens -> Nat]
  /\ {MaxHandshakes, MaxFailures, FailWindow, MaxActive, MaxPerAddress, MaxOwners,
      MaxMachines, MaxPerOwner, MaxSpentNonces, MaxEnrolments, Minute,
      MaxNow, MaxFaults} \subseteq Nat

VARIABLES
  now,         \* the clock
  owner,       \* Store.m: [Machines -> owner or None]
  nonces,      \* Store.nonces: the spent tokens it remembers
  recent,      \* Store.recent: when the latest tokens were spent
  disk,        \* machines.json: [owner, nonces]
  agents,      \* Hub.agents: [Machines -> connection or None]
  browsers,    \* Hub.owners: the connections of browsers, each under its owner
  conn,        \* each connection: [phase, key, owner, addr, at, closed]
  note,        \* the presence frame that a connection's goroutine is at
  shown,       \* [BrowserConns -> machines its last presence frame shows online],
               \* none where no browser is
  inFlight, activeN, ownersN, active, failures,    \* the limiter
  enrolments,  \* history: how often each token enrolled a machine, up to twice
  astray,      \* history: tokens of which a use was not written, or came too late
  excused,     \* history: owners of whom a change went untold
  faults       \* bound: restarts and failed writes so far

store == <<owner, nonces, recent, disk>>
hub == <<agents, browsers>>
limiter == <<inFlight, activeN, ownersN, active, failures>>
used == <<enrolments, astray>>
vars == <<now, store, hub, conn, note, shown, limiter, used, excused, faults>>

\* The phases of serve in which a handshake is charged, and those in which a
\* connection is; and those on the way from the one to the maps of the hub.
HandshakePhases == {"handshake", "proven", "found", "refused", "accepted"}
StayingPhases == {"admitted", "cleared", "serving", "leaving"}
JoiningPhases == {"accepted", "authed", "admitted", "cleared"}
Phases == {"idle", "dialled", "failing"} \union HandshakePhases \union StayingPhases
          \union JoiningPhases

Gone == [phase |-> "idle", key |-> None, owner |-> None, addr |-> None, at |-> 0,
         closed |-> FALSE]
NoFailures == [n |-> 0, since |-> 0]
Silent == [at |-> "rest", owner |-> None, whom |-> None, all |-> FALSE, machines |-> {}]

(***************************************************************************)
(* The limiter.  A record of failures that is older than the window counts *)
(* for nothing wherever it is read, and is dropped in Tick, when it comes  *)
(* to be; failures beyond the limit are not counted on; and the lock is    *)
(* taken at the time that is compared with the record.                     *)
(***************************************************************************)
AtMost(n, most) == IF n < most THEN n ELSE most

Fresh(f) == now - f.since <= FailWindow
Blocked(a) == failures[a].n >= MaxFailures /\ Fresh(failures[a])

\* failed: one more, or the first of a new window.
Failed(a) ==
  LET f == failures[a]
  IN failures' = [failures EXCEPT ![a] =
       [n |-> IF f.n > 0 /\ Fresh(f) THEN AtMost(f.n + 1, MaxFailures) ELSE 1,
        since |-> IF f.n > 0 /\ Fresh(f) THEN f.since ELSE now]]

\* done: the slot of a handshake is free again.
Done == inFlight' = IF inFlight > 0 THEN inFlight - 1 ELSE 0

\* admit: the answer of the limits on connections that stay.
Admits(c) ==
  /\ activeN < MaxActive
  /\ active[conn[c].addr] < MaxPerAddress
  /\ c \in BrowserConns => ownersN < MaxOwners

(***************************************************************************)
(* The store.  What it takes for the present is what a connection read     *)
(* from the clock once its signature was verified, however long ago.       *)
(***************************************************************************)
\* The spent tokens left once the expired ones are dropped.
Unexpired(c) == {t \in nonces : TokenExp[t] > conn[c].at}

LastMinute(c) == LET Within(at) == at + Minute > conn[c].at IN SelectSeq(recent, Within)

OwnedBy(o) == {m \in Machines : owner[m] = o}

\* enrolLocked: the key is its owner's already, or there is room for it.
MayEnrol(m, o) ==
  \/ owner[m] = o
  \/ /\ owner[m] = None
     /\ Cardinality({k \in Machines : owner[k] # None}) < MaxMachines
     /\ Cardinality(OwnedBy(o)) < MaxPerOwner

\* What EnrolToken refuses, once Verify has accepted the token.
TokenRefused(c, t) ==
  \/ t \in Unexpired(c)
  \/ Cardinality(Unexpired(c)) >= MaxSpentNonces
  \/ Len(LastMinute(c)) >= MaxEnrolments
  \/ ~MayEnrol(conn[c].key, TokenOwner[t])

\* saveLocked: the whole store replaces the file, or nothing does.
Saved(o, n) == disk' = [owner |-> o, nonces |-> n] /\ faults' = faults
SaveFails == faults < MaxFaults /\ faults' = faults + 1 /\ disk' = disk

(***************************************************************************)
(* A handshake: serve and authenticate.                                    *)
(***************************************************************************)
Init ==
  /\ now = 0
  /\ owner = [m \in Machines |-> None] /\ nonces = {} /\ recent = <<>>
  /\ disk = [owner |-> owner, nonces |-> {}]
  /\ agents = [m \in Machines |-> None] /\ browsers = {}
  /\ conn = [c \in Conns |-> Gone] /\ note = [c \in Conns |-> Silent]
  /\ shown = [b \in BrowserConns |-> {}]
  /\ inFlight = 0 /\ activeN = 0 /\ ownersN = 0
  /\ active = [a \in Addrs |-> 0]
  /\ failures = [a \in Addrs |-> NoFailures]
  /\ enrolments = [t \in Tokens |-> 0] /\ astray = {} /\ excused = {} /\ faults = 0

\* A party dials from an address that is not blocked; blocked has looked.
Serve(c) ==
  /\ conn[c].phase = "idle"
  /\ \E a \in Addrs :
       /\ ~Blocked(a)
       /\ conn' = [conn EXCEPT ![c].phase = "dialled", ![c].addr = a]
  /\ UNCHANGED <<now, store, hub, note, shown, limiter, used, excused, faults>>

\* It is one handshake too many.
Busy(c) ==
  /\ conn[c].phase = "dialled" /\ inFlight >= MaxHandshakes
  /\ conn' = [conn EXCEPT ![c] = Gone]
  /\ UNCHANGED <<now, store, hub, note, shown, limiter, used, excused, faults>>

\* begin: the handshake is charged.
Begin(c) ==
  /\ conn[c].phase = "dialled" /\ inFlight < MaxHandshakes
  /\ conn' = [conn EXCEPT ![c].phase = "handshake"]
  /\ inFlight' = inFlight + 1
  /\ UNCHANGED <<now, store, hub, note, shown, activeN, ownersN, active, failures, used, excused,
                 faults>>

\* Mutant: a failed upgrade keeps its slot.
UpgradeFailsKeepingTheSlot(c) ==
  /\ conn[c].phase = "handshake"
  /\ conn' = [conn EXCEPT ![c] = Gone]
  /\ UNCHANGED <<now, store, hub, note, shown, limiter, used, excused, faults>>

\* It is no websocket: done, and no failed authentication.
UpgradeFails(c) ==
  /\ conn[c].phase = "handshake"
  /\ conn' = [conn EXCEPT ![c] = Gone]
  /\ Done
  /\ UNCHANGED <<now, store, hub, note, shown, activeN, ownersN, active, failures, used, excused,
                 faults>>

\* authenticate returns an error, or a connection; its handshake is charged still.
Refuse(c) ==
  conn' = [conn EXCEPT ![c] = [Gone EXCEPT !.phase = "refused", !.addr = conn[c].addr]]

Accept(c, o) ==
  conn' = [conn EXCEPT ![c].phase = "accepted", ![c].owner = o, ![c].at = 0]

\* No authentication in time, not an auth frame, a signature that does not match.
Unproven(c) ==
  /\ conn[c].phase = "handshake"
  /\ Refuse(c)
  /\ UNCHANGED <<now, store, hub, note, shown, limiter, used, excused, faults>>

\* A browser owns itself.
BrowserProven(c) ==
  /\ c \in BrowserConns /\ conn[c].phase = "handshake"
  /\ \E o \in Owners :
       conn' = [conn EXCEPT ![c].phase = "accepted", ![c].key = o, ![c].owner = o]
  /\ UNCHANGED <<now, store, hub, note, shown, limiter, used, excused, faults>>

\* The signature of a machine matches, and the clock is read.
AgentProven(c) ==
  /\ c \in AgentConns /\ conn[c].phase = "handshake"
  /\ \E m \in Machines :
       conn' = [conn EXCEPT ![c].phase = "proven", ![c].key = m, ![c].at = now]
  /\ UNCHANGED <<now, store, hub, note, shown, limiter, used, excused, faults>>

\* Get: what is found is a copy.
AgentFound(c) ==
  /\ conn[c].phase = "proven"
  /\ conn' = [conn EXCEPT ![c].phase = "found", ![c].owner = owner[conn[c].key]]
  /\ UNCHANGED <<now, store, hub, note, shown, limiter, used, excused, faults>>

\* It is known, and has no new name.
Known(c) ==
  /\ conn[c].phase = "found" /\ conn[c].owner # None
  /\ Accept(c, conn[c].owner)
  /\ UNCHANGED <<now, store, hub, note, shown, limiter, used, excused, faults>>

\* It is known under another name, and enrolled once more to the owner that was
\* found; that the store refuses, or cannot save, changes nothing for it.
Rename(c) ==
  LET m == conn[c].key
      o == conn[c].owner
  IN
  /\ conn[c].phase = "found" /\ o # None
  /\ Accept(c, o)
  /\ IF MayEnrol(m, o)
     THEN /\ owner' = [owner EXCEPT ![m] = o]
          /\ Saved(owner', nonces) \/ SaveFails
     ELSE UNCHANGED <<owner, disk, faults>>
  /\ UNCHANGED <<now, nonces, recent, hub, note, shown, limiter, used, excused>>

\* It is not known, and sends no token or one that Verify does not accept.
Unenrolled(c) ==
  /\ conn[c].phase = "found" /\ conn[c].owner = None
  /\ Refuse(c)
  /\ UNCHANGED <<now, store, hub, note, shown, limiter, used, excused, faults>>

\* A machine that is not known sends a token that had not expired when it was proven.
Enrolling(c, t) ==
  /\ conn[c].phase = "found" /\ conn[c].owner = None
  /\ TokenExp[t] > conn[c].at

\* Its token is spent, or there is no room; the expired tokens are dropped.
EnrolRefused(c, t) ==
  /\ Enrolling(c, t) /\ TokenRefused(c, t)
  /\ nonces' = Unexpired(c)
  /\ recent' = IF t \in Unexpired(c) \/ Cardinality(Unexpired(c)) >= MaxSpentNonces
               THEN recent ELSE LastMinute(c)
  /\ Refuse(c)
  /\ UNCHANGED <<now, owner, disk, hub, note, shown, limiter, used, excused, faults>>

\* Its token enrols it, and is spent in the same write of the file.
EnrolToken(c, t) ==
  /\ Enrolling(c, t) /\ ~TokenRefused(c, t)
  /\ owner' = [owner EXCEPT ![conn[c].key] = TokenOwner[t]]
  /\ nonces' = Unexpired(c) \union {t}
  /\ Saved(owner', nonces')
  /\ recent' = Append(LastMinute(c), conn[c].at)
  /\ enrolments' = [enrolments EXCEPT ![t] = AtMost(@ + 1, 2)]
  /\ astray' = IF TokenExp[t] > now THEN astray ELSE astray \union {t}
  /\ Accept(c, TokenOwner[t])
  /\ UNCHANGED <<now, hub, note, shown, limiter, excused>>

\* The write fails: the handshake is refused and the token fresh again, but the
\* machine stays enrolled in memory, and is written with what is saved next.
EnrolFails(c, t) ==
  /\ Enrolling(c, t) /\ ~TokenRefused(c, t)
  /\ owner' = [owner EXCEPT ![conn[c].key] = TokenOwner[t]]
  /\ nonces' = Unexpired(c)
  /\ SaveFails
  /\ recent' = LastMinute(c)
  /\ enrolments' = [enrolments EXCEPT ![t] = AtMost(@ + 1, 2)]
  /\ astray' = astray \union {t}
  /\ excused' = excused \union {TokenOwner[t]}
  /\ Refuse(c)
  /\ UNCHANGED <<now, hub, note, shown, limiter>>

\* done, whatever authenticate returned.
HandshakeDone(c) ==
  /\ \/ conn[c].phase = "refused" /\ conn' = [conn EXCEPT ![c].phase = "failing"]
     \/ conn[c].phase = "accepted" /\ conn' = [conn EXCEPT ![c].phase = "authed"]
  /\ Done
  /\ UNCHANGED <<now, store, hub, note, shown, activeN, ownersN, active, failures, used, excused,
                 faults>>

\* failed, an error frame, closed.
Reject(c) ==
  /\ conn[c].phase = "failing"
  /\ conn' = [conn EXCEPT ![c] = Gone]
  /\ Failed(conn[c].addr)
  /\ UNCHANGED <<now, store, hub, note, shown, inFlight, activeN, ownersN, active, used, excused,
                 faults>>

(***************************************************************************)
(* The rest of serve: admission, the maps, and the end of the connection.  *)
(***************************************************************************)
\* Too many connections: an error frame, and nothing is counted.
TurnAway(c) ==
  /\ conn[c].phase = "authed" /\ ~Admits(c)
  /\ conn' = [conn EXCEPT ![c] = Gone]
  /\ excused' = excused \union {conn[c].owner}
  /\ UNCHANGED <<now, store, hub, note, shown, limiter, used, faults>>

\* admit: the connection is charged.
Admit(c) ==
  /\ conn[c].phase = "authed" /\ Admits(c)
  /\ conn' = [conn EXCEPT ![c].phase = "admitted"]
  /\ activeN' = activeN + 1
  /\ active' = [active EXCEPT ![conn[c].addr] = @ + 1]
  /\ ownersN' = IF c \in BrowserConns THEN ownersN + 1 ELSE ownersN
  /\ UNCHANGED <<now, store, hub, note, shown, inFlight, failures, used, excused, faults>>

\* succeeded: the record of its address is cleared.
Succeed(c) ==
  /\ conn[c].phase = "admitted"
  /\ conn' = [conn EXCEPT ![c].phase = "cleared"]
  /\ failures' = [failures EXCEPT ![conn[c].addr] = NoFailures]
  /\ UNCHANGED <<now, store, hub, note, shown, inFlight, activeN, ownersN, active, used, excused,
                 faults>>

\* A machine joins for the owner it was found with, when it has been forgotten and
\* enrolled to another since: he is not told.
Displaced(c) ==
  IF c \in AgentConns /\ conn[c].phase = "cleared"
  THEN {owner[conn[c].key]} \ {None, conn[c].owner} ELSE {}

\* notifyOwner, or the frame of a browser's own, is about to be made.
Telling(o) == {d \in Conns : note[d].at \in {"owned", "flags", "push"} /\ note[d].owner = o}
Tell(c, o, all) ==
  /\ note' = [note EXCEPT ![c] =
       [at |-> "owned", owner |-> o, whom |-> None, all |-> all, machines |-> {}]]
  /\ excused' = excused \union (IF Telling(o) \ {c} = {} THEN {} ELSE {o}) \union Displaced(c)

\* The ready frame and add: a machine's older connection is closed.
Join(c) ==
  LET m == conn[c].key
  IN
  /\ conn[c].phase = "cleared"
  /\ IF c \in AgentConns
     THEN /\ agents' = [agents EXCEPT ![m] = c]
          /\ browsers' = browsers
          /\ conn' = [d \in Conns |->
               IF d = c THEN [conn[c] EXCEPT !.phase = "serving"]
               ELSE IF d = agents[m] THEN [conn[d] EXCEPT !.closed = TRUE] ELSE conn[d]]
     ELSE /\ browsers' = browsers \union {c}
          /\ agents' = agents
          /\ conn' = [conn EXCEPT ![c].phase = "serving"]
  /\ Tell(c, conn[c].owner, c \in AgentConns)
  /\ shown' = IF c \in BrowserConns THEN [shown EXCEPT ![c] = {}] ELSE shown
  /\ UNCHANGED <<now, store, limiter, used, faults>>

\* Mutant: whichever connection the machine has is dropped from the map.
UnrouteAny(c) == agents' = [agents EXCEPT ![conn[c].key] = None]

\* remove drops the connection that ends, not the one that has taken its place.
Unroute(c) ==
  agents' = [agents EXCEPT ![conn[c].key] = IF @ = c THEN None ELSE @]

\* Mutant: a machine that leaves is not told of.
LeaveUntold(c) ==
  /\ conn[c].phase = "serving" /\ note[c].at = "rest"
  /\ conn' = [conn EXCEPT ![c].phase = "leaving", ![c].closed = TRUE]
  /\ IF c \in AgentConns THEN Unroute(c) /\ UNCHANGED browsers
     ELSE browsers' = browsers \ {c} /\ UNCHANGED agents
  /\ UNCHANGED <<now, store, note, shown, limiter, used, excused, faults>>

\* The reader returns, because the connection broke, went silent or was closed.
Leave(c) ==
  /\ conn[c].phase = "serving" /\ note[c].at = "rest"
  /\ conn' = [conn EXCEPT ![c].phase = "leaving", ![c].closed = TRUE]
  /\ IF c \in AgentConns
     THEN Unroute(c) /\ UNCHANGED browsers /\ Tell(c, conn[c].owner, TRUE)
     ELSE browsers' = browsers \ {c} /\ UNCHANGED <<agents, note, excused>>
  /\ shown' = IF c \in BrowserConns THEN [shown EXCEPT ![c] = {}] ELSE shown
  /\ UNCHANGED <<now, store, limiter, used, faults>>

\* serve returns: what admit charged is given back.
Release(c) ==
  LET a == conn[c].addr
  IN
  /\ conn[c].phase = "leaving" /\ note[c].at = "rest"
  /\ conn' = [conn EXCEPT ![c] = Gone]
  /\ active' = [active EXCEPT ![a] = IF @ > 0 THEN @ - 1 ELSE 0]
  /\ activeN' = IF activeN > 0 THEN activeN - 1 ELSE 0
  /\ ownersN' = IF c \in BrowserConns /\ ownersN > 0 THEN ownersN - 1 ELSE ownersN
  /\ UNCHANGED <<now, store, hub, note, shown, inFlight, failures, used, excused, faults>>

(***************************************************************************)
(* A presence frame, in the three steps it takes its locks.                *)
(***************************************************************************)
ListOwned(c) ==
  /\ note[c].at = "owned"
  /\ note' = [note EXCEPT ![c].at = "flags", ![c].machines = OwnedBy(note[c].owner)]
  /\ UNCHANGED <<now, store, hub, conn, shown, limiter, used, excused, faults>>

ReadFlags(c) ==
  /\ note[c].at = "flags"
  /\ note' = [note EXCEPT ![c].at = "push", ![c].machines = {m \in @ : agents[m] # None}]
  /\ UNCHANGED <<now, store, hub, conn, shown, limiter, used, excused, faults>>

\* push: a connection that is closed gets nothing, and one that does not keep up
\* is closed instead.
Overflow(D) == conn' = [d \in Conns |-> IF d \in D THEN [conn[d] EXCEPT !.closed = TRUE] ELSE conn[d]]

Push(c) ==
  LET heard == {b \in BrowserConns : /\ IF note[c].all
                                        THEN b \in browsers /\ conn[b].owner = note[c].owner
                                        ELSE b = c
                                     /\ ~conn[b].closed}
  IN
  /\ note[c].at = "push"
  /\ \E full \in SUBSET heard :
       /\ Overflow(full)
       /\ shown' = [b \in BrowserConns |-> IF b \in heard \ full THEN note[c].machines ELSE shown[b]]
  /\ note' = [note EXCEPT ![c] = Silent]
  /\ UNCHANGED <<now, store, hub, limiter, used, excused, faults>>

(***************************************************************************)
(* The frames that the reader handles.                                     *)
(***************************************************************************)
Serving(c) == conn[c].phase = "serving" /\ note[c].at = "rest"

\* Whom a frame goes to: a machine's to every browser of its owner, a browser's
\* to one machine if that is his (or the error to himself).
Listeners(c) ==
  IF c \in AgentConns THEN {b \in browsers : conn[b].owner = conn[c].owner}
  ELSE {c} \union {agents[m] : m \in {k \in OwnedBy(conn[c].owner) : agents[k] # None}}

\* up, to, to_agent, from_agent, resync and ping change nothing here, unless a
\* listener does not keep up.
Forward(c) ==
  /\ Serving(c)
  /\ \E d \in Listeners(c) : ~conn[d].closed /\ Overflow({d})
  /\ UNCHANGED <<now, store, hub, note, shown, limiter, used, excused, faults>>

\* forget, the store's part.
Forget(c, m) ==
  /\ c \in BrowserConns /\ Serving(c) /\ owner[m] = conn[c].owner
  /\ owner' = [owner EXCEPT ![m] = None]
  /\ \/ /\ Saved(owner', nonces)
        /\ note' = [note EXCEPT ![c] =
             [at |-> "cut", owner |-> conn[c].owner, whom |-> m, all |-> TRUE, machines |-> {}]]
        /\ excused' = excused
     \/ /\ SaveFails
        /\ note' = note
        /\ excused' = excused \union {conn[c].owner}
  /\ UNCHANGED <<now, nonces, recent, hub, conn, shown, limiter, used>>

\* forget, the hub's part: the machine's connection is closed, its owner told.
Cut(c) ==
  /\ note[c].at = "cut"
  /\ Overflow({d \in Conns : d = agents[note[c].whom]})
  /\ Tell(c, note[c].owner, TRUE)
  /\ UNCHANGED <<now, store, hub, shown, limiter, used, faults>>

(***************************************************************************)
(* The clock and the process.                                              *)
(***************************************************************************)
Tick ==
  /\ now < MaxNow
  /\ now' = now + 1
  /\ failures' = [a \in Addrs |-> IF now' - failures[a].since <= FailWindow
                                 THEN failures[a] ELSE NoFailures]
  /\ UNCHANGED <<store, hub, conn, note, shown, inFlight, activeN, ownersN, active, used,
                 excused, faults>>

\* Mutant: the spent tokens are not read back.
LoadMachines == owner' = disk.owner /\ nonces' = {}

\* Open: the machines and the spent tokens of the file.
Load == owner' = disk.owner /\ nonces' = disk.nonces

\* The process ends and another one reads the file.
Restart ==
  /\ faults < MaxFaults
  /\ faults' = faults + 1
  /\ Load
  /\ recent' = <<>>
  /\ agents' = [m \in Machines |-> None] /\ browsers' = {}
  /\ conn' = [c \in Conns |-> Gone] /\ note' = [c \in Conns |-> Silent]
  /\ shown' = [b \in BrowserConns |-> {}]
  /\ inFlight' = 0 /\ activeN' = 0 /\ ownersN' = 0
  /\ active' = [a \in Addrs |-> 0]
  /\ failures' = [a \in Addrs |-> NoFailures]
  /\ excused' = {}
  /\ UNCHANGED <<now, disk, used>>

Handshake(c) ==
  \/ Serve(c) \/ Busy(c) \/ Begin(c) \/ UpgradeFails(c)
  \/ Unproven(c) \/ BrowserProven(c) \/ AgentProven(c) \/ AgentFound(c)
  \/ Known(c) \/ Rename(c) \/ Unenrolled(c)
  \/ \E t \in Tokens : EnrolRefused(c, t) \/ EnrolToken(c, t) \/ EnrolFails(c, t)
  \/ HandshakeDone(c) \/ Reject(c)

Next ==
  \/ Tick \/ Restart
  \/ \E c \in Conns :
       \/ Handshake(c) \/ TurnAway(c) \/ Admit(c) \/ Succeed(c)
       \/ Join(c) \/ Leave(c) \/ Release(c)
       \/ ListOwned(c) \/ ReadFlags(c) \/ Push(c)
       \/ Forward(c) \/ Cut(c)
       \/ \E m \in Machines : Forget(c, m)

Spec == Init /\ [][Next]_vars

(***************************************************************************)
(* Properties.                                                             *)
(***************************************************************************)
\* The types of all variables but one; what SelectSeq leaves of recent is out of
\* the prover's reach.
Types ==
  /\ now \in Nat /\ faults \in Nat
  /\ owner \in [Machines -> Owners \union {None}] /\ nonces \subseteq Tokens
  /\ disk \in [owner : [Machines -> Owners \union {None}], nonces : SUBSET Tokens]
  /\ agents \in [Machines -> AgentConns \union {None}] /\ browsers \subseteq BrowserConns
  /\ conn \in [Conns -> [phase : Phases, key : Machines \union Owners \union {None},
                         owner : Owners \union {None}, addr : Addrs \union {None},
                         at : Nat, closed : BOOLEAN]]
  /\ note \in [Conns -> [at : {"rest", "cut", "owned", "flags", "push"},
                         owner : Owners \union {None}, whom : Machines \union {None},
                         all : BOOLEAN, machines : SUBSET Machines]]
  /\ shown \in [BrowserConns -> SUBSET Machines]
  /\ {inFlight, activeN, ownersN} \subseteq Nat
  /\ active \in [Addrs -> Nat]
  /\ failures \in [Addrs -> [n : Nat, since : Nat]]
  /\ enrolments \in [Tokens -> Nat] /\ astray \subseteq Tokens /\ excused \subseteq Owners

TypeOK == Types /\ recent \in Seq(Nat)

\* Whatever reconnects in whatever order (hub.go:288-316), the map leads to the
\* connection of a machine that is open; hence there is at most one.
OpenAgentIsRouted ==
  \A c \in AgentConns :
    conn[c].phase = "serving" /\ ~conn[c].closed => agents[conn[c].key] = c

\* A token enrols a machine once (store.go:112-149): not again after the machine
\* was forgotten, after a restart, or when spent tokens are dropped as they expire.
\* Astray are the tokens with which a machine was enrolled that could not be written
\* down, or by a handshake that had read the clock before they expired.
TokenEnrolsOnce == \A t \in Tokens : t \notin astray => enrolments[t] <= 1

\* "A token is worth one machine" (relay_test.go:334), of every token.
TokenIsWorthOneMachine == \A t \in Tokens : enrolments[t] <= 1

\* What the limiter counts is what is there (limit.go:83-133), between the locks too
\* and on every way through serve: refused before it begins, an upgrade that fails
\* (hub.go:174-178), a failed handshake, no admission, a reader that returns.
LimiterBalances ==
  /\ inFlight = Cardinality({c \in Conns : conn[c].phase \in HandshakePhases})
  /\ activeN = Cardinality({c \in Conns : conn[c].phase \in StayingPhases})
  /\ ownersN = Cardinality({c \in BrowserConns : conn[c].phase \in StayingPhases})
  /\ \A a \in Addrs :
       active[a] = Cardinality({c \in Conns : conn[c].phase \in StayingPhases
                                              /\ conn[c].addr = a})

\* Once no connection comes or goes and every goroutine is done with what it was
\* telling, a browser shows online the machines of its owner that are
\* (hub.go:337-357), unless two frames for one owner were made at once, a write
\* failed, an accepted machine was turned away, or one was connected for another owner.
Settled ==
  \A c \in Conns :
    /\ note[c].at = "rest"
    /\ conn[c].phase \in {"idle", "dialled", "handshake", "proven"}
       \/ (conn[c].phase = "serving" /\ ~conn[c].closed)
PresenceSettles ==
  Settled =>
    \A b \in browsers :
      conn[b].owner \notin excused =>
        shown[b] = {m \in OwnedBy(conn[b].owner) : agents[m] # None}
=============================================================================
