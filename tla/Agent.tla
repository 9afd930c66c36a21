------------------------------- MODULE Agent -------------------------------
(***************************************************************************)
(* The agent on a machine (internal/agent/agent.go): a session with the    *)
(* relay for as long as it lasts, a connection to the folding client under *)
(* it, a pump in each direction, and the commands for the agent itself     *)
(* (Rentals).  The relay and the folding client are its environment.       *)
(*                                                                         *)
(* The folding client sends its whole state once, when something connects, *)
(* and patches after that.  A browser that opens later asks for a resync;  *)
(* the agent answers by dialling the client again.                         *)
(***************************************************************************)
EXTENDS Rentals

CONSTANTS MaxWait   \* the number of attempts after which the wait stays the same

ASSUME AgentAssumption == MaxWait \in Nat \ {0}

VARIABLES
  phase,     \* Run and session: dialling, proving, session, waiting, gaveup
  attempts,  \* Run's count, up to where it matters
  answer,    \* history: what the relay had against the last authentication
  local,     \* Agent.local: nil, open, or shut when it points to a closed one
  loop,      \* localLoop: dialling, pumping, unwinding, ended
  resync,    \* the channel of one place between pumpDown and localLoop
  whole,     \* the client has still to send its state on this connection
  owed       \* history: a browser waits for a state that is sent after it asked

agentVars == <<phase, attempts, answer, local, loop, resync, whole, owed>>
vars == <<rentalVars, agentVars>>
others == <<key, file, listed, strayed, work, page, vast, commands, changes>>

Init ==
  /\ RentalsInit
  /\ phase = "dialling" /\ attempts = 0 /\ answer = "none"
  /\ local = "nil" /\ loop = "ended" /\ resync = FALSE /\ whole = FALSE /\ owed = FALSE

InSession == phase = "session"
Fault == faults < MaxFaults /\ faults' = faults + 1

(***************************************************************************)
(* Run, and the beginning of a session.                                    *)
(***************************************************************************)
\* The session is over: whatever it had open is closed, and a.local still points
\* to what was open.  Run waits and tries again, whatever the reason.
End ==
  /\ phase' = "waiting"
  /\ attempts' = IF attempts < MaxWait THEN attempts + 1 ELSE attempts
  /\ local' = IF local = "open" THEN "shut" ELSE local
  /\ loop' = "ended" /\ resync' = FALSE /\ whole' = FALSE /\ owed' = FALSE

Dial ==
  /\ phase = "dialling"
  /\ phase' = "proving"
  /\ UNCHANGED <<rentalVars, attempts, answer, local, loop, resync, whole, owed>>

\* The relay cannot be reached, or the connection breaks before it has answered.
DialFails ==
  /\ phase \in {"dialling", "proving"} /\ Fault
  /\ End
  /\ UNCHANGED <<others, answer>>

\* The relay is ready: the pumps and the watcher begin.
Ready ==
  /\ phase = "proving"
  /\ phase' = "session" /\ loop' = "dialling"
  /\ UNCHANGED <<rentalVars, attempts, answer, local, resync, whole, owed>>

\* The relay answers with an error frame: because it will not have this machine, or
\* because it is too busy to, as Relay's TurnAway, a token over the rate, a write
\* that failed or an authentication that came too late.  Run returns.
Refuse(why) ==
  /\ phase = "proving" /\ Fault
  /\ answer' = why
  /\ phase' = "gaveup"
  /\ UNCHANGED <<others, attempts, local, loop, resync, whole, owed>>

WaitOver ==
  /\ phase = "waiting"
  /\ phase' = "dialling"
  /\ UNCHANGED <<rentalVars, attempts, answer, local, loop, resync, whole, owed>>

(***************************************************************************)
(* localLoop and pumpUp.                                                   *)
(***************************************************************************)
LocalDial ==
  /\ InSession /\ loop = "dialling"
  /\ local' = "open" /\ loop' = "pumping" /\ whole' = TRUE
  /\ UNCHANGED <<rentalVars, phase, attempts, answer, resync, owed>>

\* The first message of a connection is the state, and it goes up.
PumpState ==
  /\ InSession /\ loop = "pumping" /\ whole
  /\ whole' = FALSE /\ owed' = FALSE
  /\ UNCHANGED <<rentalVars, phase, attempts, answer, local, loop, resync>>

\* A resync is taken: the connection is closed, and its pump has to unwind.
Resync ==
  /\ InSession /\ loop = "pumping" /\ resync
  /\ resync' = FALSE /\ local' = "shut" /\ loop' = "unwinding" /\ whole' = FALSE
  /\ UNCHANGED <<rentalVars, phase, attempts, answer, owed>>

Unwound ==
  /\ InSession /\ loop = "unwinding"
  /\ local' = "nil" /\ loop' = "dialling"
  /\ UNCHANGED <<rentalVars, phase, attempts, answer, resync, whole, owed>>

\* Mutant: the loop ends and nobody hears of it.
LoopEnds ==
  /\ InSession /\ loop \in {"dialling", "pumping"} /\ Fault
  /\ local' = "nil" /\ loop' = "ended"
  /\ UNCHANGED <<others, phase, attempts, answer, resync, whole, owed>>

\* The folding client goes away, or cannot be dialled: that ends the session.
ClientLost ==
  /\ InSession /\ loop \in {"dialling", "pumping"} /\ Fault
  /\ End
  /\ UNCHANGED <<others, answer>>

(***************************************************************************)
(* pumpDown.                                                               *)
(***************************************************************************)
RelayLost ==
  /\ InSession /\ Fault
  /\ End
  /\ UNCHANGED <<others, answer>>

\* Mutant: an agent that is connected to the client has nothing to dial.
AskUnlessConnected ==
  /\ InSession
  /\ owed' = TRUE
  /\ resync' = (resync \/ local # "open")
  /\ UNCHANGED <<rentalVars, phase, attempts, answer, local, loop, whole>>

\* A browser asks for the state.  Requests that wait in the channel are one; but it
\* is empty again while the connection closes, or is dialled, for an earlier one.
AskResync ==
  /\ InSession
  /\ owed' = TRUE
  /\ resync' = TRUE
  /\ UNCHANGED <<rentalVars, phase, attempts, answer, local, loop, whole>>

\* A command for the folding client meets a connection that was closed under it,
\* by a resync or with an earlier session: that ends this session.  With an open
\* one it is passed on, with none it is dropped.
CommandLost ==
  /\ InSession /\ local = "shut" /\ Fault
  /\ End
  /\ UNCHANGED <<others, answer>>

(***************************************************************************)
(* The process.                                                            *)
(***************************************************************************)
Restart ==
  /\ Fault
  /\ RentalsRestart
  /\ phase' = "dialling" /\ attempts' = 0 /\ answer' = "none"
  /\ local' = "nil" /\ loop' = "ended" /\ resync' = FALSE /\ whole' = FALSE /\ owed' = FALSE

Next ==
  \/ Dial \/ DialFails \/ Ready \/ Refuse("refused") \/ Refuse("busy") \/ WaitOver
  \/ LocalDial \/ PumpState \/ Resync \/ Unwound \/ ClientLost
  \/ RelayLost \/ AskResync \/ CommandLost \/ Restart
  \/ RentalsNext(InSession) /\ UNCHANGED agentVars

(***************************************************************************)
(* The program runs: each of its goroutines takes its next step in the     *)
(* end, a network call answers or fails, and the watcher's ticker ticks.   *)
(* Nothing is assumed of browsers, of commands or of failures, but by what *)
(* a property says of them.                                                *)
(***************************************************************************)
Step(A) == A /\ UNCHANGED agentVars
Fairness ==
  /\ WF_vars(Dial) /\ WF_vars(Ready) /\ WF_vars(WaitOver)
  /\ WF_vars(LocalDial) /\ WF_vars(PumpState) /\ WF_vars(Resync) /\ WF_vars(Unwound)
  /\ WF_vars(Step(InSession /\ Poll))
  /\ \A w \in Workers :
       WF_vars(Step(TryKey(w) \/ SetKey(w) \/ SaveKey(w) \/ Order(w) \/ Answer(w) \/ Write(w)
                    \/ Send(w, InSession)))

Spec == Init /\ [][Next]_vars
FairSpec == Spec /\ Fairness

(***************************************************************************)
(* Properties.                                                             *)
(***************************************************************************)
\* Whatever breaks (agent.go:144-223), the agent works again in the end or has
\* given up for good: no session stays that has lost one of its ends.
ComesBack ==
  <>[](phase = "gaveup" \/ (InSession /\ loop # "ended"))

\* A browser that asks for the state gets one that was sent after it asked
\* (agent.go:189-203, 264-296, 334-340), if the session lasts and browsers do not go
\* on asking for ever while one waits: each of them may have the connection closed
\* that was dialled for the one before, ahead of its state.
Again == owed /\ AskResync
ListenersGetTheState == <>[][~Again]_vars => (owed ~> ~owed)

\* In the end the page shows what Vast has for the key that is configured
\* (rentals.go:98-150, 180-190, 306-335), however refreshes and changes of the key
\* overlap; and its account, unless a refresh that began with an earlier key wrote the
\* account of that one after the change: nothing corrects it.
PageCatchesUp ==
  <>[](\/ phase = "gaveup" \/ key = None
       \/ /\ page.of = key /\ page.state = vast[key]
          /\ page.account = key \/ strayed)

\* "A refused enrolment is not a transient failure": only that ends Run.
GivesUpOnlyWhenRefused == phase = "gaveup" => answer = "refused"
=============================================================================
