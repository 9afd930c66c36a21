------------------------------ MODULE Rentals ------------------------------
(***************************************************************************)
(* Rented machines as an agent sees them (internal/agent/rentals.go): the  *)
(* key of an account at Vast, what the account was last seen to rent, and  *)
(* the goroutines that ask for it: a watcher, and one for each command.    *)
(* Each asks outside the lock and writes what it was told under it, so     *)
(* that answers may be written in another order than they were given, and  *)
(* after the key was changed.                                              *)
(*                                                                         *)
(* An account rents one instance; Gone stands for none.                    *)
(***************************************************************************)
EXTENDS Naturals

CONSTANTS
  Keys,         \* the API keys, each of an account of its own
  None,
  Watch,        \* the watcher, among the goroutines
  Cmds,         \* the goroutines of commands
  MaxCommands,  \* bound: commands
  MaxChanges,   \* bound: evictions, and instances that run again by themselves
  MaxFaults     \* bound: calls, connections and processes that fail

Gone == "gone"
States == {"running", "booting", "stopped", "outbid", Gone}
Workers == Cmds \union {Watch}

ASSUME RentalsAssumption ==
  /\ None \notin Keys /\ Watch \notin Cmds
  /\ MaxCommands \in Nat /\ MaxChanges \in Nat /\ MaxFaults \in Nat

VARIABLES
  key,       \* Rentals.key
  file,      \* the key in the file
  listed,    \* what report shows: [of, state], the instances and whose they are, of
             \* None when there are none; and [account], None before it was asked for
  strayed,   \* history: that account was written for a key that had been replaced
  work,      \* where each goroutine is: [at, cmd, key, answer]
  page,      \* the last report that was sent
  vast,      \* what each account rents
  commands, changes, faults   \* bounds: how many so far

rentalVars == <<key, file, listed, strayed, work, page, vast, commands, changes, faults>>
view == <<key, file, listed, strayed>>

Nobody == [of |-> None, state |-> Gone, account |-> None]
AtRest == [at |-> "rest", cmd |-> "status", key |-> None, answer |-> Gone]

RentalsInit ==
  /\ key \in Keys \union {None} /\ file = key
  /\ listed = Nobody /\ strayed = FALSE
  /\ work = [w \in Workers |-> AtRest]
  /\ page = Nobody
  /\ vast = [k \in Keys |-> "running"]
  /\ commands = 0 /\ changes = 0 /\ faults = 0

(***************************************************************************)
(* Vast, outside the program.                                              *)
(***************************************************************************)
Change ==
  /\ changes < MaxChanges
  /\ changes' = changes + 1
  /\ \E k \in Keys :
       /\ vast[k] # Gone
       /\ vast' = [vast EXCEPT ![k] = IF @ = "outbid" THEN "running" ELSE "outbid"]
  /\ UNCHANGED <<view, work, page, commands, faults>>

(***************************************************************************)
(* The steps of a goroutine.                                               *)
(***************************************************************************)
Asks(w, c) ==
  IF key = None THEN work' = [work EXCEPT ![w] = [AtRest EXCEPT !.at = "report", !.cmd = c]]
  ELSE work' = [work EXCEPT ![w] = [AtRest EXCEPT !.at = "asked", !.cmd = c, !.key = key]]

\* A round of the watcher begins with a refresh, if there is a key.
Poll ==
  /\ work[Watch].at = "rest" /\ key # None
  /\ Asks(Watch, "watch")
  /\ UNCHANGED <<view, page, vast, commands, changes, faults>>

\* A command arrives: a report needs nothing, a new key is tried first, and an
\* instruction takes the client of the present key.
Command(w) ==
  /\ work[w].at = "rest" /\ commands < MaxCommands
  /\ commands' = commands + 1
  /\ \/ work' = [work EXCEPT ![w] = [AtRest EXCEPT !.at = "report"]]
     \/ \E k \in Keys : work' = [work EXCEPT ![w] =
          [AtRest EXCEPT !.at = "try", !.cmd = "configure", !.key = k]]
     \/ work' = [work EXCEPT ![w] = [AtRest EXCEPT !.at = "set", !.cmd = "configure"]]
     \/ \E c \in {"bid", "start", "stop", "destroy"} :
          /\ key # None
          /\ work' = [work EXCEPT ![w] = [AtRest EXCEPT !.at = "order", !.cmd = c, !.key = key]]
  /\ UNCHANGED <<view, page, vast, changes, faults>>

\* Vast knows the key.
TryKey(w) ==
  /\ work[w].at = "try"
  /\ work' = [work EXCEPT ![w].at = "set"]
  /\ UNCHANGED <<view, page, vast, commands, changes, faults>>

\* setKey, under the lock: what was known of the old account is dropped.
SetKey(w) ==
  /\ work[w].at = "set"
  /\ key' = work[w].key
  /\ listed' = Nobody /\ strayed' = FALSE
  /\ work' = [work EXCEPT ![w].at = "save"]
  /\ UNCHANGED <<file, page, vast, commands, changes, faults>>

\* setKey, after it: the file, then a refresh with the key there is by then.
SaveKey(w) ==
  /\ work[w].at = "save"
  /\ file' = work[w].key
  /\ Asks(w, "configure")
  /\ UNCHANGED <<key, listed, strayed, page, vast, commands, changes, faults>>

\* What Vast does of an instruction; a raised bid is followed by a start, whose
\* refusal is not an error.
Obeyed(c, s) ==
  IF s = Gone THEN {Gone}
  ELSE CASE c = "bid" -> {s, "running"}
         [] c = "start" -> {s, "booting"}
         [] c = "stop" -> {"stopped"}
         [] c = "destroy" -> {Gone}

Order(w) ==
  /\ work[w].at = "order"
  /\ \E s \in Obeyed(work[w].cmd, vast[work[w].key]) : vast' = [vast EXCEPT ![work[w].key] = s]
  /\ Asks(w, work[w].cmd)
  /\ UNCHANGED <<view, page, commands, changes, faults>>

\* A call fails: the error is the answer, and what was listed stays.  A refresh
\* that fails is followed by its report all the same.
CallFails(w) ==
  /\ work[w].at \in {"try", "order", "asked", "save"} /\ faults < MaxFaults
  /\ faults' = faults + 1
  /\ work' = [work EXCEPT ![w] = IF @.at = "asked" THEN [@ EXCEPT !.at = "report"] ELSE AtRest]
  /\ UNCHANGED <<view, page, vast, commands, changes>>

\* Vast answers a listing.
Answer(w) ==
  /\ work[w].at = "asked"
  /\ work' = [work EXCEPT ![w].at = "told", ![w].answer = vast[work[w].key]]
  /\ UNCHANGED <<view, page, vast, commands, changes, faults>>

\* refresh, under the lock: the answer replaces what was listed, whatever the key
\* is by now; and an account that is not known yet is asked for, with the same client.
Write(w) ==
  /\ work[w].at = "told"
  /\ work' = [work EXCEPT ![w].at = "report"]
  /\ \E a \in IF listed.account # None THEN {listed.account} ELSE {work[w].key, None} :
       /\ listed' = [of |-> work[w].key, state |-> work[w].answer, account |-> a]
       /\ IF a # None THEN faults' = faults ELSE faults < MaxFaults /\ faults' = faults + 1
       /\ strayed' = (strayed \/ (listed.account = None /\ a \notin {None, key}))
  /\ UNCHANGED <<key, file, page, vast, commands, changes>>

\* Mutant: the watcher compares whose instances they are, and not how they are.
NewsOfTheAccount == listed.of # page.of

\* The watcher sends a report that differs from the last it made.  There is the time
\* of the refresh in it, so that it always does.
News == TRUE

\* The report is sent, if the session is on.
Send(w, on) ==
  /\ work[w].at = "report"
  /\ page' = IF on /\ (w = Watch => News) THEN listed ELSE page
  /\ work' = [work EXCEPT ![w] = AtRest]
  /\ UNCHANGED <<view, vast, commands, changes, faults>>

\* The process ends and starts again: the key is read from the file.
RentalsRestart ==
  /\ key' = file /\ listed' = Nobody /\ strayed' = FALSE
  /\ work' = [w \in Workers |-> AtRest]
  /\ UNCHANGED <<file, page, vast, commands, changes>>

RentalsNext(on) ==
  \/ Change \/ (on /\ Poll)
  \/ \E w \in Cmds : on /\ Command(w)
  \/ \E w \in Workers :
       \/ TryKey(w) \/ SetKey(w) \/ SaveKey(w) \/ Order(w) \/ CallFails(w)
       \/ Answer(w) \/ Write(w) \/ Send(w, on)
=============================================================================
