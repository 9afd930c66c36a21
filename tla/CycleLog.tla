------------------------------ MODULE CycleLog ------------------------------
(***************************************************************************)
(* What the collector promises to whoever reads its API: one log of        *)
(* cycles, each with the totals as of a publish time, that only grows at   *)
(* its end; a view, which is the newest cycle at the time it was made, or  *)
(* none; and answers that give a whole cycle, the one in view.             *)
(***************************************************************************)
EXTENDS Integers

CONSTANTS
  Times,     \* publish times
  Tables,    \* the totals that a cycle may carry
  Empty,     \* the totals before the first cycle
  Readers,
  NoCycle,   \* log entry of a time that has no cycle
  NoView,    \* nothing is served
  NoAnswer   \* a reader that was never answered

VARIABLES log, view, answers

vars == <<log, view, answers>>

Logged == {t \in Times : log[t] # NoCycle}

Newest(t) == t \in Logged /\ \A s \in Logged : s <= t

Init ==
  /\ log = [t \in Times |-> NoCycle]
  /\ view = NoView
  /\ answers = [r \in Readers |-> NoAnswer]

\* A cycle newer than every one in the log.
Append ==
  \E t \in Times :
    /\ \A s \in Logged : s < t
    /\ log'[t] \in Tables
    /\ log' = [log EXCEPT ![t] = log'[t]]
    /\ UNCHANGED <<view, answers>>

Publish ==
  /\ \/ Newest(view')
     \/ Logged = {} /\ view' = 0
  /\ UNCHANGED <<log, answers>>

\* A crash, or a commit that failed.
Withdraw ==
  /\ view' = NoView
  /\ UNCHANGED <<log, answers>>

Reply(r) ==
  /\ view # NoView
  /\ answers' = [answers EXCEPT ![r] =
                   [at |-> view, totals |-> IF view = 0 THEN Empty ELSE log[view]]]
  /\ UNCHANGED <<log, view>>

Next == Append \/ Publish \/ Withdraw \/ \E r \in Readers : Reply(r)

Spec == Init /\ [][Next]_vars
=============================================================================
