------------------------------ MODULE MCIngest ------------------------------
(***************************************************************************)
(* A small corpus: two members of a team, one of them first seen in the    *)
(* second publish, four hours with the third team file missing.            *)
(***************************************************************************)
EXTENDS Ingest

CONSTANTS ann, bob, team, r1, r2

MCTeamOf == [m \in {ann, bob} |-> team]

Of1(n) == [c \in Counters |-> n]

Team(n) == [t \in Teams |-> Of1(n)]

User(a, b) == [m \in Members |-> IF m = ann THEN a ELSE b]

\* bob joins at 2 and moves with the team; ann does not move at 4.
MCTeamFiles ==
  [t \in Times |-> CASE t = 1 -> {Team(1)}
                     [] t = 2 -> {Team(3), Team(-1)}
                     [] t = 4 -> {Team(4)}]

MCUserFiles ==
  [t \in Times |-> CASE t = 1 -> {User(Of1(1), Absent)}
                     [] t = 2 -> {User(Of1(2), Of1(1)), User(Of1(5), Of1(1))}
                     [] t = 4 -> {User(Of1(2), Of1(2))}]
=============================================================================
