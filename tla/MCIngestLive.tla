---------------------------- MODULE MCIngestLive ----------------------------
(***************************************************************************)
(* One member of one team, three publishes, one request at a time: small   *)
(* enough for the liveness properties and the refinement.                  *)
(***************************************************************************)
EXTENDS Ingest

CONSTANTS ann, team, r1

MCTeamOf == [m \in {ann} |-> team]

File(S, n) == [e \in S |-> [c \in Counters |-> n]]

\* One team file at 1 serves the users of 4, but is too old for those of 5,
\* which wait for a team file of their own once those of 4 are applied.  The
\* payload of 4 may not read back, and must not block the one after it.
MCTeamFiles ==
  [t \in Times |-> CASE t = 1 -> {File(Teams, 1)}
                     [] t = 4 -> {}
                     [] t = 5 -> {File(Teams, 2)}]

MCUserFiles ==
  [t \in Times |-> CASE t = 1 -> {}
                     [] t = 4 -> {File(Members, 1), Corrupt}
                     [] t = 5 -> {File(Members, 2)}]
=============================================================================
