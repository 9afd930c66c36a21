------------------------------ MODULE MCRelay ------------------------------
(***************************************************************************)
(* A small instance of Relay for TLC.                                      *)
(***************************************************************************)
EXTENDS Relay, TLC

CONSTANTS o1, t1, t2

\* The owner has signed two tokens, and they expire one after the other.
MCTokenOwner == t1 :> o1 @@ t2 :> o1
MCTokenExp == t1 :> 1 @@ t2 :> 2

\* The machines' connections are interchangeable.
MCSymmetry == Permutations(AgentConns)
=============================================================================
