----------------------------- MODULE MCArchive -----------------------------
(***************************************************************************)
(* Small instances of Archive for TLC.                                     *)
(***************************************************************************)
EXTENDS Archive

MCUser == <<"user">>
MCBoth == <<"team", "user">>
MCAhead == {0, 3}
MCWaits == {1}
MCAnyWait == {0, 1}
=============================================================================
