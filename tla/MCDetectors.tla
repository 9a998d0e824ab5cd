---------------------------- MODULE MCDetectors -----------------------------
(***************************************************************************)
(* Small instance of Detectors for TLC: one bar of confirmation to each    *)
(* side, so that swings alternate within a few bars, small steps both ways,*)
(* a wide bar each way and one that only pierces.                          *)
(***************************************************************************)
EXTENDS Detectors

Move(by, up, down) == [by |-> by, up |-> up, down |-> down]

MCMoves == {Move(3, 1, 0), Move(-2, 0, 2), Move(8, 0, 0), Move(-8, 0, 0), Move(-1, 2, 0)}
=============================================================================
