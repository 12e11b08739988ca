---------------------------- MODULE MCL2Conn ----------------------------
(* Instances of L2Conn for TLC.                                           *)
EXTENDS L2Conn, TLC

CONSTANTS g1, g2, g3,   \* goroutines
          x, y          \* values
=============================================================================
