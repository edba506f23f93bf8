------------------------------ MODULE MCBoard -------------------------------
(* An instance of Board.  The sensor values cover both signs, a high byte  *)
(* that is zero and one that is not; the hit bit of the configuration is   *)
(* the sign of the temperature.                                            *)
EXTENDS Board

MCSensorValues == {<<652, 351>>, <<0, -400>>}
=============================================================================
