------------------------------- MODULE MCMiner -------------------------------
(* Miner with the default slot timeout (10 s) and block interval (3 s);   *)
(* the cfgs choose the number of deputies and whether sealing can fail.   *)
(* Three Start/Stop calls (Start, Stop, Start again) and two peer blocks  *)
(* let every pair of the loop's and the user's steps meet.                 *)
EXTENDS Miner
=============================================================================
