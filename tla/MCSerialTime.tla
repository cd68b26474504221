---------------------------- MODULE MCSerialTime ----------------------------
(* Instance of SequenceWrap and SatelliteAges for TLC.  They share the word and   *)
(* nothing else: behaviours of the one and behaviours of the other.               *)
EXTENDS SequenceWrap, SatelliteAges

SerialInit == WrapInit /\ AgesInit

WrapOnly == AgesInit /\ WrapNext /\ UNCHANGED agesVars
AgesOnly == WrapInit /\ AgesNext /\ UNCHANGED wrapVars

SerialSpec == SerialInit /\ [][WrapOnly \/ AgesOnly]_<<wrapVars, agesVars>>
=============================================================================
