----------------------------- MODULE MCPairing ------------------------------
(* Model values for TLC.                                                   *)
EXTENDS Pairing

LowerLayers == AllLayers \ {"Appl"}
NoneLate == {}
SlacLate == {"SlacParamCnf"}
NoRestart == {0}
ShortRestart == {0, 3}
LongRestart == {0, 46, 66}  \* 0, 7, 10 s in units of five cycles (homeplug.ino:709)
=============================================================================
