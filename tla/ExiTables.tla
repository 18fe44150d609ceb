----------------------------- MODULE ExiTables ------------------------------
(***************************************************************************)
(* All types of the two schemas together: the choices that their content   *)
(* models prescribe, their tables, and what their init functions reset.    *)
(***************************************************************************)
EXTENDS DinDatatypes, DinDecoder, DinEncoder, AppHand, TLC

CcsTypes    == DinTypes @@ AppHandTypes
CcsDecoders == DinDecoders @@ AppHandDecoders
CcsEncoders == DinEncoders @@ AppHandEncoders
CcsInitSets == DinInit @@ AppHandInit

\* The choices at all places of each type.
CcsSchema == [t \in DOMAIN CcsTypes |-> Rows(CcsTypes[t])]
=============================================================================
