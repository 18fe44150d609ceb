---------------------------- MODULE MCExiCodec -----------------------------
(***************************************************************************)
(* The codec with the tables of the two schemas.  TLC computes a           *)
(* definition once, but what a constant stands for wherever it is used:    *)
(* hence the names here.  The LETs keep its statistics from following the  *)
(* tables at each of these uses.                                           *)
(***************************************************************************)
EXTENDS ExiAgreement, ExiTables

MCSchema   == LET schema == CcsSchema IN schema
MCDecoders == LET tables == CcsDecoders IN tables
MCEncoders == LET tables == CcsEncoders IN tables
MCInitSets == LET resets == CcsInitSets IN resets
=============================================================================
