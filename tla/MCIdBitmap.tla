----------------------------- MODULE MCIdBitmap -----------------------------
(* Words of four bits: one below DEFAULT_ID and two for ids.                 *)
EXTENDS IdBitmap, TLC
=============================================================================
