----------------------------- MODULE MCRainCache -----------------------------
(***************************************************************************)
(* Small instances of RainCache: the calls and the fresh window take one   *)
(* unit of time, the retention two.                                        *)
(***************************************************************************)
EXTENDS RainCache

CONSTANTS r1, r2, nothing, degraded, absurd
=============================================================================
