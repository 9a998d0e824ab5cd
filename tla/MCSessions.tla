----------------------------- MODULE MCSessions -----------------------------
(***************************************************************************)
(* Small instance of Sessions for TLC: two calls, the fewest that overlap, *)
(* and four tokens, so that a token can be exchanged by both calls and     *)
(* there is one left for a third exchange of it, or there can be a second  *)
(* login beside a renewal of the first session.                            *)
(***************************************************************************)
EXTENDS Sessions
=============================================================================
