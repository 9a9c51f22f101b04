---------------------------- MODULE MCLazyFrames ----------------------------
(* Bounded values for the LazyFrames runs. *)
EXTENDS LazyFrames, MCColumnStore

LazyView == <<View, plans, groups, options, calls, panicked>>

MCNames   == {Unnamed, "column_0", "b"}
MCGiven   == {[name |-> "column_0", vals |-> <<0, 1>>]}
MCRow     == {[name |-> "column_0", vals |-> <<0>>]}
MCHolder  == LazyVar \cup GroupVar \cup Call
MCOptions == {{"noOptimization"}}
=============================================================================
