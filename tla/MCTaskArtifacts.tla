--------------------------- MODULE MCTaskArtifacts ---------------------------
(***************************************************************************)
(* Instances of TaskArtifacts: three pollers of one enhancement task, and  *)
(* two pollers of a Seedance and of an audio separation task that poll     *)
(* again and again while artifacts and rows expire.  The pollers of the    *)
(* second instance, which checks invariants only, are interchangeable.     *)
(***************************************************************************)
EXTENDS TaskArtifacts, TLC

CONSTANTS p1, p2, p3, enhance, seedance, audio, first, second

FlightPollers == {p1, p2, p3}
FlightTasks == {enhance}
FlightProtocolOf == enhance :> "flight"
FlightOutputsOf == enhance :> <<first>>

PollPollers == {p1, p2}
PollSymmetry == Permutations(PollPollers)
\* Data files without metadata are never read, nor swept: states that differ
\* in them only are one.
PollView == <<lockVars, now, data \cap meta, meta, cache, memo, pollVars, late, polls>>
PollTasks == {seedance, audio}
PollProtocolOf == seedance :> "whole" @@ audio :> "tracks"
PollOutputsOf == seedance :> <<first, second>> @@ audio :> <<first, second>>
=============================================================================
