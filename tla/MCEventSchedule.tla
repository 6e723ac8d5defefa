-------------------------- MODULE MCEventSchedule ---------------------------
(* Two channels, so that a series begins and ends with different reserves.  *)
EXTENDS EventSchedule, TLC

MCChannels == <<1, 2>>

Alike == Permutations(Forcers) \cup Permutations(Stoppers)
=============================================================================
