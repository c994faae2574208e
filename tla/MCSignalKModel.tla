--------------------------- MODULE MCSignalKModel ---------------------------
(* Small instances of SignalKModel for TLC. *)
EXTENDS SignalKModel, TLC

CONSTANTS speed, mmsi, name, number, a, b, q1, q2

MCEntry(p, t, v) == [path |-> p, time |-> t, value |-> v]

(* A number, and the two halves of a VesselInfo with different times. *)
MCStored ==
  {MCEntry(speed, 2, number :> a), MCEntry(Mmsi, 2, mmsi :> a), MCEntry(Name, 1, name :> a)}

(* A newer and an older number; a half of the VesselInfo that is newer. *)
MCUpdates ==
  {MCEntry(speed, 3, number :> b), MCEntry(speed, 1, number :> b),
   MCEntry(Root, 2, name :> b)}

(* The whole document, and the vessel's own properties. *)
MCAsked == q1 :> Paths @@ q2 :> {Root}

=============================================================================
