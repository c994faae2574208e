----------------------------- MODULE MCTransfer -----------------------------
(* Small instances of Transfer for TLC. *)
EXTENDS Transfer

CONSTANTS o1, u1, nil

MCRow(o, b, u, e, k) ==
  [origin |-> o, bucket |-> b, uuid |-> u, edge |-> e, key |-> k]

(* One uuid in the first period, of which a part may be missing. *)
OnePeriodRows == {MCRow(o1, 0, u1, FALSE, 1), MCRow(o1, 0, u1, FALSE, 2)}

(* Two uuids in the first period, one of them uuid.Nil, and a row of the   *)
(* other one on the edge after it.                                         *)
EdgeRows == {MCRow(o1, 0, u1, FALSE, 1), MCRow(o1, 0, nil, FALSE, 2),
             MCRow(o1, 1, u1, TRUE, 1)}

=============================================================================
