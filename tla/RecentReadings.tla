--------------------------- MODULE RecentReadings ---------------------------
(***************************************************************************)
(* What the accelerometer program of the board promises: the text it has   *)
(* last written holds the most recent readings, oldest first, at most      *)
(* Capacity of them.  TxAccelerometer implements it with the ring of       *)
(* queue.c.                                                                *)
(***************************************************************************)
EXTENDS Integers, Sequences

CONSTANTS
  Capacity,      (* how many readings are kept                               *)
  Readings       (* what a reading may be                                    *)

VARIABLE recent  (* the readings kept, oldest first                          *)

RecentInit == recent = <<>>

Keep(r) ==
  recent' = Append(IF Len(recent) = Capacity THEN Tail(recent) ELSE recent, r)

RecentNext == \E r \in Readings : Keep(r)

RecentSpec == RecentInit /\ [][RecentNext]_recent

=============================================================================
