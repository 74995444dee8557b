---------------------------- MODULE SyncRecorder ----------------------------
(***************************************************************************)
(* What the time-synchronisation recorder of the board promises, without   *)
(* sockets, threads or a ring buffer: it listens to beacons and keeps the  *)
(* last NumReadings timestamps, oldest first; when a timestamp reaches the *)
(* deadline it stops listening and uploads; after the upload it listens    *)
(* again with the next deadline.  BeaconSync implements it.                *)
(***************************************************************************)
EXTENDS Integers, Sequences

CONSTANTS
  NumReadings,   (* NUM_READINGS: how many timestamps are kept               *)
  SendInterval,  (* send_interval: milliseconds between two deadlines        *)
  TsPerMs,       (* timestamp units in a millisecond                         *)
  TsMod,         (* timestamps are in 0..TsMod-1: uint32_t                   *)
  Unset          (* what a slot holds that was never written                 *)

VARIABLES
  mode,          (* listening, uploading, stopped                            *)
  window,        (* the last NumReadings timestamps, oldest first            *)
  due            (* the deadline in milliseconds, 0 before the first beacon  *)

recorderVars == <<mode, window, due>>

Timestamps == 0..(TsMod - 1)
Ms(ts)     == ts \div TsPerMs

\* The first deadline is the next multiple of SendInterval.
Deadline(d, ts) ==
  IF d = 0 THEN SendInterval + (Ms(ts) - (Ms(ts) % SendInterval)) ELSE d

RecorderInit ==
  /\ mode = "listening"
  /\ window = [i \in 1..NumReadings |-> Unset]
  /\ due = 0

\* A new timestamp pushes the oldest one out.
Record(ts) ==
  /\ mode = "listening"
  /\ ts # window[NumReadings]
  /\ window' = Append(Tail(window), ts)
  /\ due' = Deadline(due, ts)
  /\ mode' = IF Ms(ts) >= due' THEN "uploading" ELSE "listening"

Resume ==
  /\ mode = "uploading"
  /\ mode' = "listening"
  /\ due' = due + SendInterval
  /\ UNCHANGED window

Stop == mode' = "stopped" /\ UNCHANGED <<window, due>>

RecorderNext == (\E ts \in Timestamps : Record(ts)) \/ Resume \/ Stop

RecorderSpec == RecorderInit /\ [][RecorderNext]_recorderVars

=============================================================================
