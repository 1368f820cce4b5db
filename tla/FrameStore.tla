----------------------------- MODULE FrameStore -----------------------------
(***************************************************************************)
(* What one camera's pipeline promises, threads, buffers and locks left    *)
(* out: frames are captured in the order of their exposures and written to *)
(* files in that order, each at most once and none that was not captured.  *)
(* It does not promise that a captured frame is ever written.              *)
(***************************************************************************)
EXTENDS Integers, Sequences

CONSTANT Frames   (* the exposures there are, numbered in the order taken    *)

VARIABLES
  pending,   (* captured exposures not yet written, oldest first             *)
  stored     (* exposures written, in the order they were written            *)

Known == {pending[i] : i \in DOMAIN pending} \cup {stored[i] : i \in DOMAIN stored}

Init == pending = <<>> /\ stored = <<>>

(* A new frame comes from a later exposure than every earlier frame.         *)
Capture(f) ==
  /\ \A g \in Known : g < f
  /\ pending' = Append(pending, f)
  /\ UNCHANGED stored

Store ==
  /\ pending # <<>>
  /\ stored' = Append(stored, Head(pending))
  /\ pending' = Tail(pending)

Spec == Init /\ [][Store \/ \E f \in Frames : Capture(f)]_<<pending, stored>>

=============================================================================
