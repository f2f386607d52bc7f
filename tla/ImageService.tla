----------------------------- MODULE ImageService -----------------------------
(***************************************************************************)
(* What a camera owes the OBC, whichever thread provides the frames: an    *)
(* image is begun only for a request not taken before, one image at a      *)
(* time, and its planes are sent one by one, never more than it has.       *)
(* SimpleCam.tla (saveData) and MockCamera.tla (mock_thread_loop) implement*)
(* this module.                                                            *)
(***************************************************************************)
EXTENDS Integers

CONSTANT Planes   \* planes of an image

VARIABLES
  asked,   \* image requests received
  taken,   \* image requests a frame was found for
  stage    \* planes sent of the image under way, or NoImage

serviceVars == <<asked, taken, stage>>

NoImage == -1

Init ==
  /\ asked = 0
  /\ taken = 0
  /\ stage = NoImage

Ask ==
  /\ asked' = asked + 1
  /\ UNCHANGED <<taken, stage>>

Accept ==
  /\ stage = NoImage
  /\ taken < asked
  /\ taken' = taken + 1
  /\ stage' = 0
  /\ UNCHANGED asked

SendPlane ==
  /\ stage \in 0..Planes - 1
  /\ stage' = stage + 1
  /\ UNCHANGED <<asked, taken>>

\* All planes are sent, or the image is given up.
End ==
  /\ stage # NoImage
  /\ stage' = NoImage
  /\ UNCHANGED <<asked, taken>>

Next == Ask \/ Accept \/ SendPlane \/ End

Spec == Init /\ [][Next]_serviceVars
=============================================================================
