------------------------------ MODULE MockCamera ------------------------------
(***************************************************************************)
(* The thread of src/mock_camera.cpp, which answers image requests from a  *)
(* directory of image files when there is no camera: it polls send_count,  *)
(* loads the next file and sends its three planes one after another.  The  *)
(* files are used in turn, whether they can be loaded or not.              *)
(***************************************************************************)
EXTENDS Integers

CONSTANTS
  ImageCount,   \* image files in mock_image_dir
  Planes        \* planes of an image: Y, U and V

VARIABLES
  sendCount,   \* send_count
  mpc,         \* where the thread is in mock_thread_loop
  image,       \* current_image_idx
  stage,       \* planes of the image that were sent
  asked,       \* history: image requests counted
  taken        \* history: image requests taken

mockVars == <<sendCount, mpc, image, stage, asked, taken>>

Init ==
  /\ sendCount = 0
  /\ mpc = "scan"
  /\ image = 0
  /\ stage = 0
  /\ asked = 0
  /\ taken = 0

Goto(from, to) == mpc = from /\ mpc' = to

\* send_count++ by the listener, under send_count_mutex.
CountRequest ==
  /\ sendCount' = sendCount + 1
  /\ asked' = asked + 1
  /\ UNCHANGED <<mpc, image, stage, taken>>

Scan ==
  /\ Goto("scan", IF ImageCount = 0 THEN "ended" ELSE "poll")
  /\ UNCHANGED <<sendCount, image, stage, asked, taken>>

\* Mutant: the request is not taken off the count.
Poll_NotCounted ==
  /\ sendCount > 0
  /\ Goto("poll", "load")
  /\ taken' = taken + 1
  /\ UNCHANGED <<sendCount, image, stage, asked>>

Poll ==
  /\ sendCount > 0
  /\ Goto("poll", "load")
  /\ sendCount' = sendCount - 1
  /\ taken' = taken + 1
  /\ UNCHANGED <<image, stage, asked>>

NextImage == image' = (image + 1) % ImageCount

\* The request is used up although nothing is sent for it.
LoadFails ==
  /\ Goto("load", "poll")
  /\ NextImage
  /\ UNCHANGED <<sendCount, stage, asked, taken>>

Load ==
  /\ Goto("load", "call")
  /\ stage' = 0
  /\ UNCHANGED <<sendCount, image, asked, taken>>

\* send_image is called for the next plane; its result is not looked at.
CallSend ==
  /\ stage < Planes
  /\ Goto("call", "sending")
  /\ UNCHANGED <<sendCount, image, stage, asked, taken>>

SendReturns ==
  /\ Goto("sending", "call")
  /\ stage' = stage + 1
  /\ UNCHANGED <<sendCount, image, asked, taken>>

\* Mutant: the thread goes on with the same file.
ImageSent_SameFile ==
  /\ stage = Planes
  /\ Goto("call", "poll")
  /\ stage' = 0
  /\ UNCHANGED <<sendCount, image, asked, taken>>

ImageSent ==
  /\ stage = Planes
  /\ Goto("call", "poll")
  /\ NextImage
  /\ stage' = 0
  /\ UNCHANGED <<sendCount, asked, taken>>
=============================================================================
