------------------------------ MODULE PlaneBytes ------------------------------
(***************************************************************************)
(* From a pixel of an image file to a byte of the client's file: the mock  *)
(* thread of src/mock_camera.cpp converts the image (Yuv420) and sends the *)
(* planes one after another (ChunkTransfer); V goes the way of U and is    *)
(* left out.                                                               *)
(***************************************************************************)
EXTENDS Integers

CONSTANTS
  ChunkSize,
  Sizes,       \* configured <<width, height>>
  ImageSizes   \* <<width, height>> of the image files

ASSUME SizeAssumption ==
  /\ Sizes \subseteq (Nat \ {0}) \X (Nat \ {0})
  /\ ImageSizes \subseteq (Nat \ {0}) \X (Nat \ {0})
ASSUME ChunkAssumption == ChunkSize \in Nat \ {0}

VARIABLES
  stage,                                                       \* planes sent
  width, height, pixels, cpc, x, y, yPlane, uPlane,            \* Yuv420
  tpc, plane, size, next, flying, rpc, mem, buffer, expected, count      \* ChunkTransfer

Yuv == INSTANCE Yuv420
Transfer == INSTANCE ChunkTransfer

yuvVars == <<width, height, pixels, cpc, x, y, yPlane, uPlane>>
transferVars == <<tpc, plane, size, next, flying, rpc, mem, buffer, expected, count>>
vars == <<stage, yuvVars, transferVars>>

Init ==
  /\ \E s \in Sizes, i \in ImageSizes :
       /\ width = s[1] /\ height = s[2]
       /\ pixels = i[1] * i[2]
  /\ stage = 0
  /\ Yuv!Init
  /\ Transfer!Init

ConvertImage ==
  /\ Yuv!Allocate \/ Yuv!Convert \/ Yuv!Stray
  /\ UNCHANGED <<stage, transferVars>>

Ready == cpc = "done" /\ tpc = "idle"

SendY ==
  /\ Ready /\ stage = 0
  /\ stage' = 1
  /\ Transfer!Send(yPlane, Yuv!YSize)
  /\ UNCHANGED yuvVars

\* The client has taken the first buffer by then, in this module.
SendU ==
  /\ Ready /\ stage = 1
  /\ rpc \in {"saved", "refused"}
  /\ stage' = 2
  /\ Transfer!Send(uPlane, Yuv!UvSize)
  /\ UNCHANGED yuvVars

TransferStep ==
  /\ \/ Transfer!Header \/ Transfer!SendChunk \/ Transfer!SendReturns
     \/ Transfer!Receive
  /\ UNCHANGED <<stage, yuvVars>>

Next == ConvertImage \/ SendY \/ SendU \/ TransferStep

Spec == Init /\ [][Next]_vars

\* The mock thread and the client run, chunks arrive.
FairSpec == Spec /\ WF_vars(Next)

----------------------------------------------------------------------------
(* Properties.                                                             *)

TypeOK ==
  /\ stage \in 0..2
  /\ x \in 0..width - 1 /\ y \in 0..height
  /\ cpc \in {"off", "convert", "done", "undefined"}
  /\ tpc \in {"idle", "header", "chunk"}
  /\ next \in 0..Transfer!TotalChunks
  /\ rpc \in {"header", "chunks", "saved", "refused"}
  /\ count \in 0..expected

Even == width % 2 = 0 /\ height % 2 = 0
Enough == pixels >= width * height

\* A conversion that comes to its end read no pixel past the image and wrote no
\* cell past a plane, and it does come to its end exactly for even sizes and an
\* image of at least as many pixels as are configured.  Nothing refuses the
\* others: odd sizes pass without a word, an image of another size with a
\* warning, and every access out of bounds is due to one of the two.
InBounds ==
  /\ cpc = "done" => Even /\ Enough
  /\ cpc = "undefined" => ~(Even /\ Enough)

\* Byte by byte, whatever the order in which the chunks arrive: the first file
\* saved holds pixel after pixel, the second one the top left pixel of every
\* block, row after row; and no chunk is refused.
PictureArrives ==
  /\ rpc # "refused"
  /\ rpc = "saved" /\ stage = 1 =>
       DOMAIN buffer = 0..width * height - 1 /\ \A k \in DOMAIN buffer : buffer[k] = k
  /\ rpc = "saved" /\ stage = 2 =>
       /\ DOMAIN buffer = 0..(width \div 2) * (height \div 2) - 1
       /\ \A i \in 0..width \div 2 - 1, j \in 0..height \div 2 - 1 :
            buffer[j * (width \div 2) + i] = 2 * j * width + 2 * i

\* A picture whose conversion is defined is converted, and both planes are sent
\* and saved: the number of chunks announced is the number sent, and none is
\* refused.  Of the other sizes nothing is claimed.
TransferEnds == Even /\ Enough => <>(stage = 2 /\ rpc = "saved")
=============================================================================
