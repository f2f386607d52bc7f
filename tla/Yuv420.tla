-------------------------------- MODULE Yuv420 --------------------------------
(***************************************************************************)
(* The conversion of an image file to the planes of a frame in             *)
(* src/mock_camera.cpp: allocation by the configured size, and the loop    *)
(* over the pixels, which writes each to Y and the top left one of every   *)
(* 2x2 block to U and V.  The value of a cell is the number of the pixel it*)
(* was computed from; V is written where U is and is left out.             *)
(*                                                                         *)
(* The width and height are those of the configuration, whatever the file  *)
(* has: `pixels' is how many there are to read.  An access out of bounds is*)
(* where the model of a conversion ends.                                   *)
(***************************************************************************)
EXTENDS Integers

VARIABLES
  width, height,   \* config.width, config.height
  pixels,          \* img_w * img_h
  cpc,             \* "off", "convert", "done", "undefined"
  x, y,            \* the loop variables
  yPlane, uPlane   \* the vectors

sizeVars == <<width, height, pixels>>
yuvVars == <<sizeVars, cpc, x, y, yPlane, uPlane>>

Blank == -1

YSize == width * height
UvSize == (width \div 2) * (height \div 2)

Cells(n) == [k \in 0..n - 1 |-> Blank]

Init ==
  /\ cpc = "off"
  /\ x = 0 /\ y = 0
  /\ yPlane = <<>> /\ uPlane = <<>>

Allocate ==
  /\ cpc = "off"
  /\ cpc' = "convert"
  /\ yPlane' = Cells(YSize)
  /\ uPlane' = Cells(UvSize)
  /\ UNCHANGED <<sizeVars, x, y>>

Pixel == y * width + x

\* Mutant: the rows of U as long as those of Y.
ChromaIndex_FullWidth == (y \div 2) * width + x \div 2

ChromaIndex == (y \div 2) * (width \div 2) + x \div 2

Sampled == y % 2 = 0 /\ x % 2 = 0

Advance ==
  IF x + 1 < width
  THEN x' = x + 1 /\ UNCHANGED <<y, cpc>>
  ELSE /\ x' = 0
       /\ y' = y + 1
       /\ cpc' = IF y + 1 < height THEN "convert" ELSE "done"

\* Nothing tests an index: a pixel past the end of the image is read, a cell
\* past the end of U is written.
OutOfBounds ==
  \/ Pixel >= pixels
  \/ Sampled /\ ChromaIndex \notin DOMAIN uPlane

Convert ==
  /\ cpc = "convert" /\ ~OutOfBounds
  /\ yPlane' = [yPlane EXCEPT ![Pixel] = Pixel]
  /\ uPlane' = IF Sampled THEN [uPlane EXCEPT ![ChromaIndex] = Pixel] ELSE uPlane
  /\ Advance
  /\ UNCHANGED sizeVars

\* From such an access on the program may do anything: crash, as an image of one
\* pixel makes it do, or go on.  The model says nothing of what comes after it.
Stray ==
  /\ cpc = "convert" /\ OutOfBounds
  /\ cpc' = "undefined"
  /\ UNCHANGED <<sizeVars, x, y, yPlane, uPlane>>
=============================================================================
