--------------------------- MODULE PlaneBytesProofs ---------------------------
(***************************************************************************)
(* The conversion stays in bounds, and the picture arrives byte by byte,   *)
(* for images and chunks of every size and chunks in every order.          *)
(***************************************************************************)
EXTENDS PlaneBytes, IndexArithmetic, FiniteSetTheorems, TLAPS

----------------------------------------------------------------------------
(* The conversion.                                                         *)

YuvTypes ==
  /\ width \in Nat \ {0} /\ height \in Nat \ {0} /\ pixels \in Nat
  /\ cpc \in {"off", "convert", "done", "undefined"}
  /\ x \in 0..width - 1 /\ y \in 0..height
  /\ cpc = "off" => x = 0 /\ y = 0
  /\ cpc = "convert" => y < height
  /\ cpc = "done" => y = height /\ x = 0
  /\ cpc # "off" => /\ yPlane \in [0..Yuv!YSize - 1 -> Int]
                    /\ uPlane \in [0..Yuv!UvSize - 1 -> Int]

\* The pixels before the loop variables are converted.
YFilled == \A k \in 0..Yuv!YSize - 1 : k < y * width + x => yPlane[k] = k

UFilled ==
  Even =>
    \A i \in 0..width \div 2 - 1, j \in 0..height \div 2 - 1 :
      2 * j < y \/ (2 * j = y /\ 2 * i < x)
        => uPlane[j * (width \div 2) + i] = 2 * j * width + 2 * i

\* They were read inside the image, and those sampled were written inside U.
Inside ==
  /\ y * width + x <= pixels
  /\ \A i \in 0..width - 1, j \in 0..height - 1 :
       (j < y \/ (j = y /\ i < x)) /\ i % 2 = 0 /\ j % 2 = 0
         => (j \div 2) * (width \div 2) + i \div 2 < (width \div 2) * (height \div 2)

YuvInv ==
  /\ YuvTypes
  /\ cpc # "off" => YFilled /\ UFilled
  /\ Inside
  /\ InBounds

LEMMA AllocateYuv ==
  ASSUME YuvInv, Yuv!Allocate
  PROVE  YuvInv'
<1> USE DEF Yuv!Allocate, Yuv!sizeVars, Yuv!YSize, Yuv!UvSize
<1>1. YuvTypes'
  <2>1. Yuv!Cells(width * height) \in [0..width * height - 1 -> Int]
    BY DEF Yuv!Cells, Yuv!Blank
  <2>2. Yuv!Cells((width \div 2) * (height \div 2))
          \in [0..(width \div 2) * (height \div 2) - 1 -> Int]
    BY DEF Yuv!Cells, Yuv!Blank
  <2> QED
    BY <2>1, <2>2 DEF YuvInv, YuvTypes
<1>2. x = 0 /\ y = 0 /\ width \in Nat /\ height \in Nat
  BY DEF YuvInv, YuvTypes
<1>3. YFilled'
  <2>1. y' * width' + x' = 0
    BY <1>2
  <2> QED
    BY <2>1 DEF YFilled
<1>4. UFilled'
  BY <1>2 DEF UFilled
<1>5. InBounds'
  BY DEF InBounds
<1>6. Inside'
  BY DEF YuvInv, Inside
<1> QED
  BY <1>1, <1>3, <1>4, <1>5, <1>6 DEF YuvInv

\* A sampled pixel has its cell in U when the sizes are even.
LEMMA CellOfSample ==
  ASSUME YuvTypes, y < height, Even, Yuv!Sampled
  PROVE  /\ x = 2 * (x \div 2) /\ y = 2 * (y \div 2)
         /\ x \div 2 \in 0..width \div 2 - 1 /\ y \div 2 \in 0..height \div 2 - 1
         /\ Yuv!ChromaIndex \in 0..(width \div 2) * (height \div 2) - 1
<1>1. /\ width \in Nat \ {0} /\ height \in Nat \ {0}
      /\ x \in 0..width - 1 /\ y \in 0..height - 1
  BY DEF YuvTypes
<1>2. /\ x = 2 * (x \div 2) /\ y = 2 * (y \div 2)
      /\ x \div 2 \in 0..width \div 2 - 1 /\ y \div 2 \in 0..height \div 2 - 1
  BY <1>1 DEF Even, Yuv!Sampled
<1>3. width \div 2 \in Nat /\ height \div 2 \in Nat
  BY <1>1
<1> QED
  BY <1>2, <1>3, IndexInside DEF Yuv!ChromaIndex

\* With an odd width the last sample of the last sampled row has no cell, with
\* an odd height the first sample of the last row has none.
LEMMA AllSampledIsEven ==
  ASSUME NEW W \in Nat \ {0}, NEW H \in Nat \ {0},
         \A i \in 0..W - 1, j \in 0..H - 1 :
           i % 2 = 0 /\ j % 2 = 0
             => (j \div 2) * (W \div 2) + i \div 2 < (W \div 2) * (H \div 2)
  PROVE  W % 2 = 0 /\ H % 2 = 0
<1> DEFINE w == W \div 2
           h == H \div 2
<1>1. w \in Nat /\ h \in Nat /\ w * h \in Nat
  OBVIOUS
<1>2. W % 2 = 0
  <2> SUFFICES ASSUME W % 2 # 0 PROVE FALSE
    OBVIOUS
  <2> DEFINE r == (H - 1) \div 2
  <2>1. /\ W - 1 \in 0..W - 1 /\ (W - 1) % 2 = 0 /\ (W - 1) \div 2 = w
        /\ r \in Nat /\ 2 * r \in 0..H - 1 /\ (2 * r) % 2 = 0 /\ (2 * r) \div 2 = r
        /\ h <= r + 1
    OBVIOUS
  <2>2. r * w + w < w * h
    BY <2>1
  <2> HIDE DEF r, w, h
  <2>3. h * w <= (r + 1) * w
    BY <1>1, <2>1, MulMonotone
  <2>4. (r + 1) * w = r * w + w /\ h * w = w * h /\ r * w \in Nat
    BY <1>1, <2>1
  <2> QED
    BY <1>1, <2>2, <2>3, <2>4
<1>3. H % 2 = 0
  <2> SUFFICES ASSUME H % 2 # 0 PROVE FALSE
    OBVIOUS
  <2>1. /\ H - 1 \in 0..H - 1 /\ (H - 1) % 2 = 0 /\ (H - 1) \div 2 = h
        /\ 0 \in 0..W - 1 /\ 0 % 2 = 0 /\ 0 \div 2 = 0
    OBVIOUS
  <2>2. h * w + 0 < w * h
    BY <2>1
  <2> HIDE DEF w, h
  <2>3. h * w = w * h
    BY <1>1
  <2> QED
    BY <1>1, <2>2, <2>3
<1> QED
  BY <1>2, <1>3

LEMMA ConvertYuv ==
  ASSUME YuvInv, Yuv!Convert
  PROVE  YuvInv'
<1> USE DEF Yuv!YSize, Yuv!UvSize
<1>1. /\ width \in Nat \ {0} /\ height \in Nat \ {0} /\ pixels \in Nat
      /\ x \in 0..width - 1 /\ y \in 0..height - 1
      /\ yPlane \in [0..width * height - 1 -> Int]
      /\ uPlane \in [0..(width \div 2) * (height \div 2) - 1 -> Int]
      /\ YFilled /\ UFilled /\ Inside
  BY DEF YuvInv, YuvTypes, Yuv!Convert
<1>2. UNCHANGED <<width, height, pixels>>
  BY DEF Yuv!Convert, Yuv!sizeVars
<1>3. y * width + x \in 0..width * height - 1
  BY <1>1, IndexInside
<1>4. y * width \in Nat /\ width * height \in Nat
  BY <1>1
<1>5. /\ x' \in 0..width - 1 /\ y' \in 0..height
      /\ cpc' \in {"convert", "done"}
      /\ cpc' = "convert" => y' < height
      /\ cpc' = "done" => y' = height /\ x' = 0
  BY <1>1 DEF Yuv!Convert, Yuv!Advance
<1>6. y' * width + x' = y * width + x + 1
  <2>1. CASE x + 1 < width
    BY <1>1, <1>4, <2>1 DEF Yuv!Convert, Yuv!Advance
  <2>2. CASE ~(x + 1 < width)
    <3>1. x' = 0 /\ y' = y + 1 /\ x + 1 = width
      BY <1>1, <2>2 DEF Yuv!Convert, Yuv!Advance
    <3>2. (y + 1) * width = y * width + width
      BY <1>1
    <3> QED
      BY <1>1, <1>4, <3>1, <3>2
  <2> QED
    BY <2>1, <2>2
<1>7. YFilled'
  <2>1. yPlane' = [yPlane EXCEPT ![y * width + x] = y * width + x]
    BY DEF Yuv!Convert, Yuv!Pixel
  <2> SUFFICES ASSUME NEW k \in 0..width * height - 1, k < y * width + x + 1
               PROVE  yPlane'[k] = k
    BY <1>2, <1>6 DEF YFilled
  <2>2. CASE k = y * width + x
    BY <1>1, <1>3, <2>1, <2>2
  <2>3. CASE k # y * width + x
    <3>1. k < y * width + x
      BY <1>1, <1>4, <2>3
    <3> QED
      BY <1>1, <2>1, <2>3, <3>1 DEF YFilled
  <2> QED
    BY <2>2, <2>3
<1>8. yPlane' \in [0..width * height - 1 -> Int]
  BY <1>1, <1>3 DEF Yuv!Convert, Yuv!Pixel
<1>9. uPlane' \in [0..(width \div 2) * (height \div 2) - 1 -> Int]
  <2>1. y * width + x \in Int
    BY <1>3
  <2>2. CASE Yuv!Sampled
    <3>1. uPlane' = [uPlane EXCEPT ![Yuv!ChromaIndex] = y * width + x]
      BY <2>2 DEF Yuv!Convert, Yuv!Pixel
    <3> QED
      BY <1>1, <2>1, <3>1
  <2>3. CASE ~Yuv!Sampled
    BY <1>1, <2>3 DEF Yuv!Convert
  <2> QED
    BY <2>2, <2>3
<1>10. ASSUME Even, Yuv!Sampled
       PROVE  /\ x = 2 * (x \div 2) /\ y = 2 * (y \div 2)
              /\ x \div 2 \in 0..width \div 2 - 1 /\ y \div 2 \in 0..height \div 2 - 1
              /\ Yuv!ChromaIndex \in 0..(width \div 2) * (height \div 2) - 1
  BY <1>1, <1>10, CellOfSample DEF YuvInv
<1>11. UFilled'
  <2> SUFFICES ASSUME Even,
                      NEW i \in 0..width \div 2 - 1, NEW j \in 0..height \div 2 - 1,
                      2 * j < y' \/ (2 * j = y' /\ 2 * i < x')
               PROVE  uPlane'[j * (width \div 2) + i] = 2 * j * width + 2 * i
    BY <1>2 DEF UFilled, Even
  <2> DEFINE w == width \div 2
             n == j * w + i
  <2>1. w \in Nat /\ n \in 0..w * (height \div 2) - 1
    <3>1. width \div 2 \in Nat /\ height \div 2 \in Nat
      BY <1>1
    <3> QED
      BY <3>1, IndexInside
  <2>2. CASE Yuv!Sampled /\ 2 * j = y /\ 2 * i = x
    <3>1. j = y \div 2 /\ i = x \div 2
      BY <1>1, <2>2
    <3>2. Yuv!ChromaIndex = n
      BY <3>1 DEF Yuv!ChromaIndex
    <3>3. uPlane'[n] = y * width + x
      BY <1>1, <1>10, <2>1, <2>2, <3>2 DEF Yuv!Convert, Yuv!Pixel
    <3> QED
      BY <2>2, <3>3
  <2>3. CASE ~(Yuv!Sampled /\ 2 * j = y /\ 2 * i = x)
    <3>1. 2 * j < y \/ (2 * j = y /\ 2 * i < x)
      <4>1. \/ x + 1 < width /\ x' = x + 1 /\ y' = y
            \/ x + 1 = width /\ x' = 0 /\ y' = y + 1
        BY <1>1 DEF Yuv!Convert, Yuv!Advance
      <4>2. width % 2 = 0
        BY DEF Even
      <4>3. ~(2 * j = y /\ 2 * i = x)
        BY <1>1, <2>3 DEF Yuv!Sampled
      <4> QED
        BY <1>1, <4>1, <4>2, <4>3
    <3>2. uPlane[n] = 2 * j * width + 2 * i
      BY <1>1, <3>1 DEF UFilled
    <3>3. uPlane'[n] = uPlane[n]
      <4>1. CASE Yuv!Sampled
        <5>1. Yuv!ChromaIndex # n
          <6> SUFFICES ASSUME Yuv!ChromaIndex = n PROVE FALSE
            OBVIOUS
          <6>1. i = x \div 2 /\ j = y \div 2
            <7> DEFINE k == x \div 2
                       l == y \div 2
            <7>1. j * w + i = l * w + k
              BY DEF Yuv!ChromaIndex
            <7>2. w \in Nat /\ i \in 0..w - 1 /\ j \in Nat /\ k \in 0..w - 1 /\ l \in Nat
              BY <1>10, <2>1, <4>1
            <7> HIDE DEF k, l, n, w
            <7>3. i = k /\ j = l
              BY <7>1, <7>2, IndexUnique
            <7> QED
              BY <7>3 DEF k, l
          <6> QED
            BY <1>10, <2>3, <4>1, <6>1
        <5> QED
          BY <1>1, <2>1, <4>1, <5>1 DEF Yuv!Convert
      <4>2. CASE ~Yuv!Sampled
        BY <4>2 DEF Yuv!Convert
      <4> QED
        BY <4>1, <4>2
    <3> QED
      BY <3>2, <3>3
  <2> QED
    BY <2>2, <2>3
<1>12. Inside'
  <2>1. y' * width + x' <= pixels
    BY <1>1, <1>3, <1>4, <1>6 DEF Yuv!Convert, Yuv!OutOfBounds, Yuv!Pixel
  <2> SUFFICES ASSUME NEW i \in 0..width - 1, NEW j \in 0..height - 1,
                      j < y' \/ (j = y' /\ i < x'), i % 2 = 0, j % 2 = 0
               PROVE  (j \div 2) * (width \div 2) + i \div 2 < (width \div 2) * (height \div 2)
    BY <1>2, <2>1 DEF Inside
  <2>2. CASE j < y \/ (j = y /\ i < x)
    BY <1>1, <2>2 DEF Inside
  <2>3. CASE ~(j < y \/ (j = y /\ i < x))
    <3>1. i = x /\ j = y
      <4>1. \/ x + 1 < width /\ x' = x + 1 /\ y' = y
            \/ x + 1 = width /\ x' = 0 /\ y' = y + 1
        BY <1>1 DEF Yuv!Convert, Yuv!Advance
      <4>2. x \in 0..width - 1 /\ y \in Nat /\ width \in Nat
        BY <1>1
      <4>3. ~(j < y) /\ ~(j = y /\ i < x) /\ (j < y' \/ (j = y' /\ i < x'))
        BY <2>3
      <4>4. CASE x' = x + 1 /\ y' = y
        BY <4>2, <4>3, <4>4
      <4>5. CASE x + 1 = width /\ x' = 0 /\ y' = y + 1
        BY <4>2, <4>3, <4>5
      <4> QED
        BY <4>1, <4>4, <4>5
    <3>2. Yuv!ChromaIndex \in 0..(width \div 2) * (height \div 2) - 1
      BY <1>1, <3>1 DEF Yuv!Convert, Yuv!OutOfBounds, Yuv!Sampled
    <3>3. (width \div 2) * (height \div 2) \in Nat
      BY <1>1
    <3> QED
      BY <3>1, <3>2, <3>3 DEF Yuv!ChromaIndex
  <2> QED
    BY <2>2, <2>3
<1>13. YuvTypes'
  BY <1>1, <1>2, <1>5, <1>8, <1>9 DEF YuvTypes
<1>14. InBounds'
  <2>1. cpc' # "undefined"
    BY <1>5
  <2>2. ASSUME cpc' = "done" PROVE Even' /\ Enough'
    <3>1. y' = height' /\ x' = 0
      BY <1>2, <1>5, <2>2
    <3>2. Even'
      <4>1. \A i \in 0..width - 1, j \in 0..height - 1 :
              i % 2 = 0 /\ j % 2 = 0
                => (j \div 2) * (width \div 2) + i \div 2 < (width \div 2) * (height \div 2)
        <5> SUFFICES ASSUME NEW i \in 0..width - 1, NEW j \in 0..height - 1,
                            i % 2 = 0, j % 2 = 0
                     PROVE  (j \div 2) * (width \div 2) + i \div 2
                              < (width \div 2) * (height \div 2)
          OBVIOUS
        <5>1. j < y'
          BY <1>1, <1>2, <3>1
        <5>2. width' = width /\ height' = height
          BY <1>2
        <5>3. (j \div 2) * (width' \div 2) + i \div 2 < (width' \div 2) * (height' \div 2)
          BY <1>12, <5>1, <5>2, Zenon DEF Inside
        <5> QED
          BY <5>2, <5>3
      <4>2. width % 2 = 0 /\ height % 2 = 0
        BY <1>1, <4>1, AllSampledIsEven
      <4> QED
        BY <1>2, <4>2 DEF Even
    <3>3. height * width = width * height
      BY <1>1
    <3> QED
      BY <1>1, <1>2, <1>4, <1>12, <3>1, <3>2, <3>3 DEF Inside, Enough
  <2> QED
    BY <2>1, <2>2 DEF InBounds
<1> QED
  BY <1>5, <1>7, <1>11, <1>12, <1>13, <1>14 DEF YuvInv

LEMMA StrayYuv ==
  ASSUME YuvInv, Yuv!Stray
  PROVE  YuvInv'
<1> USE DEF Yuv!YSize, Yuv!UvSize
<1>1. /\ UNCHANGED <<width, height, pixels, x, y, yPlane, uPlane>>
      /\ cpc = "convert" /\ cpc' = "undefined" /\ y < height
  BY DEF YuvInv, YuvTypes, Yuv!Stray, Yuv!sizeVars
<1>2. YuvTypes'
  BY <1>1 DEF YuvInv, YuvTypes
<1>3. YFilled' /\ UFilled' /\ Inside'
  BY <1>1 DEF YuvInv, YFilled, UFilled, Inside, Even
<1>4. ~(Even /\ Enough)
  <2> SUFFICES ASSUME Even, Enough PROVE FALSE
    OBVIOUS
  <2>1. /\ width \in Nat \ {0} /\ height \in Nat \ {0} /\ pixels \in Nat
        /\ x \in 0..width - 1 /\ y \in 0..height - 1
        /\ uPlane \in [0..(width \div 2) * (height \div 2) - 1 -> Int]
    BY <1>1 DEF YuvInv, YuvTypes
  <2>2. y * width + x \in 0..width * height - 1
    BY <2>1, IndexInside
  <2>3. ~(Yuv!Pixel >= pixels)
    <3>1. width * height \in Nat
      BY <2>1
    <3> QED
      BY <2>1, <2>2, <3>1 DEF Enough, Yuv!Pixel
  <2>4. Yuv!Sampled => Yuv!ChromaIndex \in DOMAIN uPlane
    BY <1>1, <2>1, CellOfSample DEF YuvInv
  <2> QED
    BY <2>3, <2>4 DEF Yuv!Stray, Yuv!OutOfBounds
<1>5. InBounds'
  BY <1>1, <1>4 DEF InBounds, Even, Enough
<1> QED
  BY <1>2, <1>3, <1>5 DEF YuvInv

----------------------------------------------------------------------------
(* The transfer.                                                           *)

Total == Transfer!TotalChunks

TransferTypes ==
  /\ stage \in 0..2
  /\ tpc \in {"idle", "header", "chunk"}
  /\ size \in Nat
  /\ next \in 0..Total
  /\ rpc \in {"header", "chunks", "saved"}
  /\ count \in 0..expected

\* What is being sent.
Source ==
  /\ stage = 0 => tpc = "idle" /\ rpc = "header"
  /\ stage > 0 => cpc = "done"
  /\ stage = 1 => plane = yPlane /\ size = Yuv!YSize
  /\ stage = 2 => plane = uPlane /\ size = Yuv!UvSize

\* Before the header the receiver has nothing; no chunk is on its way.
Before ==
  stage > 0 =>
    /\ rpc = "header" <=> tpc = "header"
    /\ rpc = "header" => next = 0 /\ flying = {}

\* The chunks on their way are some of those sent, the others were counted.
Counted ==
  rpc # "header" =>
    /\ mem = size /\ expected = Total
    /\ IsFiniteSet(flying)
    /\ \A c \in flying : \E i \in 0..next - 1 : c = Transfer!Chunk(i)
    /\ count + Cardinality(flying) = next
    /\ rpc = "saved" => next = Total /\ flying = {}
    /\ rpc = "chunks" => count < expected

\* A byte is in the buffer, or in a chunk that is on its way or to be sent.
Landed ==
  rpc # "header" =>
    /\ buffer \in [0..size - 1 -> Int]
    /\ \A k \in 0..size - 1 :
         \/ buffer[k] = plane[k]
         \/ Transfer!Chunk(k \div ChunkSize) \in flying
         \/ next <= k \div ChunkSize

TransferInv == TransferTypes /\ Source /\ Before /\ Counted /\ Landed

IInv == YuvInv /\ TransferInv

LEMMA TotalIsNat ==
  ASSUME NEW n \in Nat
  PROVE  (n + ChunkSize - 1) \div ChunkSize \in Nat
<1>1. n + ChunkSize - 1 \in Nat
  BY ChunkAssumption
<1> QED
  BY <1>1, ChunkAssumption, Division

\* What is sent is a plane of numbers.
LEMMA PlaneIsBytes ==
  ASSUME YuvInv, Source, stage \in {1, 2}
  PROVE  plane \in [0..size - 1 -> Int]
BY DEF YuvInv, YuvTypes, Source

----------------------------------------------------------------------------

LEMMA InitIInv == Init => IInv
<1> SUFFICES ASSUME Init PROVE IInv
  OBVIOUS
<1>1. PICK s \in Sizes, f \in ImageSizes :
        width = s[1] /\ height = s[2] /\ pixels = f[1] * f[2]
  BY DEF Init
<1>2. width \in Nat \ {0} /\ height \in Nat \ {0}
  BY <1>1, SizeAssumption
<1>3. f[1] \in Nat /\ f[2] \in Nat
  BY SizeAssumption
<1>4. pixels \in Nat
  BY <1>1, <1>3
<1>5. YuvInv
  <2>1. cpc = "off" /\ x = 0 /\ y = 0
    BY DEF Init, Yuv!Init
  <2>2. 0 \in 0..width - 1 /\ 0 \in 0..height
    BY <1>2
  <2>3. Inside
    <3>1. y * width + x = 0
      BY <1>2, <2>1
    <3>2. \A i \in 0..width - 1, j \in 0..height - 1 : ~(j < y \/ (j = y /\ i < x))
      BY <2>1
    <3> QED
      BY <1>4, <3>1, <3>2 DEF Inside
  <2>4. YuvTypes
    BY <1>2, <1>4, <2>1, <2>2, Zenon DEF YuvTypes
  <2> QED
    BY <2>1, <2>3, <2>4 DEF YuvInv, InBounds
<1>6. TransferInv
  <2>1. count \in 0..expected /\ Total \in Nat
    BY TotalIsNat DEF Init, Transfer!Init, Total, Transfer!TotalChunks
  <2> QED
    BY <2>1 DEF Init, Transfer!Init, TransferInv, TransferTypes, Source, Before,
                Counted, Landed
<1> QED
  BY <1>5, <1>6 DEF IInv

LEMMA ConvertImageIInv ==
  ASSUME IInv, ConvertImage
  PROVE  IInv'
<1>1. YuvInv'
  BY AllocateYuv, ConvertYuv, StrayYuv DEF IInv, ConvertImage
<1>2. stage = 0 /\ rpc = "header" /\ UNCHANGED <<stage, transferVars>>
  BY DEF IInv, TransferInv, TransferTypes, Source, ConvertImage, Yuv!Allocate, Yuv!Convert,
         Yuv!Stray
<1>3. UNCHANGED <<tpc, size, next, rpc, count, expected, Total>>
  BY <1>2 DEF transferVars, Total, Transfer!TotalChunks
<1>4. TransferTypes' /\ Source'
  BY <1>2, <1>3 DEF IInv, TransferInv, TransferTypes, Source
<1>5. Before' /\ Counted' /\ Landed'
  BY <1>2, <1>3 DEF Before, Counted, Landed
<1>6. TransferInv'
  BY <1>4, <1>5 DEF TransferInv
<1> QED
  BY <1>1, <1>6 DEF IInv

LEMMA KeepsYuv ==
  ASSUME YuvInv, UNCHANGED yuvVars
  PROVE  YuvInv'
BY DEF YuvInv, YuvTypes, YFilled, UFilled, Inside, InBounds, Even, Enough, yuvVars,
       Yuv!YSize, Yuv!UvSize

LEMMA SendIInv ==
  ASSUME IInv, SendY \/ SendU
  PROVE  IInv'
<1>1. YuvInv'
  BY KeepsYuv DEF IInv, SendY, SendU
<1>2. /\ size' \in Nat /\ next' = 0 /\ flying' = {} /\ rpc' = "header" /\ tpc' = "header"
      /\ UNCHANGED <<count, expected>>
      /\ stage' \in {1, 2} /\ cpc' = "done"
      /\ stage' = 1 => plane' = yPlane' /\ size' = Yuv!YSize'
      /\ stage' = 2 => plane' = uPlane' /\ size' = Yuv!UvSize'
  <2>1. width \div 2 \in Nat /\ height \div 2 \in Nat /\ width \in Nat /\ height \in Nat
    BY DEF IInv, YuvInv, YuvTypes
  <2>2. Yuv!YSize \in Nat /\ Yuv!UvSize \in Nat
    BY <2>1 DEF Yuv!YSize, Yuv!UvSize
  <2> QED
    BY <2>2 DEF SendY, SendU, Transfer!Send, Ready, yuvVars, Yuv!YSize, Yuv!UvSize
<1>3. Total' \in Nat
  BY <1>2, TotalIsNat DEF Total, Transfer!TotalChunks
<1>4. TransferInv'
  BY <1>2, <1>3 DEF IInv, TransferInv, TransferTypes, Source, Before, Counted, Landed
<1> QED
  BY <1>1, <1>4 DEF IInv

LEMMA ChunkNumber ==
  ASSUME NEW i
  PROVE  Transfer!Chunk(i).num = i
BY DEF Transfer!Chunk

LEMMA HeaderIInv ==
  ASSUME IInv, Transfer!Header, UNCHANGED <<stage, yuvVars>>
  PROVE  IInv'
<1>1. YuvInv'
  BY KeepsYuv DEF IInv
<1>2. /\ stage \in {1, 2} /\ rpc = "header" /\ next = 0 /\ flying = {}
      /\ size \in Nat /\ Source
  BY DEF IInv, TransferInv, TransferTypes, Source, Before, Transfer!Header
<1>3. Total \in Nat
  BY <1>2, TotalIsNat DEF Total, Transfer!TotalChunks
<1>4. /\ UNCHANGED <<plane, size, next, flying, Total>>
      /\ tpc' = "chunk" /\ expected' = Total /\ mem' = size /\ count' = 0
      /\ rpc' = IF Total = 0 THEN "saved" ELSE "chunks"
      /\ buffer' = [k \in 0..size - 1 |-> Transfer!Zero]
  BY DEF Transfer!Header, Total, Transfer!TotalChunks
<1>5. TransferTypes'
  BY <1>2, <1>3, <1>4 DEF TransferTypes
<1>6. Source' /\ Before'
  BY <1>2, <1>4 DEF Source, Before, yuvVars, Yuv!YSize, Yuv!UvSize
<1>7. Counted'
  <2>1. IsFiniteSet({}) /\ Cardinality({}) = 0
    BY FS_EmptySet
  <2> QED
    BY <1>2, <1>3, <1>4, <2>1 DEF Counted
<1>8. Landed'
  <2>1. \A k \in 0..size - 1 : 0 <= k \div ChunkSize
    BY <1>2, Division, ChunkAssumption
  <2> QED
    BY <1>2, <1>4, <2>1 DEF Landed, Transfer!Zero
<1> QED
  BY <1>1, <1>5, <1>6, <1>7, <1>8 DEF IInv, TransferInv

LEMMA SendReturnsIInv ==
  ASSUME IInv, Transfer!SendReturns, UNCHANGED <<stage, yuvVars>>
  PROVE  IInv'
<1>1. YuvInv'
  BY KeepsYuv DEF IInv
<1>2. /\ UNCHANGED <<plane, size, next, flying, rpc, mem, buffer, expected, count, Total>>
      /\ UNCHANGED <<Transfer!TotalChunks>>
      /\ tpc = "chunk" /\ tpc' = "idle"
  BY DEF Transfer!SendReturns, Transfer!receiverVars, Total, Transfer!TotalChunks
<1>3. TransferTypes'
  BY <1>2 DEF IInv, TransferInv, TransferTypes
<1>4. Source' /\ Before'
  BY <1>2 DEF IInv, TransferInv, Source, Before, yuvVars, Yuv!YSize, Yuv!UvSize
<1>5. Counted' /\ Landed'
  BY <1>2 DEF IInv, TransferInv, Counted, Landed, Transfer!Chunk, Transfer!DataSize
<1> QED
  BY <1>1, <1>3, <1>4, <1>5 DEF IInv, TransferInv

LEMMA SendChunkIInv ==
  ASSUME IInv, Transfer!SendChunk, UNCHANGED <<stage, yuvVars>>
  PROVE  IInv'
<1>1. YuvInv'
  BY KeepsYuv DEF IInv
<1>2. /\ UNCHANGED <<tpc, plane, size, rpc, mem, buffer, expected, count, Total>>
      /\ tpc = "chunk" /\ next < Total
      /\ next' = next + 1 /\ flying' = flying \cup {Transfer!Chunk(next)}
  BY DEF Transfer!SendChunk, Transfer!receiverVars, Total, Transfer!TotalChunks
<1>3. /\ stage \in {1, 2} /\ rpc \in {"chunks", "saved"} /\ next \in Nat /\ Total \in Nat
      /\ count \in Nat /\ expected \in Nat /\ size \in Nat
  <2>1. Total \in Nat
    BY TotalIsNat DEF IInv, TransferInv, TransferTypes, Total, Transfer!TotalChunks
  <2>2. expected = Total
    BY <1>2 DEF IInv, TransferInv, TransferTypes, Source, Before, Counted
  <2> QED
    BY <1>2, <2>1, <2>2 DEF IInv, TransferInv, TransferTypes, Source, Before
<1>4. Counted /\ Landed
  BY DEF IInv, TransferInv
<1>5. \A i : UNCHANGED Transfer!Chunk(i)
  BY <1>2 DEF Transfer!Chunk, Transfer!DataSize
<1>6. TransferTypes'
  BY <1>2, <1>3 DEF IInv, TransferInv, TransferTypes
<1>7. Source' /\ Before'
  BY <1>2, <1>3 DEF IInv, TransferInv, Source, Before, yuvVars, Yuv!YSize, Yuv!UvSize
<1>8. Counted'
  <2>1. Transfer!Chunk(next) \notin flying
    <3> SUFFICES ASSUME Transfer!Chunk(next) \in flying PROVE FALSE
      OBVIOUS
    <3>1. PICK i \in 0..next - 1 : Transfer!Chunk(next) = Transfer!Chunk(i)
      BY <1>3, <1>4 DEF Counted
    <3>2. next = i
      BY <3>1, ChunkNumber
    <3> QED
      BY <1>3, <3>2
  <2>2. IsFiniteSet(flying') /\ Cardinality(flying') = Cardinality(flying) + 1
    BY <1>2, <1>3, <1>4, <2>1, FS_AddElement DEF Counted
  <2>3. Cardinality(flying) \in Nat
    BY <1>3, <1>4, FS_CardinalityType DEF Counted
  <2>4. \A c \in flying' : \E i \in 0..next' - 1 : c = Transfer!Chunk(i)'
    <3> SUFFICES ASSUME NEW c \in flying' PROVE \E i \in 0..next : c = Transfer!Chunk(i)
      BY <1>2, <1>3, <1>5
    <3>1. CASE c = Transfer!Chunk(next)
      BY <1>3, <3>1
    <3>2. CASE c \in flying
      BY <1>3, <1>4, <3>2 DEF Counted
    <3> QED
      BY <1>2, <3>1, <3>2
  <2>5. rpc = "chunks"
    BY <1>2, <1>3, <1>4 DEF Counted
  <2> QED
    BY <1>2, <1>3, <1>4, <2>2, <2>3, <2>4, <2>5 DEF Counted
<1>9. Landed'
  <2> SUFFICES ASSUME NEW k \in 0..size - 1
               PROVE  \/ buffer[k] = plane[k]
                      \/ Transfer!Chunk(k \div ChunkSize) \in flying'
                      \/ next + 1 <= k \div ChunkSize
    BY <1>2, <1>3, <1>4, <1>5 DEF Landed
  <2>1. k \div ChunkSize \in Nat
    BY <1>3, Division, ChunkAssumption
  <2>2. CASE k \div ChunkSize = next
    BY <1>2, <2>2
  <2>3. CASE k \div ChunkSize # next
    BY <1>2, <1>3, <1>4, <2>1, <2>3 DEF Landed
  <2> QED
    BY <2>2, <2>3
<1> QED
  BY <1>1, <1>6, <1>7, <1>8, <1>9 DEF IInv, TransferInv

LEMMA ReceiveIInv ==
  ASSUME IInv, Transfer!Receive, UNCHANGED <<stage, yuvVars>>
  PROVE  IInv'
<1>1. YuvInv'
  BY KeepsYuv DEF IInv
<1>2. PICK c \in flying :
        /\ rpc = "chunks"
        /\ flying' = flying \ {c}
        /\ IF Transfer!Fits(c)
           THEN /\ buffer' = Transfer!Copied(c)
                /\ count' = count + 1
                /\ rpc' = IF count + 1 = expected THEN "saved" ELSE "chunks"
           ELSE /\ rpc' = "refused"
                /\ UNCHANGED <<buffer, count>>
        /\ UNCHANGED <<Transfer!senderVars, mem, expected>>
  BY DEF Transfer!Receive
<1>3. /\ UNCHANGED <<tpc, plane, size, next, mem, expected, Total>>
      /\ stage \in {1, 2} /\ size \in Nat /\ next \in Nat /\ tpc # "header"
      /\ Counted /\ Landed /\ Source
      /\ plane \in [0..size - 1 -> Int]
  <2>1. stage \in {1, 2}
    BY <1>2 DEF IInv, TransferInv, TransferTypes, Source
  <2>2. tpc # "header"
    BY <1>2, <2>1 DEF IInv, TransferInv, Before
  <2> QED
    BY <1>2, <2>1, <2>2, PlaneIsBytes
       DEF IInv, TransferInv, TransferTypes, Transfer!senderVars, Total, Transfer!TotalChunks
<1>4. /\ mem = size /\ expected = Total /\ IsFiniteSet(flying)
      /\ count + Cardinality(flying) = next /\ count < expected
      /\ buffer \in [0..size - 1 -> Int]
  BY <1>2, <1>3 DEF Counted, Landed
<1>5. /\ Total \in Nat /\ next <= Total /\ count \in Nat
  <2>1. Total \in Nat
    BY <1>3, TotalIsNat DEF Total, Transfer!TotalChunks
  <2> QED
    BY <1>4, <2>1 DEF IInv, TransferInv, TransferTypes
<1>6. PICK i \in 0..next - 1 : c = Transfer!Chunk(i)
  BY <1>2, <1>3 DEF Counted
<1> DEFINE o == i * ChunkSize
<1>7. o \in Nat
  BY <1>3, <1>6, ChunkAssumption
<1>8. /\ c.num = i /\ c.len = Transfer!DataSize(i)
      /\ c.bytes = [k \in 0..Transfer!DataSize(i) - 1 |-> plane[o + k]]
      /\ Transfer!Offset(c.num) = o
  BY <1>6 DEF Transfer!Chunk, Transfer!Offset
<1>9. c.len = IF size - o < ChunkSize THEN size - o ELSE ChunkSize
  BY <1>8 DEF Transfer!DataSize
<1> HIDE DEF o
<1>10. Transfer!Fits(c)
  BY <1>3, <1>4, <1>7, <1>8, <1>9, ChunkAssumption DEF Transfer!Fits
<1>11. /\ buffer' = Transfer!Copied(c) /\ count' = count + 1
       /\ rpc' = IF count + 1 = expected THEN "saved" ELSE "chunks"
  BY <1>2, <1>10
<1>12. \A k \in 0..size - 1 :
         buffer'[k] = IF k - o \in 0..c.len - 1 THEN plane[k] ELSE buffer[k]
  <2> SUFFICES ASSUME NEW k \in 0..size - 1
               PROVE  buffer'[k] = IF k - o \in 0..c.len - 1 THEN plane[k] ELSE buffer[k]
    OBVIOUS
  <2>1. buffer'[k] = IF k - o \in 0..c.len - 1 THEN c.bytes[k - o] ELSE buffer[k]
    BY <1>4, <1>8, <1>11 DEF Transfer!Copied
  <2>2. ASSUME k - o \in 0..c.len - 1 PROVE c.bytes[k - o] = plane[k]
    <3>1. c.bytes[k - o] = plane[o + (k - o)]
      BY <1>8, <2>2
    <3>2. o + (k - o) = k
      BY <1>7
    <3> QED
      BY <3>1, <3>2
  <2> QED
    BY <2>1, <2>2
<1>13. buffer' \in [0..size - 1 -> Int]
  <2>1. buffer' = [k \in 0..size - 1 |-> buffer'[k]]
    BY <1>4, <1>11 DEF Transfer!Copied
  <2>2. \A k \in 0..size - 1 : buffer'[k] \in Int
    BY <1>3, <1>4, <1>12
  <2> QED
    BY <2>1, <2>2
<1>14. \A j : UNCHANGED Transfer!Chunk(j)
  BY <1>3 DEF Transfer!Chunk, Transfer!DataSize
<1>15. TransferTypes'
  BY <1>3, <1>4, <1>5, <1>11 DEF IInv, TransferInv, TransferTypes
<1>16. Source' /\ Before'
  BY <1>2, <1>3, <1>11 DEF IInv, TransferInv, Source, Before, yuvVars, Yuv!YSize, Yuv!UvSize
<1>17. Counted'
  <2>1. IsFiniteSet(flying') /\ Cardinality(flying') = Cardinality(flying) - 1
    BY <1>2, <1>4, FS_RemoveElement
  <2>2. Cardinality(flying) \in Nat /\ Cardinality(flying') \in Nat
    BY <1>4, <2>1, FS_CardinalityType
  <2>3. \A d \in flying' : \E j \in 0..next - 1 : d = Transfer!Chunk(j)'
    BY <1>2, <1>3, <1>14 DEF Counted
  <2>4. count' + Cardinality(flying') = next
    BY <1>3, <1>4, <1>5, <1>11, <2>1, <2>2
  <2>5. ASSUME rpc' = "saved" PROVE next = Total /\ flying' = {}
    <3>1. count' = Total
      BY <1>4, <1>5, <1>11, <2>5
    <3>2. Cardinality(flying') = 0 /\ next = Total
      BY <1>3, <1>5, <2>2, <2>4, <3>1
    <3> QED
      BY <2>1, <3>2, FS_EmptySet
  <2>6. rpc' = "chunks" => count' < expected
    BY <1>4, <1>5, <1>11
  <2> QED
    BY <1>3, <1>4, <2>1, <2>3, <2>4, <2>5, <2>6 DEF Counted
<1>18. Landed'
  <2> SUFFICES ASSUME NEW k \in 0..size - 1
               PROVE  \/ buffer'[k] = plane[k]
                      \/ Transfer!Chunk(k \div ChunkSize) \in flying'
                      \/ next <= k \div ChunkSize
    BY <1>3, <1>13, <1>14 DEF Landed
  <2>1. CASE k \div ChunkSize = i
    <3>1. k - o \in 0..ChunkSize - 1 /\ k - o < size - o
      BY <1>3, <2>1, ChunkOfByte, ChunkAssumption DEF o
    <3>2. k - o \in 0..c.len - 1
      BY <1>3, <1>7, <1>9, <3>1, ChunkAssumption
    <3> QED
      BY <1>12, <3>2
  <2>2. CASE k \div ChunkSize # i
    <3>1. Transfer!Chunk(k \div ChunkSize) # c
      BY <1>8, <2>2, ChunkNumber
    <3> QED
      BY <1>2, <1>3, <1>12, <3>1 DEF Landed
  <2> QED
    BY <2>1, <2>2
<1> QED
  BY <1>1, <1>15, <1>16, <1>17, <1>18 DEF IInv, TransferInv

----------------------------------------------------------------------------

LEMMA StepIInv == IInv /\ [Next]_vars => IInv'
<1> SUFFICES ASSUME IInv, [Next]_vars PROVE IInv'
  OBVIOUS
<1>1. CASE ConvertImage
  BY <1>1, ConvertImageIInv
<1>2. CASE SendY \/ SendU
  BY <1>2, SendIInv
<1>3. CASE TransferStep
  BY <1>3, HeaderIInv, SendChunkIInv, SendReturnsIInv, ReceiveIInv DEF TransferStep
<1>4. CASE UNCHANGED vars
  <2>1. YuvInv'
    BY <1>4, KeepsYuv DEF IInv, vars
  <2>2. TransferInv'
    <3>1. UNCHANGED <<stage, yuvVars, transferVars, Total>> /\ \A j : UNCHANGED Transfer!Chunk(j)
      BY <1>4 DEF vars, transferVars, Total, Transfer!TotalChunks, Transfer!Chunk, Transfer!DataSize
    <3>2. TransferTypes' /\ Source' /\ Before'
      BY <3>1 DEF IInv, TransferInv, TransferTypes, Source, Before, yuvVars, transferVars,
                  Yuv!YSize, Yuv!UvSize
    <3>3. Counted' /\ Landed'
      BY <3>1 DEF IInv, TransferInv, Counted, Landed, transferVars
    <3> QED
      BY <3>2, <3>3 DEF TransferInv
  <2> QED
    BY <2>1, <2>2 DEF IInv
<1> QED
  BY <1>1, <1>2, <1>3, <1>4 DEF Next

LEMMA Invariance == Spec => []IInv
BY InitIInv, StepIInv, PTL DEF Spec

\* The state stays well-typed: a transfer never counts or sends more chunks
\* than it announced.
THEOREM TypeCorrect == Spec => []TypeOK
<1>1. IInv => TypeOK
  <2> SUFFICES ASSUME IInv PROVE TypeOK
    OBVIOUS
  <2> QED
    BY Zenon DEF IInv, YuvInv, YuvTypes, TransferInv, TransferTypes, Total, TypeOK
<1> QED
  BY <1>1, Invariance, PTL

\* convert_rgb_to_yuv420 comes to its end without an access out of bounds for
\* even sizes and an image large enough, and for no others.
THEOREM StaysInBounds == Spec => []InBounds
<1>1. IInv => InBounds
  BY DEF IInv, YuvInv
<1> QED
  BY <1>1, Invariance, PTL

\* Every pixel reaches its place in the file the client saves, for every size
\* of image and of chunk, and in whatever order the chunks arrive.
THEOREM EveryPictureArrives == Spec => []PictureArrives
<1>1. IInv => PictureArrives
  <2> SUFFICES ASSUME IInv PROVE PictureArrives
    OBVIOUS
  <2>1. rpc # "refused"
    BY DEF IInv, TransferInv, TransferTypes
  <2>2. ASSUME rpc = "saved", stage \in {1, 2}
        PROVE  buffer = plane /\ plane \in [0..size - 1 -> Int]
    <3>1. /\ next = Total /\ flying = {} /\ buffer \in [0..size - 1 -> Int] /\ size \in Nat
      BY <2>2 DEF IInv, TransferInv, TransferTypes, Counted, Landed
    <3>2. plane \in [0..size - 1 -> Int]
      BY <2>2, PlaneIsBytes DEF IInv, TransferInv
    <3>3. ASSUME NEW k \in 0..size - 1 PROVE buffer[k] = plane[k]
      <4>1. k \div ChunkSize \in 0..Total - 1
        BY <3>1, ChunkOfByte, ChunkAssumption DEF Total, Transfer!TotalChunks
      <4>2. Total \in Nat
        BY <3>1, TotalIsNat DEF Total, Transfer!TotalChunks
      <4>3. ~(next <= k \div ChunkSize)
        BY <3>1, <4>1, <4>2
      <4> QED
        BY <2>2, <3>1, <4>3 DEF IInv, TransferInv, Landed
    <3> QED
      BY <3>1, <3>2, <3>3
  <2>3. ASSUME rpc = "saved", stage = 1
        PROVE  DOMAIN buffer = 0..width * height - 1 /\ \A k \in DOMAIN buffer : buffer[k] = k
    <3>1. buffer = yPlane /\ size = width * height /\ cpc = "done"
      BY <2>2, <2>3 DEF IInv, TransferInv, Source, Yuv!YSize
    <3>2. \A k \in 0..width * height - 1 : yPlane[k] = k
      <4>1. y * width + x = width * height /\ width * height \in Nat
        BY <3>1 DEF IInv, YuvInv, YuvTypes
      <4> QED
        BY <3>1, <4>1 DEF IInv, YuvInv, YFilled, Yuv!YSize
    <3> QED
      BY <2>2, <2>3, <3>1, <3>2
  <2>4. ASSUME rpc = "saved", stage = 2,
               NEW i \in 0..width \div 2 - 1, NEW j \in 0..height \div 2 - 1
        PROVE  buffer[j * (width \div 2) + i] = 2 * j * width + 2 * i
    <3>1. buffer = uPlane /\ cpc = "done" /\ Even
      BY <2>2, <2>4 DEF IInv, TransferInv, Source, YuvInv, InBounds
    <3>2. 2 * j < y
      BY <2>4, <3>1 DEF IInv, YuvInv, YuvTypes, Even
    <3> QED
      BY <2>4, <3>1, <3>2 DEF IInv, YuvInv, UFilled
  <2>5. ASSUME rpc = "saved", stage = 2
        PROVE  DOMAIN buffer = 0..(width \div 2) * (height \div 2) - 1
    BY <2>2, <2>5 DEF IInv, TransferInv, Source, Yuv!UvSize
  <2> QED
    BY <2>1, <2>3, <2>4, <2>5 DEF PictureArrives
<1> QED
  BY <1>1, Invariance, PTL
=============================================================================
