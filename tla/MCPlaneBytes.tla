----------------------------- MODULE MCPlaneBytes -----------------------------
EXTENDS PlaneBytes

\* Even and odd sizes, down to one pixel; planes that fill their last chunk
\* and planes that do not; images that are large enough and too small.
MCSizes == {<<6, 4>>, <<4, 4>>, <<4, 2>>, <<6, 2>>, <<2, 6>>,
            <<3, 4>>, <<4, 3>>, <<3, 3>>, <<1, 1>>}
MCImageSizes == {<<6, 4>>, <<4, 2>>, <<3, 3>>}
=============================================================================
