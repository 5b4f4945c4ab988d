------------------------------ MODULE MCVision ------------------------------
(***************************************************************************)
(* A small network and a small scan for TLC.                               *)
(***************************************************************************)
EXTENDS Vision

\* The whole of head 32, and cells of the finer heads in its neighbourhood.
MCBusyCells ==
  {<<1, 0, 0>>, <<1, 0, 1>>, <<1, 1, 1>>, <<1, 3, 3>>, <<2, 0, 0>>, <<2, 0, 1>>, <<3, 0, 0>>}

\* Two classes; the last two fail one threshold each.
MCOutputs ==
  {[object |-> 3, classes |-> <<5, 5>>, reach |-> <<1, 1, 1, 1>>],
   [object |-> 4, classes |-> <<4, 1>>, reach |-> <<2, 2, 2, 2>>],
   [object |-> 3, classes |-> <<3, 4>>, reach |-> <<1, 3, 1, 1>>],
   [object |-> 2, classes |-> <<5, 5>>, reach |-> <<1, 1, 1, 1>>],
   [object |-> 5, classes |-> <<2, 2>>, reach |-> <<1, 1, 1, 1>>]}

MCSources == {<<16, 16>>, <<64, 32>>}

\* Near and far points on the left, in the middle and on a border, one out of
\* the sensor's limits, one behind the camera, one beside and
\* one below the image.
MCBeams ==
  {[range |-> 2, distance |-> 2, front |-> TRUE, x |-> 9, y |-> 33],
   [range |-> 6, distance |-> 5, front |-> TRUE, x |-> 9, y |-> 33],
   [range |-> 8, distance |-> 9, front |-> TRUE, x |-> 25, y |-> 33],
   [range |-> 5, distance |-> 4, front |-> TRUE, x |-> 31, y |-> 33],
   [range |-> 4, distance |-> 4, front |-> TRUE, x |-> 16, y |-> 33],
   [range |-> 12, distance |-> 3, front |-> TRUE, x |-> 9, y |-> 33],
   [range |-> 3, distance |-> 3, front |-> FALSE, x |-> 9, y |-> 33],
   [range |-> 3, distance |-> 3, front |-> TRUE, x |-> 70, y |-> 33],
   [range |-> 3, distance |-> 3, front |-> TRUE, x |-> 9, y |-> 64]}

=============================================================================
