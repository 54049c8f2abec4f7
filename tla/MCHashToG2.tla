----------------------------- MODULE MCHashToG2 -----------------------------
(***************************************************************************)
(* The curve of the family with u = 5: p = 27631, 27481 points of G1 on    *)
(* y^2 = x^3 + 6, and the twist by xi = 4 + i with 27481 * 27781 points.   *)
(* The hashes have two bytes; some are just below or above p once masked.  *)
(***************************************************************************)
EXTENDS HashToG2

MCFieldModulus == 27631
MCTwistB == <<21131, 1625>>
MCFrobeniusX == <<23536, 23974>>
MCFrobeniusY == <<20992, 1075>>

MCHashes ==
    ({1, 33, 77, 102, 140, 171, 203, 222, 237, 238, 239, 254} \X
     {0, 7, 19, 41, 64, 83, 99, 106, 107, 108, 127, 128, 201, 235, 236, 255})

\* Two points of the twist, their opposites, one of 13 times itself neutral,
\* and one pair of coordinates that is on no curve.
MCPoint == <<<<2, 0>>, <<10018, 5948>>>>
MCSmallOrder == <<<<16321, 6001>>, <<12581, 23852>>>>
MCPoints ==
    {G!Neutral, MCPoint, <<<<2, 0>>, <<17613, 21683>>>>,
     <<<<3, 0>>, <<16909, 13358>>>>, MCSmallOrder,
     <<MCSmallOrder[1], G!Minus(Zero2, MCSmallOrder[2])>>, <<<<1, 1>>, <<1, 1>>>>}

MCCalls ==
    [op : {"hashToG2"}, hash : MCHashes]
        \cup [op : {"ECTwistMul"}, s : {0, 1, 2, 5, 12, 13, 14, 25, 26, 27481}, pt : MCPoints]
        \cup [op : {"ECTwistAdd"}, a : MCPoints, b : MCPoints]
        \cup [op : {"rootFp2"}, x : {0, 1, 2, 3, 4, 27630, 6907} \X {0, 1, 4, 5, 27627}]

=============================================================================
