---------------------------- MODULE MCConversions ----------------------------
(* A TLC instance of Conversions: a word of 8 bits in place of 64, with units *)
(* whose legal values overflow it in hours only.                              *)
EXTENDS Conversions

CONSTANTS p1, p2, p3, x, y

SmallUnits ==
    [u \in {"H", "M", "S", "m", "u", "n"} |->
        CASE u = "H" -> 50 [] u = "M" -> 25 [] u = "S" -> 10 [] u = "m" -> 4
          [] u = "u" -> 2 [] u = "n" -> 1]
WildValues == {-200, -1, 0, 1, 3, 5, 100, 200}
ThreeProxies == {p1, p2, p3}
TwoData == {x, y}
TwoNames == {"k", "l"}
=============================================================================
