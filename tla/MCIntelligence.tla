--------------------------- MODULE MCIntelligence ---------------------------
(***************************************************************************)
(* Two vessels that count and one whose MMSI does not, and reports at the  *)
(* corners: the ends of a speed bucket, courses on either side of north,   *)
(* rates at the end of the scale; places abreast in the north, near each   *)
(* other, across a corner of the margins, and across the antimeridian.     *)
(***************************************************************************)
EXTENDS Intelligence, TLC

CONSTANTS v1, v2, v3

Report(sog, cog, rot, nav, lat, lon) ==
    [Sog |-> sog, Cog |-> cog, RateOfTurn |-> rot, NavigationalStatus |-> nav,
     place |-> [lat |-> lat, lon |-> lon]]

Reports == {Report(0, 0, 127, 0, 3333, 9860),
            Report(5, 3488, -126, 9, 3428, 9955),
            Report(200, 3487, -128, 12, 3340, 9990),
            Report(1023, 3600, 4, 1, 3340, -9960)}

\* Near 60 degrees a globe of 200 radii around is a plane, which meets itself at
\* the antimeridian and on which a degree of longitude is half as long.
Globe ==
    LET Places == {raw.place : raw \in Reports}
        Around(gap) == IF gap > HalfCircle THEN 2 * HalfCircle - gap ELSE gap
        Square(n) == n * n
    IN  [a \in Places |-> [b \in Places |->
            Square(100 * Gap(a.lat, b.lat)) + Square(50 * Around(Gap(a.lon, b.lon)))]]
ShrinkBy == [a \in {raw.place : raw \in Reports} |-> 47]

\* Every course there is falls into the sector nearest to it.
ASSUME SectorsNearest == \A cog \in 0..3599 : Deviation(cog, Sector(cog)) <= 112

Symmetric == Permutations({v1, v2})
=============================================================================
