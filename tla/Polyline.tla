------------------------------ MODULE Polyline ------------------------------
(***************************************************************************)
(* The encoded polyline in which Google and the route service hand a route *)
(* on (maps/polyline.go).  A coordinate is a pair <<latitude, longitude>>  *)
(* in units of 0.00001 degrees, a character its value less 63: five bits,  *)
(* and 32 more on all but the last of a number.  Characters outside 0..63  *)
(* and surrounding blanks, which are refused and trimmed, are left out.    *)
(***************************************************************************)
EXTENDS Integers, Sequences, SequencesExt

CONSTANTS
  Coordinates,  \* the points a route may pass
  MaxRoute,     \* the length of the longest route
  MaxPoints     \* the points a polyline may have (20000 in the code)

VARIABLE route

Invalid == "invalid"
ValidCoordinate(c) == /\ -9000000 <= c[1] /\ c[1] <= 9000000
                      /\ -18000000 <= c[2] /\ c[2] <= 18000000

ASSUME PolylineAssumption ==
  /\ \A c \in Coordinates : c \in Int \X Int /\ ValidCoordinate(c)
  /\ MaxRoute \in Nat /\ MaxPoints \in Nat

-----------------------------------------------------------------------------
(* EncodePolyline: the first bits of a number come first. *)
Characters[n \in Nat] ==
  IF n < 32 THEN <<n>> ELSE <<32 + (n % 32)>> \o Characters[n \div 32]

(* The sign is in the last bit. *)
PutMagnitude(v) == Characters[IF v < 0 THEN -2 * v ELSE 2 * v]
Put(v) == Characters[IF v < 0 THEN -2 * v - 1 ELSE 2 * v]

(* Each point is given by its distance from the one before. *)
PutPoint(points, i) ==
  LET from == IF i = 1 THEN <<0, 0>> ELSE points[i - 1]
  IN Put(points[i][1] - from[1]) \o Put(points[i][2] - from[2])

EncodePolyline(points) ==
  LET code[i \in 0 .. Len(points)] ==
        IF i = 0 THEN <<>> ELSE code[i - 1] \o PutPoint(points, i)
  IN code[Len(points)]

-----------------------------------------------------------------------------
(* DecodePolyline reads a character at a time: `value` is the number read  *)
(* so far, `unit` what the next five bits count (1 << shift), `half` the   *)
(* latitude's difference once it is read, `at` the point reached.          *)
Start == [at |-> <<0, 0>>, half |-> <<>>, value |-> 0, unit |-> 1, points |-> <<>>, ok |-> TRUE]

Signed(n) == IF n % 2 = 1 THEN -(n \div 2) - 1 ELSE n \div 2

Halfway(s, n) ==
  [at |-> s.at, half |-> <<Signed(n)>>, value |-> 0, unit |-> 1, points |-> s.points, ok |-> s.ok]

Reaches(s, n) ==
  LET c == <<s.at[1] + s.half[1], s.at[2] + Signed(n)>>
  IN [at |-> c, half |-> <<>>, value |-> 0, unit |-> 1, points |-> Append(s.points, c),
      ok |-> ValidCoordinate(c) /\ Len(s.points) < MaxPoints]

Takes(s, n) == IF s.half = <<>> THEN Halfway(s, n) ELSE Reaches(s, n)

Reading(s, c) ==
  LET n == s.value + (c % 32) * s.unit
  IN IF ~s.ok \/ s.unit > 1073741824 THEN [s EXCEPT !.ok = FALSE]
     ELSE IF c < 32 THEN Takes(s, n)
     ELSE [s EXCEPT !.value = n, !.unit = 32 * s.unit]

Decoding(code) ==
  LET reads[i \in 0 .. Len(code)] ==
        IF i = 0 THEN Start ELSE Reading(reads[i - 1], code[i])
  IN reads

DecodePolyline(code) ==
  LET end == Decoding(code)[Len(code)]
  IN IF end.ok /\ end.unit = 1 /\ end.half = <<>> /\ Len(end.points) >= 2
     THEN end.points ELSE Invalid

-----------------------------------------------------------------------------
PolylineInit == route = <<>>

(* Routes grow by one point. *)
PassesPoint(c) ==
  /\ Len(route) < MaxRoute
  /\ route' = Append(route, c)

PolylineNext == \E c \in Coordinates : PassesPoint(c)
PolylineSpec == PolylineInit /\ [][PolylineNext]_route

PolylineTypeOK == route \in Seq(Coordinates)

(* What is decoded is the route that was encoded, if it is one (two points *)
(* at least, and no more than a polyline may have); and of a polyline that *)
(* is cut off anywhere a reader gets the beginning of the route or an      *)
(* error, never a road that is not on it.                                  *)
RouteSurvives ==
  LET code == EncodePolyline(route) IN
  /\ DecodePolyline(code) =
       IF Len(route) < 2 \/ Len(route) > MaxPoints THEN Invalid ELSE route
  /\ \A n \in 0 .. Len(code) :
       LET got == DecodePolyline(SubSeq(code, 1, n))
       IN got = Invalid \/ IsPrefix(got, route)
=============================================================================
