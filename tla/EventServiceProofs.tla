------------------------- MODULE EventServiceProofs -------------------------
(***************************************************************************)
(* Proofs about EventService: whatever the table, the queries and the      *)
(* limit are, an answer is true of the table at some moment, across the    *)
(* date line too, and bounded by the limit and the changes meanwhile.      *)
(***************************************************************************)
EXTENDS EventService, FiniteSetTheorems, TLAPS

-----------------------------------------------------------------------------
(* Longitudes                                                              *)

(* East without the remainder.                                             *)
LEMMA EastIs ==
  ASSUME NEW a \in Longitude, NEW b \in Longitude
  PROVE  East(a, b) = IF b - a = 360 THEN 0
                      ELSE IF b >= a THEN b - a
                      ELSE IF b - a = -360 THEN 0 ELSE b - a + 360
BY DEF East, Longitude

(* Away from Greenwich, longitudes counted from there are in a range just  *)
(* when they are in the box.                                               *)
LEMMA ShiftedRange ==
  ASSUME NEW lo \in Longitude, NEW hi \in Longitude, NEW x \in Longitude,
         NEW w, w = IF lo <= hi THEN hi - lo ELSE hi - lo + 360,
         East(lo, 0) = 0 \/ East(lo, 0) > w
  PROVE  ShiftLongitude(x) >= ShiftLongitude(lo) /\ ShiftLongitude(x) <= ShiftLongitude(hi)
         <=> East(lo, x) <= w
<1>1. East(lo, 0) = IF lo <= 0 THEN -lo ELSE 360 - lo
  BY DEF East, Longitude
<1>2. East(lo, x) = IF x - lo = 360 THEN 0
                    ELSE IF x >= lo THEN x - lo
                    ELSE IF x - lo = -360 THEN 0 ELSE x - lo + 360
  BY EastIs
<1>3. CASE lo = 0
  BY <1>2, <1>3 DEF ShiftLongitude, Longitude
<1>4. CASE lo < 0
  <2>1. w < -lo BY <1>1, <1>4 DEF Longitude
  <2>2. lo <= hi /\ hi < 0 BY <2>1, <1>4 DEF Longitude
  <2> QED BY <1>2, <1>4, <2>2 DEF ShiftLongitude, Longitude
<1>5. CASE lo > 0
  <2>1. w < 360 - lo BY <1>1, <1>5 DEF Longitude
  <2>2. lo <= hi \/ hi < 0 BY <2>1, <1>5 DEF Longitude
  <2> QED BY <1>2, <1>5, <2>2 DEF ShiftLongitude, Longitude
<1> QED BY <1>3, <1>4, <1>5 DEF Longitude

LEMMA ShiftedLongitude ==
  ASSUME NEW x \in Longitude
  PROVE  ShiftLongitude(x) \in 0 .. 359
<1>1. x \in Int /\ -180 <= x /\ x <= 180 BY DEF Longitude
<1>2. CASE x < 0 BY <1>1, <1>2 DEF ShiftLongitude
<1>3. CASE x >= 0 BY <1>1, <1>3 DEF ShiftLongitude
<1> QED BY <1>1, <1>2, <1>3

LEMMA EastRange ==
  ASSUME NEW a \in Longitude, NEW b \in Longitude
  PROVE  East(a, b) \in 0 .. 359
<1>1. b - a \in Int
  BY DEF Longitude
<1> QED BY <1>1 DEF East

-----------------------------------------------------------------------------
(* Distances                                                               *)

LEMMA SquareGrows ==
  ASSUME NEW a \in Int, NEW b \in Int, 0 <= a, a <= b
  PROVE  Square(a) \in Int /\ Square(b) \in Int /\ 0 <= Square(a) /\ Square(a) <= Square(b)
BY DEF Square

LEMMA SquareOfNegative ==
  ASSUME NEW a \in Int
  PROVE  Square(-a) = Square(a)
BY DEF Square

LEMMA SquareOfDifference ==
  ASSUME NEW a \in Int, NEW b \in Int
  PROVE  /\ Square(a - b) \in Nat
         /\ Square(a - b) = Square(IF b >= a THEN b - a ELSE a - b)
<1>1. a - b \in Int /\ b - a \in Int /\ a - b = -(b - a)
  OBVIOUS
<1>2. Square(a - b) = Square(b - a)
  BY <1>1, SquareOfNegative
<1>3. CASE b >= a
  <2>1. b - a \in Int /\ 0 <= b - a BY <1>3
  <2> QED BY <1>2, <1>3, <2>1, SquareGrows
<1>4. CASE b < a
  <2>1. a - b \in Int /\ 0 <= a - b BY <1>4
  <2> QED BY <1>4, <2>1, SquareGrows
<1> QED BY <1>3, <1>4

Gap(a, b) ==
  IF ShiftLongitude(b) >= ShiftLongitude(a)
  THEN ShiftLongitude(b) - ShiftLongitude(a) ELSE ShiftLongitude(a) - ShiftLongitude(b)

(* Two points are as far apart as they are when longitudes are counted     *)
(* from Greenwich, or both ways out of a circle that is away from it.      *)
LEMMA GapIsApart ==
  ASSUME NEW a \in Longitude, NEW b \in Longitude, NEW r \in 0 .. 180,
         IsAwayFromGreenwich(a, r)
  PROVE  /\ Gap(a, b) \in Nat /\ Apart(a, b) \in Nat
         /\ \/ Gap(a, b) = Apart(a, b)
            \/ Gap(a, b) > r /\ Apart(a, b) > r
<1>1. East(0, a) = ShiftLongitude(a)
  BY DEF East, ShiftLongitude, Longitude
<1>2. East(a, b) = IF b - a = 360 THEN 0
                   ELSE IF b >= a THEN b - a
                   ELSE IF b - a = -360 THEN 0 ELSE b - a + 360
  BY EastIs
<1>3. East(b, a) = IF a - b = 360 THEN 0
                   ELSE IF a >= b THEN a - b
                   ELSE IF a - b = -360 THEN 0 ELSE a - b + 360
  BY EastIs
<1>4. Gap(a, b) \in 0 .. 359
  <2>1. ShiftLongitude(a) \in 0 .. 359 /\ ShiftLongitude(b) \in 0 .. 359
    BY ShiftedLongitude
  <2>2. \A x, y \in 0 .. 359 : (IF y >= x THEN y - x ELSE x - y) \in 0 .. 359
    OBVIOUS
  <2> QED BY <2>1, <2>2 DEF Gap
<1>5. Apart(a, b) = IF Gap(a, b) <= 180 THEN Gap(a, b) ELSE 360 - Gap(a, b)
  <2>1. CASE a >= 0 /\ b >= 0
    BY <1>2, <1>3, <2>1 DEF Gap, Apart, ShiftLongitude, Longitude
  <2>2. CASE a >= 0 /\ b < 0
    BY <1>2, <1>3, <2>2 DEF Gap, Apart, ShiftLongitude, Longitude
  <2>3. CASE a < 0 /\ b >= 0
    BY <1>2, <1>3, <2>3 DEF Gap, Apart, ShiftLongitude, Longitude
  <2>4. CASE a < 0 /\ b < 0
    BY <1>2, <1>3, <2>4 DEF Gap, Apart, ShiftLongitude, Longitude
  <2> QED BY <2>1, <2>2, <2>3, <2>4 DEF Longitude
<1>6. Gap(a, b) > 180 => Gap(a, b) > r /\ 360 - Gap(a, b) > r
  <2>1. ShiftLongitude(a) \in 0 .. 359 /\ ShiftLongitude(b) \in 0 .. 359
    BY ShiftedLongitude
  <2>2. ShiftLongitude(a) - r \in 0 .. 359 /\ ShiftLongitude(a) + r \in 0 .. 359
    BY <1>1 DEF IsAwayFromGreenwich
  <2> DEFINE x == ShiftLongitude(a)
             y == ShiftLongitude(b)
  <2>3. Gap(a, b) = IF y >= x THEN y - x ELSE x - y
    BY DEF Gap
  <2>4. x \in 0 .. 359 /\ y \in 0 .. 359 /\ x - r \in 0 .. 359 /\ x + r \in 0 .. 359
    BY <2>1, <2>2
  <2> HIDE DEF x, y
  <2>5. CASE y >= x
    BY <2>3, <2>4, <2>5
  <2>6. CASE ~(y >= x)
    BY <2>3, <2>4, <2>6
  <2> QED BY <2>5, <2>6
<1> QED BY <1>4, <1>5, <1>6

(* Radii tell two distances from each other only within the largest.       *)
LEMMA RingsAgree ==
  ASSUME NEW north \in Nat, NEW gap \in Nat, NEW apart \in Nat,
         NEW r \in Nat, NEW s \in Nat, s <= r,
         \/ gap = apart
         \/ gap > r /\ apart > r
  PROVE  /\ north + Square(gap) <= Square(r) <=> north + Square(apart) <= Square(r)
         /\ north + Square(gap) >= Square(s) <=> north + Square(apart) >= Square(s)
<1>1. CASE gap = apart
  BY <1>1
<1>2. CASE gap > r /\ apart > r
  <2>1. Square(r) \in Int /\ Square(s) \in Int /\ Square(s) <= Square(r)
    BY SquareGrows
  <2>2. Square(r + 1) \in Int /\ Square(r + 1) > Square(r)
    BY DEF Square
  <2>3. Square(gap) \in Int /\ Square(r + 1) <= Square(gap)
    BY <1>2, SquareGrows
  <2>4. Square(apart) \in Int /\ Square(r + 1) <= Square(apart)
    BY <1>2, SquareGrows
  <2> QED BY <2>1, <2>2, <2>3, <2>4
<1> QED BY <1>1, <1>2

(* The two readings of a circle agree if it is away from Greenwich.        *)
LEMMA RadiusIsRing ==
  ASSUME NEW q \in Query, NEW i \in Event, PointOK(q), CircleIsAwayFromGreenwich(q)
  PROVE  InRadius(q, i) <=> InRing(q, i)
<1>1. CASE ~Given(q.latitude)
  BY <1>1 DEF CircleIsAwayFromGreenwich, InRadius, InRing
<1>2. CASE Given(q.latitude)
  <2>1. /\ q.latitude \in Int /\ q.longitude \in Longitude
        /\ q.minradius \in 0 .. 180 /\ q.maxradius \in 0 .. 180
        /\ q.minradius <= q.maxradius
    BY <1>2 DEF PointOK, Latitude
  <2>2. i.latitude \in Int /\ i.longitude \in Longitude
    BY DEF Event, Latitude
  <2> DEFINE north == Square(i.latitude - q.latitude)
             gap == Gap(q.longitude, i.longitude)
             apart == Apart(q.longitude, i.longitude)
             r == IF q.maxradius # 180 THEN q.maxradius ELSE q.minradius
  <2>3. north \in Nat
    BY <2>1, <2>2, SquareOfDifference
  <2>4. Distance2(q, i) = north + Square(gap)
    <3>1. ShiftLongitude(i.longitude) \in Int /\ ShiftLongitude(q.longitude) \in Int
      BY <2>1, <2>2, ShiftedLongitude
    <3>2. Square(ShiftLongitude(i.longitude) - ShiftLongitude(q.longitude)) =
          Square(IF ShiftLongitude(q.longitude) >= ShiftLongitude(i.longitude)
                 THEN ShiftLongitude(q.longitude) - ShiftLongitude(i.longitude)
                 ELSE ShiftLongitude(i.longitude) - ShiftLongitude(q.longitude))
      BY <3>1, SquareOfDifference
    <3>3. gap = IF ShiftLongitude(q.longitude) >= ShiftLongitude(i.longitude)
                THEN ShiftLongitude(q.longitude) - ShiftLongitude(i.longitude)
                ELSE ShiftLongitude(i.longitude) - ShiftLongitude(q.longitude)
      BY <3>1 DEF Gap
    <3> QED BY <3>2, <3>3 DEF Distance2
  <2>5. FromPoint2(q, i) = north + Square(apart)
    BY DEF FromPoint2
  <2>6. apart \in Nat
    <3>1. /\ East(q.longitude, i.longitude) \in 0 .. 359
          /\ East(i.longitude, q.longitude) \in 0 .. 359
      BY <2>1, <2>2, EastRange
    <3>2. apart = East(q.longitude, i.longitude) \/ apart = East(i.longitude, q.longitude)
      BY Zenon DEF Apart
    <3> QED BY <3>1, <3>2
  <2>7. CASE q.maxradius = 180 /\ q.minradius = 0
    <3>1. Square(0) = 0
      BY DEF Square
    <3>2. Square(apart) \in Int /\ Square(apart) >= 0
      BY <2>6, <3>1, SquareGrows
    <3> QED BY <2>3, <2>5, <2>7, <3>1, <3>2 DEF InRadius, InRing
  <2>8. CASE ~(q.maxradius = 180 /\ q.minradius = 0)
    <3>1. /\ r \in 0 .. 180 /\ r \in Nat /\ q.minradius \in Nat /\ q.minradius <= r
          /\ IsAwayFromGreenwich(q.longitude, r)
      BY <2>1, <2>8 DEF CircleIsAwayFromGreenwich
    <3> HIDE DEF r
    <3>2. /\ gap \in Nat
          /\ \/ gap = apart
             \/ gap > r /\ apart > r
      BY <2>1, <2>2, <3>1, GapIsApart
    <3> HIDE DEF north, gap, apart
    <3>3. /\ Distance2(q, i) <= Square(r) <=> FromPoint2(q, i) <= Square(r)
          /\ Distance2(q, i) >= Square(q.minradius) <=> FromPoint2(q, i) >= Square(q.minradius)
      BY <2>3, <2>4, <2>5, <2>6, <3>1, <3>2, RingsAgree
    <3>4. FromPoint2(q, i) >= Square(0)
      <4>1. Square(0) = 0
        BY DEF Square
      <4>2. Square(apart) \in Int /\ Square(apart) >= 0
        BY <2>6, <4>1, SquareGrows
      <4> QED BY <2>3, <2>5, <4>1, <4>2
    <3>5. CASE q.maxradius # 180
      BY <1>2, <3>3, <3>4, <3>5 DEF InRadius, InRing, r
    <3>6. CASE q.maxradius = 180
      BY <1>2, <3>3, <3>4, <3>6 DEF InRadius, InRing
    <3> QED BY <3>5, <3>6
  <2> QED BY <2>7, <2>8
<1> QED BY <1>1, <1>2

-----------------------------------------------------------------------------
(* What a statement selects                                                *)

Table == [Events -> Versions \cup {NoRow}]

LEMMA SelectedTypes ==
  ASSUME NEW q, NEW t \in Table
  PROVE  Selected(q, t) \subseteq Versions /\ Selected(q, t) \subseteq Rows(t)
BY DEF Selected, Rows, Table

(* A query that is read as it is meant selects what is wanted.             *)
LEMMA SelectedIsWanted ==
  ASSUME NEW q \in Query, parseEventV1(q), ReadAsMeant(q), NEW t \in Table
  PROVE  Selected(q, t) = Wanted(q, t)
<1>1. ASSUME NEW v \in Rows(t)
      PROVE  filter(q, Info[v]) <=> /\ Passes(q, Info[v])
                                    /\ InBox(q, Info[v].longitude)
                                    /\ InRing(q, Info[v])
  <2>1. Info[v] \in Event
    BY EventAssumption DEF Rows, Table
  <2>2. Info[v].longitude \in Longitude
    BY <2>1 DEF Event
  <2>3. InRadius(q, Info[v]) <=> InRing(q, Info[v])
    BY <2>1, RadiusIsRing DEF parseEventV1, ReadAsMeant
  <2>4. InLongitudes(q, Info[v].longitude) <=> InBox(q, Info[v].longitude)
    <3>1. CASE ~Given(q.minlongitude)
      BY <3>1 DEF ReadAsMeant, BoxIsAwayFromGreenwich, InLongitudes, InBox
    <3>2. CASE Given(q.minlongitude)
      <4>1. /\ Given(q.maxlongitude)
            /\ q.minlongitude \in Longitude /\ q.maxlongitude \in Longitude
            /\ East(q.minlongitude, 0) = 0 \/ East(q.minlongitude, 0) > Width(q)
        BY <3>2 DEF ReadAsMeant, BoxIsAwayFromGreenwich
      <4>2. Width(q) = IF q.minlongitude <= q.maxlongitude
                       THEN q.maxlongitude - q.minlongitude
                       ELSE q.maxlongitude - q.minlongitude + 360
        BY DEF Width
      <4>3. /\ ShiftLongitude(Info[v].longitude) >= ShiftLongitude(q.minlongitude)
            /\ ShiftLongitude(Info[v].longitude) <= ShiftLongitude(q.maxlongitude)
            <=> East(q.minlongitude, Info[v].longitude) <= Width(q)
        BY <2>2, <4>1, <4>2, ShiftedRange
      <4> QED BY <3>2, <4>1, <4>3 DEF InLongitudes, InBox
    <3> QED BY <3>1, <3>2
  <2> QED BY <2>3, <2>4 DEF filter
<1> QED BY <1>1 DEF Selected, Wanted

Differing(S) == {id \in Events : \E t, u \in S : t[id] # u[id]}

(* Two tables differ in what they select by the events that changed.       *)
LEMMA SelectedChanges ==
  ASSUME NEW q, NEW S \in SUBSET Table, NEW t \in S, NEW u \in S
  PROVE  /\ Cardinality(Selected(q, t)) \in Nat
         /\ Cardinality(Selected(q, u)) \in Nat
         /\ Cardinality(Differing(S)) \in Nat
         /\ Cardinality(Selected(q, u)) <=
              Cardinality(Selected(q, t)) + Cardinality(Differing(S))
         /\ Selected(q, t) # Selected(q, u) => Differing(S) # {}
<1> DEFINE D == Differing(S)
           moved == {u[id] : id \in D}
<1>1. IsFiniteSet(D) /\ Cardinality(D) \in Nat
  BY EventAssumption, FS_Subset, FS_CardinalityType DEF Differing
<1>2. IsFiniteSet(moved) /\ Cardinality(moved) \in Nat /\ Cardinality(moved) <= Cardinality(D)
  <2> DEFINE f == [id \in D |-> u[id]]
  <2>1. f \in Surjection(D, moved)
    BY DEF Surjection
  <2> QED BY <1>1, <2>1, FS_Surjection, FS_CardinalityType
<1>3. ASSUME NEW w \in Table
      PROVE  IsFiniteSet(Selected(q, w)) /\ Cardinality(Selected(q, w)) \in Nat
  <2> DEFINE f == [id \in Events |-> w[id]]
             R == {w[id] : id \in Events}
  <2>1. f \in Surjection(Events, R)
    BY DEF Surjection
  <2>2. IsFiniteSet(R)
    BY <2>1, EventAssumption, FS_Surjection
  <2>3. Selected(q, w) \in SUBSET R
    BY DEF Selected, Rows
  <2> QED BY <2>2, <2>3, FS_Subset, FS_CardinalityType
<1>4. Selected(q, u) \subseteq Selected(q, t) \cup moved
  BY DEF Selected, Rows, Differing
<1>5. /\ IsFiniteSet(Selected(q, t) \cup moved)
      /\ Cardinality(Selected(q, t) \cup moved) <= Cardinality(Selected(q, t)) + Cardinality(moved)
  <2> DEFINE A == Selected(q, t)
  <2>1. IsFiniteSet(A) /\ Cardinality(A) \in Nat
    BY <1>3
  <2>2. A \cap moved \in SUBSET A
    OBVIOUS
  <2>3. Cardinality(A \cap moved) \in Nat
    BY <2>1, <2>2, FS_Subset, FS_CardinalityType
  <2> HIDE DEF A, moved
  <2>4. IsFiniteSet(A \cup moved)
    BY <1>2, <2>1, FS_Union
  <2>5. Cardinality(A \cup moved) = Cardinality(A) + Cardinality(moved) - Cardinality(A \cap moved)
    BY <1>2, <2>1, FS_Union
  <2>6. Cardinality(A \cup moved) <= Cardinality(A) + Cardinality(moved)
    BY <1>2, <2>1, <2>3, <2>5
  <2> QED BY <2>4, <2>6 DEF A
<1>6. Cardinality(Selected(q, u)) <= Cardinality(Selected(q, t) \cup moved)
  BY <1>4, <1>5, FS_Subset
<1>7. Selected(q, t) # Selected(q, u) => D # {}
  BY DEF Selected, Rows, Differing
<1>8. Cardinality(Selected(q, t) \cup moved) \in Nat
  BY <1>5, FS_CardinalityType
<1> HIDE DEF D, moved
<1> QED BY <1>1, <1>2, <1>3, <1>5, <1>6, <1>7, <1>8 DEF D

-----------------------------------------------------------------------------
(* The invariant                                                           *)

(* Who is asking: a query that was checked, or the sc3ml service.          *)
RequestInv ==
  /\ pc = "ready" => e = None /\ publicID = None
  /\ pc \in {"count", "fetch"} => e \in Queries /\ parseEventV1(e) /\ publicID = None
  /\ pc = "sc3ml" => e = None
  /\ Underway => table \in seen

(* What was counted, at a moment since the request arrived.                *)
CountedAt(t) == Cardinality(Selected(e, t)) \in 1 .. MaxEvents

CountInv == pc = "fetch" => \E t \in seen : CountedAt(t)

(* What each status of an answer stands for.                               *)
AnswerInv ==
  pc = "done" =>
    /\ Given(e) /\ parseEventV1(e) =>
         /\ e \in Queries
         /\ status = 200 /\ ~partial =>
              (\E t \in seen : body = Selected(e, t)) /\ (\E t \in seen : CountedAt(t))
         /\ status = 413 => \E t \in seen : Cardinality(Selected(e, t)) > MaxEvents
         /\ status \in {204, 404} => \E t \in seen : Selected(e, t) = {}
    /\ Given(publicID) /\ status = 200 =>
         publicID \in Events /\ \E t \in seen : body = {t[publicID]}

EventInv == TypeOK /\ RequestInv /\ CountInv /\ AnswerInv

LEMMA InitEventInv == Init => EventInv
<1> SUFFICES ASSUME Init PROVE EventInv
  OBVIOUS
<1>1. TypeOK
  <2>1. table \in [Events -> Versions \cup {NoRow}]
    BY DEF Init, Consumer!Init
  <2>2. seen = {} /\ saves \in 0 .. MaxSaves
    BY EventAssumption DEF Init
  <2>3. page \in BOOLEAN /\ partial \in BOOLEAN
    BY DEF Init
  <2> QED BY <2>1, <2>2, <2>3 DEF Init, TypeOK, Statuses
<1>2. RequestInv /\ CountInv /\ AnswerInv
  BY DEF Init, RequestInv, CountInv, AnswerInv, Underway
<1> QED BY <1>1, <1>2 DEF EventInv

(* The count of no events is zero, of any table.                           *)
LEMMA CountOfNone ==
  ASSUME NEW q, NEW t \in Table
  PROVE  /\ Cardinality(Selected(q, t)) \in Nat
         /\ Cardinality(Selected(q, t)) = 0 <=> Selected(q, t) = {}
<1> DEFINE f == [id \in Events |-> t[id]]
           R == {t[id] : id \in Events}
<1>1. f \in Surjection(Events, R)
  BY DEF Surjection
<1>2. IsFiniteSet(R)
  BY <1>1, EventAssumption, FS_Surjection
<1>3. Selected(q, t) \in SUBSET R
  BY DEF Selected, Rows
<1>4. IsFiniteSet(Selected(q, t))
  BY <1>2, <1>3, FS_Subset
<1> QED BY <1>4, FS_CardinalityType, FS_EmptySet

LEMMA SaveStep ==
  ASSUME EventInv, NEW v \in Versions, Save(v)
  PROVE  EventInv'
<1>1. TypeOK'
  <2>1. EventOf(v) \in Events
    BY EventAssumption DEF EventOf, Event
  <2>2. table' \in [Events -> Versions \cup {NoRow}]
    BY <2>1 DEF EventInv, TypeOK, Save, Consumer!Record
  <2>3. saves' \in 0 .. MaxSaves
    BY EventAssumption DEF EventInv, TypeOK, Save
  <2> QED BY <2>2, <2>3 DEF EventInv, TypeOK, Save, requestVars, replyVars
<1>2. seen \subseteq seen' /\ (Underway => table' \in seen')
  BY DEF Save
<1>3. UNCHANGED <<pc, e, publicID, body, partial, page, status>>
  BY DEF Save, requestVars, replyVars
<1>4. RequestInv'
  BY <1>2, <1>3 DEF EventInv, RequestInv, Underway
<1>5. CountInv'
  BY <1>2, <1>3 DEF EventInv, CountInv, CountedAt
<1>6. AnswerInv'
  BY <1>2, <1>3 DEF EventInv, AnswerInv, CountedAt
<1> QED BY <1>1, <1>4, <1>5, <1>6 DEF EventInv

LEMMA AskStep ==
  ASSUME EventInv, NEW q \in Queries, Ask(q)
  PROVE  EventInv'
<1>1. TypeOK'
  <2>1. /\ UNCHANGED <<table, saves, publicID, body, partial>>
        /\ seen' = {table} /\ e' = q /\ pc' \in {"count", "done"}
        /\ status' = status \/ status' = 400
    BY DEF Ask, Arrive, Fail
  <2>2. q \in Query
    BY EventAssumption
  <2>3. page' \in BOOLEAN
    <3>1. CASE parseEventV1(q)
      <4>1. page' = page
        BY <3>1 DEF Ask
      <4> QED BY <4>1, Zenon DEF EventInv, TypeOK
    <3>2. CASE ~parseEventV1(q)
      BY <3>2, ZenonT(60) DEF Ask, Fail
    <3> QED BY <3>1, <3>2
  <2> QED BY <2>1, <2>2, <2>3 DEF EventInv, TypeOK, Statuses
<1>2. RequestInv' /\ CountInv'
  BY DEF EventInv, RequestInv, CountInv, Ask, Arrive, Fail, Underway
<1>3. AnswerInv'
  <2>1. CASE parseEventV1(q)
    BY <2>1 DEF Ask, AnswerInv
  <2>2. CASE ~parseEventV1(q)
    BY <2>2 DEF EventInv, RequestInv, Ask, Arrive, Fail, AnswerInv
  <2> QED BY <2>1, <2>2
<1> QED BY <1>1, <1>2, <1>3 DEF EventInv

(* An answer says whether an error text follows what was written.          *)
LEMMA FailSaysPage ==
  ASSUME NEW code, Fail(code)
  PROVE  page' \in BOOLEAN
<1>1. (code \notin {204, 404}) \in BOOLEAN
  OBVIOUS
<1> QED BY <1>1, Zenon DEF Fail

(* The same of a request for sc3ml, which leaves it as it is or fails.      *)
LEMMA AskSaysPage ==
  ASSUME NEW id, AskSc3ml(id), page \in BOOLEAN
  PROVE  page' \in BOOLEAN
<1>1. CASE id \in PublicIDs
  BY <1>1 DEF AskSc3ml
<1>2. CASE id \notin PublicIDs
  <2>1. Fail(400)
    BY <1>2, Zenon DEF AskSc3ml
  <2> QED BY <2>1, FailSaysPage
<1> QED BY <1>1, <1>2

LEMMA OtherArrivals ==
  ASSUME EventInv,
         \/ AskOtherwise
         \/ \E id \in Ids : AskSc3ml(id)
         \/ \E code \in {400, 405} : AskSc3mlOtherwise(code)
  PROVE  EventInv'
<1>1. /\ UNCHANGED <<table, saves, e, body, partial>>
      /\ pc = "ready" /\ seen' = {table}
      /\ \/ pc' = "done" /\ (status' = 400 \/ status' = 405)
         \/ pc' = "sc3ml" /\ status' = status
      /\ publicID' = publicID \/ publicID' \in Ids
  <2>1. CASE AskOtherwise
    BY <2>1 DEF AskOtherwise, Arrive, Fail
  <2>2. CASE \E id \in Ids : AskSc3ml(id)
    BY <2>2 DEF AskSc3ml, Arrive, Fail
  <2>3. CASE \E code \in {400, 405} : AskSc3mlOtherwise(code)
    BY <2>3 DEF AskSc3mlOtherwise, Arrive, Fail
  <2> QED BY <2>1, <2>2, <2>3
<1>2. page' \in BOOLEAN
  <2>1. page \in BOOLEAN
    BY DEF EventInv, TypeOK
  <2>2. CASE AskOtherwise
    BY <2>2, FailSaysPage DEF AskOtherwise
  <2>3. CASE \E id \in Ids : AskSc3ml(id)
    BY <2>1, <2>3, AskSaysPage
  <2>4. CASE \E code \in {400, 405} : AskSc3mlOtherwise(code)
    BY <2>4, FailSaysPage DEF AskSc3mlOtherwise
  <2> QED BY <2>2, <2>3, <2>4
<1>3. e = None
  BY <1>1 DEF EventInv, RequestInv
<1>4. TypeOK'
  BY <1>1, <1>2 DEF EventInv, TypeOK, Statuses
<1>5. RequestInv' /\ CountInv' /\ AnswerInv'
  BY <1>1, <1>3 DEF RequestInv, CountInv, AnswerInv, Underway, Given
<1> QED BY <1>4, <1>5 DEF EventInv

LEMMA CountStep ==
  ASSUME EventInv, Count
  PROVE  EventInv'
<1>1. /\ table \in Table /\ table \in seen
      /\ e \in Queries /\ parseEventV1(e) /\ publicID = None /\ e.nodata \in {204, 404}
  BY DEF EventInv, TypeOK, RequestInv, Count, Table, Underway, parseEventV1, AnswerOptionsOK
<1>2. /\ count(e) \in Nat /\ count(e) = Cardinality(Selected(e, table))
      /\ count(e) = 0 <=> Selected(e, table) = {}
  BY <1>1, CountOfNone DEF count
<1>3. UNCHANGED <<table, seen, saves, e, publicID, body, partial>>
  BY DEF Count, tableVars
<1>4. CASE count(e) = 0
  BY <1>1, <1>2, <1>3, <1>4 DEF EventInv, TypeOK, RequestInv, CountInv, AnswerInv, Count, Fail,
     Statuses, Underway, Given
<1>5. CASE count(e) # 0 /\ count(e) > MaxEvents
  BY <1>1, <1>2, <1>3, <1>5 DEF EventInv, TypeOK, RequestInv, CountInv, AnswerInv, Count, Fail,
     Statuses, Underway, Given
<1>6. CASE count(e) # 0 /\ ~(count(e) > MaxEvents)
  <2>1. pc' = "fetch" /\ UNCHANGED <<page, status>>
    BY <1>6 DEF Count
  <2>2. CountedAt(table)
    BY <1>2, <1>6, EventAssumption DEF CountedAt
  <2> QED BY <1>1, <1>3, <2>1, <2>2 DEF EventInv, TypeOK, RequestInv, CountInv, AnswerInv,
          CountedAt, Underway
<1> QED BY <1>4, <1>5, <1>6

LEMMA FetchStep ==
  ASSUME EventInv, NEW found \in SUBSET Rows(table), Fetch(found)
  PROVE  EventInv'
<1>1. /\ table \in Table /\ table \in seen /\ body' \subseteq Versions
      /\ e \in Queries /\ publicID = None
  BY SelectedTypes DEF EventInv, TypeOK, RequestInv, Fetch, Table, Underway
<1>2. UNCHANGED <<table, seen, saves, e, publicID, page>> /\ pc' = "done" /\ status' = 200
  BY DEF Fetch, tableVars
<1>3. ~partial' => body' = Selected(e, table)
  BY DEF Fetch
<1>4. \E t \in seen : CountedAt(t)
  BY DEF EventInv, CountInv, Fetch
<1>5. TypeOK'
  BY <1>1, <1>2 DEF EventInv, TypeOK, Fetch, Statuses
<1>6. RequestInv' /\ CountInv'
  BY <1>2 DEF RequestInv, CountInv, Underway
<1>7. AnswerInv'
  BY <1>1, <1>2, <1>3, <1>4 DEF AnswerInv, CountedAt, Given
<1> QED BY <1>5, <1>6, <1>7 DEF EventInv

(* A request that ends with an error that is not an answer.                *)
LEMMA ErrorStep ==
  ASSUME EventInv,
         \/ CountFails
         \/ FetchFails
         \/ \E found \in SUBSET Rows(table) : ScanFails(found)
         \/ s3mlFails
  PROVE  EventInv'
<1>1. /\ UNCHANGED <<table, seen, saves, e, publicID, partial>>
      /\ pc' = "done" /\ page' \in BOOLEAN /\ status' \in {500, 503}
      /\ pc \in {"count", "fetch", "sc3ml"}
  <2>1. CASE CountFails
    BY <2>1 DEF CountFails, Fail, tableVars
  <2>2. CASE FetchFails
    BY <2>2 DEF FetchFails, Fail, tableVars
  <2>3. CASE \E found \in SUBSET Rows(table) : ScanFails(found)
    BY <2>3 DEF ScanFails, Fail, tableVars
  <2>4. CASE s3mlFails
    BY <2>4 DEF s3mlFails, Fail, tableVars
  <2> QED BY <2>1, <2>2, <2>3, <2>4
<1>2. body' \subseteq Versions
  <2>1. table \in Table
    BY DEF EventInv, TypeOK, Table
  <2>2. CASE \E found \in SUBSET Rows(table) : ScanFails(found)
    BY <2>1, <2>2, SelectedTypes DEF ScanFails
  <2>3. CASE CountFails \/ FetchFails \/ s3mlFails
    BY <2>3 DEF CountFails, FetchFails, s3mlFails, EventInv, TypeOK
  <2> QED BY <2>2, <2>3
<1>3. TypeOK'
  BY <1>1, <1>2 DEF EventInv, TypeOK, Statuses
<1>4. RequestInv' /\ CountInv'
  BY <1>1 DEF RequestInv, CountInv, Underway
<1>5. AnswerInv'
  BY <1>1 DEF EventInv, RequestInv, AnswerInv, Given
<1> QED BY <1>3, <1>4, <1>5 DEF EventInv

LEMMA Sc3mlStep ==
  ASSUME EventInv, s3ml
  PROVE  EventInv'
<1>1. /\ UNCHANGED <<table, seen, saves, e, publicID, partial, page>>
      /\ pc' = "done" /\ status' = 200 /\ body' = {table[publicID]}
      /\ publicID \in Events /\ table[publicID] # NoRow
      /\ table \in seen /\ e = None
  BY DEF EventInv, RequestInv, Underway, s3ml, tableVars
<1>2. TypeOK'
  BY <1>1 DEF EventInv, TypeOK, Statuses
<1>3. RequestInv' /\ CountInv'
  BY <1>1 DEF RequestInv, CountInv, Underway
<1>4. AnswerInv'
  BY <1>1 DEF AnswerInv, Given
<1> QED BY <1>2, <1>3, <1>4 DEF EventInv

LEMMA FinishStep ==
  ASSUME EventInv, Finish
  PROVE  EventInv'
<1>1. TypeOK'
  <2>1. saves' \in 0 .. MaxSaves
    BY EventAssumption DEF Finish
  <2>2. page' \in BOOLEAN /\ partial' \in BOOLEAN
    BY DEF Finish
  <2>3. /\ table' = table /\ seen' = {} /\ pc' = "ready" /\ e' = None /\ publicID' = None
        /\ body' = {} /\ status' = 0
    BY DEF Finish
  <2> QED BY <2>1, <2>2, <2>3 DEF EventInv, TypeOK, Statuses
<1>2. RequestInv' /\ CountInv' /\ AnswerInv'
  BY DEF RequestInv, CountInv, AnswerInv, Finish, Underway
<1> QED BY <1>1, <1>2 DEF EventInv

LEMMA EventInvStep == EventInv /\ [Next]_vars => EventInv'
<1> SUFFICES ASSUME EventInv, [Next]_vars
             PROVE  EventInv'
  OBVIOUS
<1>1. CASE \E v \in Versions : Save(v)
  BY <1>1, SaveStep
<1>2. CASE Request
  BY <1>2, AskStep, OtherArrivals DEF Request
<1>3. CASE Handler
  BY <1>3, CountStep, FetchStep, ErrorStep, Sc3mlStep DEF Handler
<1>4. CASE Finish
  BY <1>4, FinishStep
<1>5. CASE UNCHANGED vars
  BY <1>5 DEF vars, tableVars, requestVars, replyVars, EventInv, TypeOK, RequestInv, CountInv,
     AnswerInv, CountedAt, Underway
<1> QED BY <1>1, <1>2, <1>3, <1>4, <1>5 DEF Next

LEMMA EventInvariant == Spec => []EventInv
BY InitEventInv, EventInvStep, PTL DEF Spec

-----------------------------------------------------------------------------
(* The theorems                                                            *)

(* Every variable has its type (cmd/fdsn-ws/fdsn_event.go, sc3ml.go), and  *)
(* no status other than those that the handlers know reaches a client.     *)
THEOREM EventTypes == Spec => []TypeOK
<1>1. EventInv => TypeOK BY DEF EventInv
<1> QED BY <1>1, EventInvariant, PTL

(* Every answer of the event and sc3ml services is true of the table at    *)
(* some moment since the request arrived, across the date line too.        *)
THEOREM TrueAnswers == Spec => []AnswersAreTrue
<1>1. ASSUME EventInv
      PROVE  AnswersAreTrue
  <2>1. ASSUME NEW code \in {200, 204, 404, 413}, Answered(code), ReadAsMeant(e), ~partial
        PROVE  \E t \in seen :
                 CASE status = 200 -> body = Wanted(e, t)
                   [] status = 413 -> Cardinality(Wanted(e, t)) > MaxEvents
                   [] OTHER        -> Wanted(e, t) = {}
    <3>1. e \in Query /\ parseEventV1(e) /\ status = code
      BY <1>1, <2>1, EventAssumption DEF EventInv, AnswerInv, Answered
    <3>2. ASSUME NEW t \in seen
          PROVE  Selected(e, t) = Wanted(e, t)
      <4>1. t \in Table
        BY <1>1 DEF EventInv, TypeOK, Table
      <4> QED BY <2>1, <3>1, <4>1, SelectedIsWanted
    <3>3. CASE status = 200
      <4>1. PICK t \in seen : body = Selected(e, t)
        BY <1>1, <2>1, <3>3 DEF EventInv, AnswerInv, Answered
      <4> QED BY <3>2, <3>3, <4>1
    <3>4. CASE status = 413
      <4>1. PICK t \in seen : Cardinality(Selected(e, t)) > MaxEvents
        BY <1>1, <2>1, <3>4 DEF EventInv, AnswerInv, Answered
      <4> QED BY <3>2, <3>4, <4>1
    <3>5. CASE status \in {204, 404}
      <4>1. PICK t \in seen : Selected(e, t) = {}
        BY <1>1, <2>1, <3>5 DEF EventInv, AnswerInv, Answered
      <4> QED BY <3>2, <3>5, <4>1
    <3> QED BY <2>1, <3>1, <3>3, <3>4, <3>5
  <2>2. ASSUME pc = "done", Given(publicID), status = 200
        PROVE  \E t \in seen : body = {t[publicID]} /\ publicID \in Events
    BY <1>1, <2>2 DEF EventInv, AnswerInv
  <2> QED BY <2>1, <2>2 DEF AnswersAreTrue
<1> QED BY <1>1, EventInvariant, PTL

(* An answer exceeds the limit of fdsnEventV1Handler by no more events     *)
(* than changed since the request arrived, and is empty only if one did.   *)
THEOREM BoundedAnswers == Spec => []AnswersAreBounded
<1>1. ASSUME EventInv, Answered(200), ~partial
      PROVE  /\ Cardinality(body) <= MaxEvents + Cardinality(Changed)
             /\ body = {} => Changed # {}
  <2>1. PICK u \in seen : body = Selected(e, u)
    BY <1>1 DEF EventInv, AnswerInv, Answered
  <2>2. PICK t \in seen : CountedAt(t)
    BY <1>1 DEF EventInv, AnswerInv, Answered
  <2>3. seen \in SUBSET Table
    BY <1>1 DEF EventInv, TypeOK, Table
  <2>4. Changed = Differing(seen)
    BY DEF Changed, Differing
  <2>5. /\ Cardinality(Selected(e, t)) \in Nat
        /\ Cardinality(body) \in Nat
        /\ Cardinality(Changed) \in Nat
        /\ Cardinality(body) <= Cardinality(Selected(e, t)) + Cardinality(Changed)
        /\ Selected(e, t) # body => Changed # {}
    BY <2>1, <2>3, <2>4, SelectedChanges
  <2>6. Cardinality(Selected(e, t)) \in 1 .. MaxEvents
    BY <2>2 DEF CountedAt
  <2>7. body = {} => Selected(e, t) # body
    BY <2>6, FS_EmptySet
  <2> QED BY <2>5, <2>6, <2>7, EventAssumption
<1>2. EventInv => AnswersAreBounded
  BY <1>1 DEF AnswersAreBounded
<1> QED BY <1>2, EventInvariant, PTL

=============================================================================
