--------------------------- MODULE InvadersProofs ---------------------------
(***************************************************************************)
(* The rules of the game, for any board, fleet and shields that satisfy    *)
(* BoardAssumption and any number of keys: the five safety properties of   *)
(* Invaders.  A scan of the board takes it through a board for each row or *)
(* column (the lemmas Scan...); what the rows that are done and those that *)
(* are ahead hold at each of them is an induction along the rows (UpTo).   *)
(* From that come the effects of the loops as wholes: every shot moves one *)
(* cell, the fleet moves as one.  InvadersInv is inductive.                *)
(***************************************************************************)
EXTENDS Invaders, QueueLemmas

(* The boards that a step can make: Scan is shown to stay in them. *)
Cell == Int \X Int
Boards ==
    [alien : SUBSET Cell, alien_shoot : SUBSET Cell, ship_shoot : SUBSET Cell,
     shield : SUBSET (Int \X ShieldColumns), ship : SUBSET Cell]

(* Scan takes the boards it comes from, one for each index: for each F that it is used with. *)
LEMMA ScanAlienShots ==
    ASSUME NEW b \in Boards, NEW is, is = Down(NUM_ROWS - 2, 2), Len(is) \in Nat,
           \A t \in Boards, k \in 1 .. Len(is) : AlienShots(t, is[k]) \in Boards
    PROVE  \E f : /\ f[0] = b /\ f[Len(is)] = move_shoots_aliens(b)
                  /\ \A k \in 1 .. Len(is) : f[k] = AlienShots(f[k - 1], is[k])
<1> DEFINE n == Len(is)
           g == [k \in 1 .. n |-> [t \in Boards |-> AlienShots(t, is[k])]]
           Step(f) == [k \in 0 .. n |->
              IF k = 0 THEN b ELSE CHOOSE r \in {AlienShots(t, is[k]) : t \in {f[k - 1]}} : TRUE]
           after == CHOOSE f : f = Step(f)
<1> HIDE DEF n
<1>1. n \in Nat
  BY DEF n
<1>2. g \in [1 .. n -> [Boards -> Boards]]
  BY DEF n
<1>3. PICK f0 \in [0 .. n -> Boards] : Iterated(f0, g, b, n)
  <2> HIDE DEF g
  <2> QED
    BY <1>1, <1>2, Iterates
<1>4. \A f : \A k \in 0 .. n : Step(f)[k] = IF k = 0 THEN b ELSE AlienShots(f[k - 1], is[k])
  <2> SUFFICES ASSUME NEW f, NEW k \in 0 .. n
               PROVE  Step(f)[k] = IF k = 0 THEN b ELSE AlienShots(f[k - 1], is[k])
    OBVIOUS
  <2>1. {AlienShots(t, is[k]) : t \in {f[k - 1]}} = {AlienShots(f[k - 1], is[k])}
    OBVIOUS
  <2>2. \A r : (CHOOSE q \in {r} : TRUE) = r
    OBVIOUS
  <2> QED
    BY <2>1, <2>2
<1>5. f0 = Step(f0)
  <2>1. \A k \in 1 .. n : f0[k] = g[k][f0[k - 1]] /\ f0[k - 1] \in Boards
    <3> HIDE DEF g
    <3> QED
      BY <1>1, <1>3 DEF Iterated
  <2>2. \A k \in 1 .. n : f0[k] = AlienShots(f0[k - 1], is[k])
    <3>1. \A k \in 1 .. n, t \in Boards : g[k][t] = AlienShots(t, is[k])
      OBVIOUS
    <3> HIDE DEF g, Step
    <3> QED
      BY ONLY <2>1, <3>1
  <2>3. ASSUME NEW k \in 0 .. n PROVE f0[k] = Step(f0)[k]
    <3>1. f0[0] = b
      BY <1>3 DEF Iterated
    <3>2. Step(f0)[k] = IF k = 0 THEN b ELSE AlienShots(f0[k - 1], is[k])
      BY <1>4
    <3> HIDE DEF Step, g
    <3>3. CASE k = 0
      BY ONLY <3>1, <3>2, <3>3
    <3>4. CASE k \in 1 .. n
      <4>1. k # 0
        BY <3>4
      <4> QED
        BY ONLY <2>2, <3>2, <3>4, <4>1
    <3> QED
      BY <1>1, <3>3, <3>4
  <2> QED
    BY <2>3
<1>6. after = Step(after)
  BY <1>5
<1>7. move_shoots_aliens(b) = after[n]
  BY DEF Scan, move_shoots_aliens, n
<1>8. after[0] = b /\ \A k \in 1 .. n : after[k] = AlienShots(after[k - 1], is[k])
  <2> HIDE DEF after, Step
  <2> QED
    BY <1>1, <1>4, <1>6
<1> QED
  <2> HIDE DEF after
  <2> QED
    BY <1>7, <1>8 DEF n

LEMMA ScanShipShots ==
    ASSUME NEW b \in Boards, NEW is, is = Up(2, NUM_ROWS - 2), Len(is) \in Nat,
           \A t \in Boards, k \in 1 .. Len(is) : ShipShots(t, is[k]) \in Boards
    PROVE  \E f : /\ f[0] = b /\ f[Len(is)] = move_shoots_ship(b)
                  /\ \A k \in 1 .. Len(is) : f[k] = ShipShots(f[k - 1], is[k])
<1> DEFINE n == Len(is)
           g == [k \in 1 .. n |-> [t \in Boards |-> ShipShots(t, is[k])]]
           Step(f) == [k \in 0 .. n |->
              IF k = 0 THEN b ELSE CHOOSE r \in {ShipShots(t, is[k]) : t \in {f[k - 1]}} : TRUE]
           after == CHOOSE f : f = Step(f)
<1> HIDE DEF n
<1>1. n \in Nat
  BY DEF n
<1>2. g \in [1 .. n -> [Boards -> Boards]]
  BY DEF n
<1>3. PICK f0 \in [0 .. n -> Boards] : Iterated(f0, g, b, n)
  <2> HIDE DEF g
  <2> QED
    BY <1>1, <1>2, Iterates
<1>4. \A f : \A k \in 0 .. n : Step(f)[k] = IF k = 0 THEN b ELSE ShipShots(f[k - 1], is[k])
  <2> SUFFICES ASSUME NEW f, NEW k \in 0 .. n
               PROVE  Step(f)[k] = IF k = 0 THEN b ELSE ShipShots(f[k - 1], is[k])
    OBVIOUS
  <2>1. {ShipShots(t, is[k]) : t \in {f[k - 1]}} = {ShipShots(f[k - 1], is[k])}
    OBVIOUS
  <2>2. \A r : (CHOOSE q \in {r} : TRUE) = r
    OBVIOUS
  <2> QED
    BY <2>1, <2>2
<1>5. f0 = Step(f0)
  <2>1. \A k \in 1 .. n : f0[k] = g[k][f0[k - 1]] /\ f0[k - 1] \in Boards
    <3> HIDE DEF g
    <3> QED
      BY <1>1, <1>3 DEF Iterated
  <2>2. \A k \in 1 .. n : f0[k] = ShipShots(f0[k - 1], is[k])
    <3>1. \A k \in 1 .. n, t \in Boards : g[k][t] = ShipShots(t, is[k])
      OBVIOUS
    <3> HIDE DEF g, Step
    <3> QED
      BY ONLY <2>1, <3>1
  <2>3. ASSUME NEW k \in 0 .. n PROVE f0[k] = Step(f0)[k]
    <3>1. f0[0] = b
      BY <1>3 DEF Iterated
    <3>2. Step(f0)[k] = IF k = 0 THEN b ELSE ShipShots(f0[k - 1], is[k])
      BY <1>4
    <3> HIDE DEF Step, g
    <3>3. CASE k = 0
      BY ONLY <3>1, <3>2, <3>3
    <3>4. CASE k \in 1 .. n
      <4>1. k # 0
        BY <3>4
      <4> QED
        BY ONLY <2>2, <3>2, <3>4, <4>1
    <3> QED
      BY <1>1, <3>3, <3>4
  <2> QED
    BY <2>3
<1>6. after = Step(after)
  BY <1>5
<1>7. move_shoots_ship(b) = after[n]
  BY DEF Scan, move_shoots_ship, n
<1>8. after[0] = b /\ \A k \in 1 .. n : after[k] = ShipShots(after[k - 1], is[k])
  <2> HIDE DEF after, Step
  <2> QED
    BY <1>1, <1>4, <1>6
<1> QED
  <2> HIDE DEF after
  <2> QED
    BY <1>7, <1>8 DEF n

LEMMA ScanDownFrom ==
    ASSUME NEW b \in Boards, NEW is, is = Down(NUM_ROWS - 3, 3), Len(is) \in Nat,
           \A t \in Boards, k \in 1 .. Len(is) : DownFrom(t, is[k]) \in Boards
    PROVE  \E f : /\ f[0] = b /\ f[Len(is)] = aliens_down(b)
                  /\ \A k \in 1 .. Len(is) : f[k] = DownFrom(f[k - 1], is[k])
<1> DEFINE n == Len(is)
           g == [k \in 1 .. n |-> [t \in Boards |-> DownFrom(t, is[k])]]
           Step(f) == [k \in 0 .. n |->
              IF k = 0 THEN b ELSE CHOOSE r \in {DownFrom(t, is[k]) : t \in {f[k - 1]}} : TRUE]
           after == CHOOSE f : f = Step(f)
<1> HIDE DEF n
<1>1. n \in Nat
  BY DEF n
<1>2. g \in [1 .. n -> [Boards -> Boards]]
  BY DEF n
<1>3. PICK f0 \in [0 .. n -> Boards] : Iterated(f0, g, b, n)
  <2> HIDE DEF g
  <2> QED
    BY <1>1, <1>2, Iterates
<1>4. \A f : \A k \in 0 .. n : Step(f)[k] = IF k = 0 THEN b ELSE DownFrom(f[k - 1], is[k])
  <2> SUFFICES ASSUME NEW f, NEW k \in 0 .. n
               PROVE  Step(f)[k] = IF k = 0 THEN b ELSE DownFrom(f[k - 1], is[k])
    OBVIOUS
  <2>1. {DownFrom(t, is[k]) : t \in {f[k - 1]}} = {DownFrom(f[k - 1], is[k])}
    OBVIOUS
  <2>2. \A r : (CHOOSE q \in {r} : TRUE) = r
    OBVIOUS
  <2> QED
    BY <2>1, <2>2
<1>5. f0 = Step(f0)
  <2>1. \A k \in 1 .. n : f0[k] = g[k][f0[k - 1]] /\ f0[k - 1] \in Boards
    <3> HIDE DEF g
    <3> QED
      BY <1>1, <1>3 DEF Iterated
  <2>2. \A k \in 1 .. n : f0[k] = DownFrom(f0[k - 1], is[k])
    <3>1. \A k \in 1 .. n, t \in Boards : g[k][t] = DownFrom(t, is[k])
      OBVIOUS
    <3> HIDE DEF g, Step
    <3> QED
      BY ONLY <2>1, <3>1
  <2>3. ASSUME NEW k \in 0 .. n PROVE f0[k] = Step(f0)[k]
    <3>1. f0[0] = b
      BY <1>3 DEF Iterated
    <3>2. Step(f0)[k] = IF k = 0 THEN b ELSE DownFrom(f0[k - 1], is[k])
      BY <1>4
    <3> HIDE DEF Step, g
    <3>3. CASE k = 0
      BY ONLY <3>1, <3>2, <3>3
    <3>4. CASE k \in 1 .. n
      <4>1. k # 0
        BY <3>4
      <4> QED
        BY ONLY <2>2, <3>2, <3>4, <4>1
    <3> QED
      BY <1>1, <3>3, <3>4
  <2> QED
    BY <2>3
<1>6. after = Step(after)
  BY <1>5
<1>7. aliens_down(b) = after[n]
  BY DEF Scan, aliens_down, n
<1>8. after[0] = b /\ \A k \in 1 .. n : after[k] = DownFrom(after[k - 1], is[k])
  <2> HIDE DEF after, Step
  <2> QED
    BY <1>1, <1>4, <1>6
<1> QED
  <2> HIDE DEF after
  <2> QED
    BY <1>7, <1>8 DEF n

LEMMA ScanRightFrom ==
    ASSUME NEW b \in Boards, NEW is, is = Down(LastColumn, 2), Len(is) \in Nat,
           \A t \in Boards, k \in 1 .. Len(is) : RightFrom(t, is[k]) \in Boards
    PROVE  \E f : /\ f[0] = b /\ f[Len(is)] = aliens_right(b)
                  /\ \A k \in 1 .. Len(is) : f[k] = RightFrom(f[k - 1], is[k])
<1> DEFINE n == Len(is)
           g == [k \in 1 .. n |-> [t \in Boards |-> RightFrom(t, is[k])]]
           Step(f) == [k \in 0 .. n |->
              IF k = 0 THEN b ELSE CHOOSE r \in {RightFrom(t, is[k]) : t \in {f[k - 1]}} : TRUE]
           after == CHOOSE f : f = Step(f)
<1> HIDE DEF n
<1>1. n \in Nat
  BY DEF n
<1>2. g \in [1 .. n -> [Boards -> Boards]]
  BY DEF n
<1>3. PICK f0 \in [0 .. n -> Boards] : Iterated(f0, g, b, n)
  <2> HIDE DEF g
  <2> QED
    BY <1>1, <1>2, Iterates
<1>4. \A f : \A k \in 0 .. n : Step(f)[k] = IF k = 0 THEN b ELSE RightFrom(f[k - 1], is[k])
  <2> SUFFICES ASSUME NEW f, NEW k \in 0 .. n
               PROVE  Step(f)[k] = IF k = 0 THEN b ELSE RightFrom(f[k - 1], is[k])
    OBVIOUS
  <2>1. {RightFrom(t, is[k]) : t \in {f[k - 1]}} = {RightFrom(f[k - 1], is[k])}
    OBVIOUS
  <2>2. \A r : (CHOOSE q \in {r} : TRUE) = r
    OBVIOUS
  <2> QED
    BY <2>1, <2>2
<1>5. f0 = Step(f0)
  <2>1. \A k \in 1 .. n : f0[k] = g[k][f0[k - 1]] /\ f0[k - 1] \in Boards
    <3> HIDE DEF g
    <3> QED
      BY <1>1, <1>3 DEF Iterated
  <2>2. \A k \in 1 .. n : f0[k] = RightFrom(f0[k - 1], is[k])
    <3>1. \A k \in 1 .. n, t \in Boards : g[k][t] = RightFrom(t, is[k])
      OBVIOUS
    <3> HIDE DEF g, Step
    <3> QED
      BY ONLY <2>1, <3>1
  <2>3. ASSUME NEW k \in 0 .. n PROVE f0[k] = Step(f0)[k]
    <3>1. f0[0] = b
      BY <1>3 DEF Iterated
    <3>2. Step(f0)[k] = IF k = 0 THEN b ELSE RightFrom(f0[k - 1], is[k])
      BY <1>4
    <3> HIDE DEF Step, g
    <3>3. CASE k = 0
      BY ONLY <3>1, <3>2, <3>3
    <3>4. CASE k \in 1 .. n
      <4>1. k # 0
        BY <3>4
      <4> QED
        BY ONLY <2>2, <3>2, <3>4, <4>1
    <3> QED
      BY <1>1, <3>3, <3>4
  <2> QED
    BY <2>3
<1>6. after = Step(after)
  BY <1>5
<1>7. aliens_right(b) = after[n]
  BY DEF Scan, aliens_right, n
<1>8. after[0] = b /\ \A k \in 1 .. n : after[k] = RightFrom(after[k - 1], is[k])
  <2> HIDE DEF after, Step
  <2> QED
    BY <1>1, <1>4, <1>6
<1> QED
  <2> HIDE DEF after
  <2> QED
    BY <1>7, <1>8 DEF n

LEMMA ScanLeftFrom ==
    ASSUME NEW b \in Boards, NEW is, is = Up(2, LastColumn), Len(is) \in Nat,
           \A t \in Boards, k \in 1 .. Len(is) : LeftFrom(t, is[k]) \in Boards
    PROVE  \E f : /\ f[0] = b /\ f[Len(is)] = aliens_left(b)
                  /\ \A k \in 1 .. Len(is) : f[k] = LeftFrom(f[k - 1], is[k])
<1> DEFINE n == Len(is)
           g == [k \in 1 .. n |-> [t \in Boards |-> LeftFrom(t, is[k])]]
           Step(f) == [k \in 0 .. n |->
              IF k = 0 THEN b ELSE CHOOSE r \in {LeftFrom(t, is[k]) : t \in {f[k - 1]}} : TRUE]
           after == CHOOSE f : f = Step(f)
<1> HIDE DEF n
<1>1. n \in Nat
  BY DEF n
<1>2. g \in [1 .. n -> [Boards -> Boards]]
  BY DEF n
<1>3. PICK f0 \in [0 .. n -> Boards] : Iterated(f0, g, b, n)
  <2> HIDE DEF g
  <2> QED
    BY <1>1, <1>2, Iterates
<1>4. \A f : \A k \in 0 .. n : Step(f)[k] = IF k = 0 THEN b ELSE LeftFrom(f[k - 1], is[k])
  <2> SUFFICES ASSUME NEW f, NEW k \in 0 .. n
               PROVE  Step(f)[k] = IF k = 0 THEN b ELSE LeftFrom(f[k - 1], is[k])
    OBVIOUS
  <2>1. {LeftFrom(t, is[k]) : t \in {f[k - 1]}} = {LeftFrom(f[k - 1], is[k])}
    OBVIOUS
  <2>2. \A r : (CHOOSE q \in {r} : TRUE) = r
    OBVIOUS
  <2> QED
    BY <2>1, <2>2
<1>5. f0 = Step(f0)
  <2>1. \A k \in 1 .. n : f0[k] = g[k][f0[k - 1]] /\ f0[k - 1] \in Boards
    <3> HIDE DEF g
    <3> QED
      BY <1>1, <1>3 DEF Iterated
  <2>2. \A k \in 1 .. n : f0[k] = LeftFrom(f0[k - 1], is[k])
    <3>1. \A k \in 1 .. n, t \in Boards : g[k][t] = LeftFrom(t, is[k])
      OBVIOUS
    <3> HIDE DEF g, Step
    <3> QED
      BY ONLY <2>1, <3>1
  <2>3. ASSUME NEW k \in 0 .. n PROVE f0[k] = Step(f0)[k]
    <3>1. f0[0] = b
      BY <1>3 DEF Iterated
    <3>2. Step(f0)[k] = IF k = 0 THEN b ELSE LeftFrom(f0[k - 1], is[k])
      BY <1>4
    <3> HIDE DEF Step, g
    <3>3. CASE k = 0
      BY ONLY <3>1, <3>2, <3>3
    <3>4. CASE k \in 1 .. n
      <4>1. k # 0
        BY <3>4
      <4> QED
        BY ONLY <2>2, <3>2, <3>4, <4>1
    <3> QED
      BY <1>1, <3>3, <3>4
  <2> QED
    BY <2>3
<1>6. after = Step(after)
  BY <1>5
<1>7. aliens_left(b) = after[n]
  BY DEF Scan, aliens_left, n
<1>8. after[0] = b /\ \A k \in 1 .. n : after[k] = LeftFrom(after[k - 1], is[k])
  <2> HIDE DEF after, Step
  <2> QED
    BY <1>1, <1>4, <1>6
<1> QED
  <2> HIDE DEF after
  <2> QED
    BY <1>7, <1>8 DEF n

-----------------------------------------------------------------------------
(* The fleet *)

(* The indices of the loops, one by one. *)
LEMMA UpIs ==
    ASSUME NEW lo \in Int, NEW hi \in Int, lo <= hi
    PROVE  Len(Up(lo, hi)) = hi - lo + 1 /\ \A k \in 1 .. hi - lo + 1 : Up(lo, hi)[k] = lo + k - 1
  BY DEF Up

LEMMA DownIs ==
    ASSUME NEW lo \in Int, NEW hi \in Int, lo <= hi
    PROVE  Len(Down(hi, lo)) = hi - lo + 1 /\ \A k \in 1 .. hi - lo + 1 : Down(hi, lo)[k] = hi - k + 1
  BY DEF Down

(* A step of a scan that moves the aliens of a column. *)
LEMMA ShiftedCells ==
    ASSUME NEW b \in Boards, NEW j \in Int, NEW d \in Int
    PROVE  LET r == Shifted(b, j, d)
           IN  /\ r \in Boards
               /\ \A x, y \in Int : <<x, y>> \in r.alien <=>
                     \/ <<x, y>> \in b.alien /\ ~(y = j /\ x \in 3 .. NUM_ROWS - 4)
                     \/ <<x, j>> \in b.alien /\ y = j + d /\ x \in 3 .. NUM_ROWS - 4
               /\ r.alien_shoot = b.alien_shoot /\ r.ship_shoot = b.ship_shoot /\ r.ship = b.ship
<1> DEFINE here == InColumn(b.alien, j)
           moved == {<<c[1], j + d>> : c \in here}
           r == Shifted(b, j, d)
<1>1. b.alien \subseteq Cell /\ here \subseteq Cell /\ here \subseteq b.alien
  BY DEF Boards, InColumn
<1>2. moved \subseteq Cell
  BY <1>1 DEF Cell
<1>3. \A x, y \in Int : <<x, y>> \in here <=> <<x, y>> \in b.alien /\ y = j /\ x \in 3 .. NUM_ROWS - 4
  BY DEF InColumn
<1>4. \A x, y \in Int : <<x, y>> \in moved <=>
         <<x, j>> \in b.alien /\ y = j + d /\ x \in 3 .. NUM_ROWS - 4
  <2> SUFFICES ASSUME NEW x \in Int, NEW y \in Int
               PROVE  <<x, y>> \in moved <=>
                         <<x, j>> \in b.alien /\ y = j + d /\ x \in 3 .. NUM_ROWS - 4
    OBVIOUS
  <2>1. ASSUME <<x, y>> \in moved
        PROVE  <<x, j>> \in b.alien /\ y = j + d /\ x \in 3 .. NUM_ROWS - 4
    <3>1. PICK c \in here : <<x, y>> = <<c[1], j + d>>
      BY <2>1
    <3>2. c \in Cell /\ c[2] = j /\ c[1] \in 3 .. NUM_ROWS - 4 /\ c \in b.alien
      BY <1>1 DEF InColumn
    <3>3. c = <<x, j>>
      BY <3>1, <3>2 DEF Cell
    <3> QED
      BY <3>1, <3>2, <3>3
  <2>2. ASSUME <<x, j>> \in b.alien, y = j + d, x \in 3 .. NUM_ROWS - 4
        PROVE  <<x, y>> \in moved
    <3>1. <<x, j>> \in here
      BY <1>3, <2>2
    <3> QED
      BY <2>2, <3>1
  <2> QED
    BY <2>1, <2>2
<1> HIDE DEF here, moved
<1>5. r = [b EXCEPT !.alien = (b.alien \ here) \cup moved, !.shield = b.shield \ here]
  BY DEF Shifted, here, moved
<1> HIDE DEF r
<1>6. /\ r \in Boards /\ r.alien = (b.alien \ here) \cup moved
      /\ r.alien_shoot = b.alien_shoot /\ r.ship_shoot = b.ship_shoot /\ r.ship = b.ship
  BY <1>1, <1>2, <1>5 DEF Boards
<1> QED
  BY <1>3, <1>4, <1>6 DEF r

(* The fleet goes one column to the right: every alien, and nothing else. *)
LEMMA FleetRight ==
    ASSUME NEW b \in Boards, b.alien \subseteq (3 .. NUM_ROWS - 4) \X Columns
    PROVE  LET r == aliens_right(b)
           IN  /\ r \in Boards
               /\ \A x, y \in Int : <<x, y>> \in r.alien <=> <<x, y - 1>> \in b.alien
               /\ r.alien_shoot = b.alien_shoot /\ r.ship_shoot = b.ship_shoot /\ r.ship = b.ship
<1> DEFINE n == LastColumn - 1
           is == Down(LastColumn, 2)
<1>1. n \in Nat /\ LastColumn \in Int /\ LastColumn >= 2 /\ Len(is) = n
      /\ \A k \in 1 .. n : is[k] = LastColumn - k + 1 /\ is[k] \in Int
  <2>1. LastColumn \in Int /\ 2 \in Int /\ 2 <= LastColumn
    BY BoardAssumption DEF LastColumn
  <2>2. LastColumn - 2 + 1 = n /\ n \in Nat
    BY <2>1
  <2>3. /\ Len(is) = LastColumn - 2 + 1
        /\ \A k \in 1 .. LastColumn - 2 + 1 : is[k] = LastColumn - k + 1
    <3> HIDE DEF n
    <3> QED
      BY <2>1, DownIs
  <2>4. \A k \in 1 .. n : is[k] = LastColumn - k + 1
    <3> HIDE DEF n, is
    <3> QED
      BY <2>2, <2>3
  <2> QED
    <3> HIDE DEF n, is
    <3> QED
      BY <2>1, <2>2, <2>3, <2>4
<1> HIDE DEF n, is
<1>2. \A t \in Boards, k \in 1 .. n : RightFrom(t, is[k]) \in Boards
  <2> SUFFICES ASSUME NEW t \in Boards, NEW k \in 1 .. n PROVE RightFrom(t, is[k]) \in Boards
    OBVIOUS
  <2>1. is[k] \in Int /\ 1 \in Int
    BY <1>1
  <2>2. LET r == Shifted(t, is[k], 1) IN r \in Boards
    BY <2>1, ShiftedCells
  <2> QED
    BY <2>2 DEF RightFrom
<1>3. PICK f : /\ f[0] = b /\ f[n] = aliens_right(b)
               /\ \A k \in 1 .. n : f[k] = RightFrom(f[k - 1], is[k])
  <2>1. is = Down(LastColumn, 2)
    BY DEF is
  <2>2. \E f : /\ f[0] = b /\ f[Len(is)] = aliens_right(b)
               /\ \A k \in 1 .. Len(is) : f[k] = RightFrom(f[k - 1], is[k])
    <3>1. Len(is) \in Nat /\ \A t \in Boards, k \in 1 .. Len(is) : RightFrom(t, is[k]) \in Boards
      BY <1>1, <1>2
    <3> QED
      BY <2>1, <3>1, ScanRightFrom
  <2> QED
    BY <1>1, <2>2
<1> DEFINE Moved(k) ==
              /\ f[k] \in Boards
              /\ \A x, y \in Int : <<x, y>> \in f[k].alien <=>
                    \/ <<x, y>> \in b.alien /\ y <= LastColumn - k
                    \/ <<x, y - 1>> \in b.alien /\ y - 1 > LastColumn - k
              /\ f[k].alien_shoot = b.alien_shoot /\ f[k].ship_shoot = b.ship_shoot
              /\ f[k].ship = b.ship
           S == {k \in 0 .. n : Moved(k)}
<1>4. \A x, y \in Int : <<x, y>> \in b.alien =>
         x \in 3 .. NUM_ROWS - 4 /\ 2 <= y /\ y <= LastColumn
  BY DEF Columns, LEFT_END
<1>5. 0 \in S
  BY <1>1, <1>3, <1>4
<1>6. \A k \in 0 .. n - 1 : k \in S => k + 1 \in S
  <2> SUFFICES ASSUME NEW k \in 0 .. n - 1, Moved(k) PROVE Moved(k + 1)
    <3>1. \A k \in 0 .. n - 1 : k + 1 \in 0 .. n
      BY ONLY <1>1
    <3> HIDE DEF Moved
    <3> QED
      BY <3>1
  <2>1. k + 1 \in 1 .. n /\ k + 1 - 1 = k
    BY <1>1
  <2>2. f[k + 1] = Shifted(f[k], LastColumn - k, 1) /\ LastColumn - k \in Int
    BY <1>1, <1>3, <2>1 DEF RightFrom
  <2>3. /\ f[k + 1] \in Boards
        /\ \A x, y \in Int : <<x, y>> \in f[k + 1].alien <=>
              \/ <<x, y>> \in f[k].alien /\ ~(y = LastColumn - k /\ x \in 3 .. NUM_ROWS - 4)
              \/ /\ <<x, LastColumn - k>> \in f[k].alien
                 /\ y = LastColumn - k + 1 /\ x \in 3 .. NUM_ROWS - 4
        /\ f[k + 1].alien_shoot = f[k].alien_shoot /\ f[k + 1].ship_shoot = f[k].ship_shoot
        /\ f[k + 1].ship = f[k].ship
    BY <2>2, ShiftedCells
  <2>4. \A x, y \in Int : <<x, y>> \in f[k + 1].alien <=>
                    \/ <<x, y>> \in b.alien /\ y <= LastColumn - (k + 1)
                    \/ <<x, y - 1>> \in b.alien /\ y - 1 > LastColumn - (k + 1)
    <3> SUFFICES ASSUME NEW x \in Int, NEW y \in Int
                 PROVE  <<x, y>> \in f[k + 1].alien <=>
                           \/ <<x, y>> \in b.alien /\ y <= LastColumn - (k + 1)
                           \/ <<x, y - 1>> \in b.alien /\ y - 1 > LastColumn - (k + 1)
      OBVIOUS
    <3> DEFINE j == LastColumn - k
    <3>1. j \in Int /\ j + 1 \in Int /\ y - 1 \in Int /\ j + 1 - 1 = j
      BY <1>1
    <3>2. <<x, y>> \in f[k].alien <=> (<<x, y>> \in b.alien /\ y <= j) \/ (<<x, y - 1>> \in b.alien /\ y - 1 > j)
      BY <3>1
    <3>3. <<x, j>> \in f[k].alien <=> <<x, j>> \in b.alien
      <4>1. <<x, j>> \in f[k].alien <=>
               (<<x, j>> \in b.alien /\ j <= j) \/ (<<x, j - 1>> \in b.alien /\ j - 1 > j)
        BY <3>1
      <4>2. j <= j /\ ~(j - 1 > j)
        BY <3>1
      <4> QED
        BY <4>1, <4>2
    <3>4. /\ <<x, y>> \in b.alien => x \in 3 .. NUM_ROWS - 4
          /\ <<x, y - 1>> \in b.alien => x \in 3 .. NUM_ROWS - 4
          /\ <<x, j>> \in b.alien => x \in 3 .. NUM_ROWS - 4
      BY <1>4, <3>1
    <3>5. <<x, y>> \in f[k + 1].alien <=>
              \/ <<x, y>> \in f[k].alien /\ ~(y = j /\ x \in 3 .. NUM_ROWS - 4)
              \/ <<x, j>> \in f[k].alien /\ y = j + 1 /\ x \in 3 .. NUM_ROWS - 4
      BY <2>3
    <3>6. LastColumn - (k + 1) = j - 1
      BY <1>1
    <3>7. CASE y = j + 1
      <4>1. y - 1 = j
        BY <3>1, <3>7
      <4> HIDE DEF j
      <4> QED
        BY <3>1, <3>2, <3>3, <3>4, <3>5, <3>6, <3>7, <4>1
    <3>8. CASE y # j + 1
      <4> HIDE DEF j
      <4> QED
        BY <3>1, <3>2, <3>3, <3>4, <3>5, <3>6, <3>8
    <3> QED
      BY <3>7, <3>8
  <2> QED
    BY <2>3, <2>4
<1>7. 0 .. n \subseteq S
  <2> HIDE DEF S
  <2> QED
    BY <1>1, <1>5, <1>6, UpTo
<1>8. Moved(n)
  BY <1>1, <1>7
<1>9. \A x, y \in Int : <<x, y>> \in f[n].alien <=> <<x, y - 1>> \in b.alien
  <2> SUFFICES ASSUME NEW x \in Int, NEW y \in Int
               PROVE  <<x, y>> \in f[n].alien <=> <<x, y - 1>> \in b.alien
    OBVIOUS
  <2>1. LastColumn - n = 1 /\ y - 1 \in Int
    BY <1>1 DEF n
  <2>2. <<x, y>> \in b.alien => ~(y <= 1)
    BY <1>4
  <2>3. <<x, y - 1>> \in b.alien => y - 1 > 1
    BY <1>4, <2>1
  <2>4. <<x, y>> \in f[n].alien <=>
           (<<x, y>> \in b.alien /\ y <= 1) \/ (<<x, y - 1>> \in b.alien /\ y - 1 > 1)
    BY <1>8, <2>1
  <2> QED
    BY <2>2, <2>3, <2>4
<1> QED
  BY <1>3, <1>8, <1>9

(* The fleet goes one column to the left: every alien, and nothing else. *)
LEMMA FleetLeft ==
    ASSUME NEW b \in Boards, b.alien \subseteq (3 .. NUM_ROWS - 4) \X Columns
    PROVE  LET r == aliens_left(b)
           IN  /\ r \in Boards
               /\ \A x, y \in Int : <<x, y>> \in r.alien <=> <<x, y + 1>> \in b.alien
               /\ r.alien_shoot = b.alien_shoot /\ r.ship_shoot = b.ship_shoot /\ r.ship = b.ship
<1> DEFINE n == LastColumn - 1
           is == Up(2, LastColumn)
<1>1. n \in Nat /\ LastColumn \in Int /\ LastColumn >= 2 /\ Len(is) = n
      /\ \A k \in 1 .. n : is[k] = 2 + k - 1 /\ is[k] \in Int
  <2>1. LastColumn \in Int /\ 2 \in Int /\ 2 <= LastColumn
    BY BoardAssumption DEF LastColumn
  <2>2. LastColumn - 2 + 1 = n /\ n \in Nat
    BY <2>1
  <2>3. Len(is) = LastColumn - 2 + 1 /\ \A k \in 1 .. LastColumn - 2 + 1 : is[k] = 2 + k - 1
    <3> HIDE DEF n
    <3> QED
      BY <2>1, UpIs
  <2>4. \A k \in 1 .. n : is[k] = 2 + k - 1
    <3> HIDE DEF n, is
    <3> QED
      BY <2>2, <2>3
  <2> QED
    <3> HIDE DEF n, is
    <3> QED
      BY <2>1, <2>2, <2>3, <2>4
<1> HIDE DEF n, is
<1>2. \A t \in Boards, k \in 1 .. n : LeftFrom(t, is[k]) \in Boards
  <2> SUFFICES ASSUME NEW t \in Boards, NEW k \in 1 .. n PROVE LeftFrom(t, is[k]) \in Boards
    OBVIOUS
  <2>1. is[k] \in Int /\ -1 \in Int
    BY <1>1
  <2>2. LET r == Shifted(t, is[k], -1) IN r \in Boards
    BY <2>1, ShiftedCells
  <2> QED
    BY <2>2 DEF LeftFrom
<1>3. PICK f : /\ f[0] = b /\ f[n] = aliens_left(b)
               /\ \A k \in 1 .. n : f[k] = LeftFrom(f[k - 1], is[k])
  <2>1. is = Up(2, LastColumn)
    BY DEF is
  <2>2. \E f : /\ f[0] = b /\ f[Len(is)] = aliens_left(b)
               /\ \A k \in 1 .. Len(is) : f[k] = LeftFrom(f[k - 1], is[k])
    <3>1. Len(is) \in Nat /\ \A t \in Boards, k \in 1 .. Len(is) : LeftFrom(t, is[k]) \in Boards
      BY <1>1, <1>2
    <3> QED
      BY <2>1, <3>1, ScanLeftFrom
  <2> QED
    BY <1>1, <2>2
<1> DEFINE Moved(k) ==
              /\ f[k] \in Boards
              /\ \A x, y \in Int : <<x, y>> \in f[k].alien <=>
                    \/ <<x, y>> \in b.alien /\ y > k + 1
                    \/ <<x, y + 1>> \in b.alien /\ y + 1 <= k + 1
              /\ f[k].alien_shoot = b.alien_shoot /\ f[k].ship_shoot = b.ship_shoot
              /\ f[k].ship = b.ship
           S == {k \in 0 .. n : Moved(k)}
<1>4. \A x, y \in Int : <<x, y>> \in b.alien =>
         x \in 3 .. NUM_ROWS - 4 /\ 2 <= y /\ y <= LastColumn
  BY DEF Columns, LEFT_END
<1>5. 0 \in S
  BY <1>1, <1>3, <1>4
<1>6. \A k \in 0 .. n - 1 : k \in S => k + 1 \in S
  <2> SUFFICES ASSUME NEW k \in 0 .. n - 1, Moved(k) PROVE Moved(k + 1)
    <3>1. \A k \in 0 .. n - 1 : k + 1 \in 0 .. n
      BY ONLY <1>1
    <3> HIDE DEF Moved
    <3> QED
      BY <3>1
  <2>1. k + 1 \in 1 .. n /\ k + 1 - 1 = k
    BY <1>1
  <2>2. f[k + 1] = Shifted(f[k], k + 2, -1) /\ k + 2 \in Int
    BY <1>1, <1>3, <2>1 DEF LeftFrom
  <2>3. /\ f[k + 1] \in Boards
        /\ \A x, y \in Int : <<x, y>> \in f[k + 1].alien <=>
              \/ <<x, y>> \in f[k].alien /\ ~(y = k + 2 /\ x \in 3 .. NUM_ROWS - 4)
              \/ /\ <<x, k + 2>> \in f[k].alien
                 /\ y = k + 2 + -1 /\ x \in 3 .. NUM_ROWS - 4
        /\ f[k + 1].alien_shoot = f[k].alien_shoot /\ f[k + 1].ship_shoot = f[k].ship_shoot
        /\ f[k + 1].ship = f[k].ship
    <3>1. f[k] \in Boards /\ k + 2 \in Int /\ -1 \in Int
      BY <2>2
    <3> QED
      BY ONLY <2>2, <3>1, ShiftedCells
  <2>4. \A x, y \in Int : <<x, y>> \in f[k + 1].alien <=>
                    \/ <<x, y>> \in b.alien /\ y > (k + 1) + 1
                    \/ <<x, y + 1>> \in b.alien /\ y + 1 <= (k + 1) + 1
    <3> SUFFICES ASSUME NEW x \in Int, NEW y \in Int
                 PROVE  <<x, y>> \in f[k + 1].alien <=>
                           \/ <<x, y>> \in b.alien /\ y > (k + 1) + 1
                           \/ <<x, y + 1>> \in b.alien /\ y + 1 <= (k + 1) + 1
      OBVIOUS
    <3> DEFINE j == k + 2
    <3>1. j \in Int /\ j - 1 \in Int /\ y + 1 \in Int /\ j - 1 + 1 = j /\ j + -1 = j - 1
          /\ k + 1 = j - 1
      BY <1>1
    <3>2. <<x, y>> \in f[k].alien <=> (<<x, y>> \in b.alien /\ y > j - 1) \/ (<<x, y + 1>> \in b.alien /\ y + 1 <= j - 1)
      BY <3>1
    <3>3. <<x, j>> \in f[k].alien <=> <<x, j>> \in b.alien
      <4>1. <<x, j>> \in f[k].alien <=>
               (<<x, j>> \in b.alien /\ j > j - 1) \/ (<<x, j + 1>> \in b.alien /\ j + 1 <= j - 1)
        BY <3>1
      <4>2. j > j - 1 /\ ~(j + 1 <= j - 1)
        BY <3>1
      <4> QED
        BY <4>1, <4>2
    <3>4. /\ <<x, y>> \in b.alien => x \in 3 .. NUM_ROWS - 4
          /\ <<x, y + 1>> \in b.alien => x \in 3 .. NUM_ROWS - 4
          /\ <<x, j>> \in b.alien => x \in 3 .. NUM_ROWS - 4
      BY <1>4, <3>1
    <3>5. <<x, y>> \in f[k + 1].alien <=>
              \/ <<x, y>> \in f[k].alien /\ ~(y = j /\ x \in 3 .. NUM_ROWS - 4)
              \/ <<x, j>> \in f[k].alien /\ y = j - 1 /\ x \in 3 .. NUM_ROWS - 4
      BY <2>3
    <3>6. (k + 1) + 1 = j
      BY <1>1
    <3>7. CASE y = j - 1
      <4>1. y + 1 = j
        BY <3>1, <3>7
      <4> HIDE DEF j
      <4> QED
        BY <3>1, <3>2, <3>3, <3>4, <3>5, <3>6, <3>7, <4>1
    <3>8. CASE y # j - 1
      <4> HIDE DEF j
      <4> QED
        BY <3>1, <3>2, <3>3, <3>4, <3>5, <3>6, <3>8
    <3> QED
      BY <3>7, <3>8
  <2> QED
    BY <2>3, <2>4
<1>7. 0 .. n \subseteq S
  <2> HIDE DEF S
  <2> QED
    BY <1>1, <1>5, <1>6, UpTo
<1>8. Moved(n)
  BY <1>1, <1>7
<1>9. \A x, y \in Int : <<x, y>> \in f[n].alien <=> <<x, y + 1>> \in b.alien
  <2> SUFFICES ASSUME NEW x \in Int, NEW y \in Int
               PROVE  <<x, y>> \in f[n].alien <=> <<x, y + 1>> \in b.alien
    OBVIOUS
  <2>1. n + 1 = LastColumn /\ y + 1 \in Int
    BY <1>1 DEF n
  <2>2. <<x, y>> \in b.alien => ~(y > LastColumn)
    BY <1>1, <1>4
  <2>3. <<x, y + 1>> \in b.alien => y + 1 <= LastColumn
    BY <1>4, <2>1
  <2>4. <<x, y>> \in f[n].alien <=>
           (<<x, y>> \in b.alien /\ y > LastColumn) \/ (<<x, y + 1>> \in b.alien /\ y + 1 <= LastColumn)
    BY <1>8, <2>1
  <2> QED
    BY <2>2, <2>3, <2>4
<1> QED
  BY <1>3, <1>8, <1>9

(* A step of a scan that brings the aliens of a row down; those that a shot has reached die. *)
LEMMA DownCells ==
    ASSUME NEW b \in Boards, NEW i \in Int
    PROVE  LET r == DownFrom(b, i)
           IN  /\ r \in Boards
               /\ \A x, y \in Int : <<x, y>> \in r.alien <=>
                     \/ <<x, y>> \in b.alien /\ ~(x = i /\ y \in Columns)
                     \/ <<i, y>> \in b.alien \ b.ship_shoot /\ x = i + 1 /\ y \in Columns
               /\ r.alien_shoot = b.alien_shoot /\ r.ship_shoot = b.ship_shoot /\ r.ship = b.ship
<1> DEFINE here == InRow(b.alien, i)
           coming == here \ b.ship_shoot
           moved == {Below(c) : c \in coming}
           r == DownFrom(b, i)
<1>1. b.alien \subseteq Cell /\ here \subseteq Cell /\ here \subseteq b.alien
  BY DEF Boards, InRow
<1>2. moved \subseteq Cell
  BY <1>1 DEF Cell, Below
<1>3. \A x, y \in Int : <<x, y>> \in here <=> <<x, y>> \in b.alien /\ x = i /\ y \in Columns
  BY DEF InRow
<1>4. \A x, y \in Int : <<x, y>> \in moved <=>
         <<i, y>> \in b.alien \ b.ship_shoot /\ x = i + 1 /\ y \in Columns
  <2> SUFFICES ASSUME NEW x \in Int, NEW y \in Int
               PROVE  <<x, y>> \in moved <=>
                         <<i, y>> \in b.alien \ b.ship_shoot /\ x = i + 1 /\ y \in Columns
    OBVIOUS
  <2>1. ASSUME <<x, y>> \in moved
        PROVE  <<i, y>> \in b.alien \ b.ship_shoot /\ x = i + 1 /\ y \in Columns
    <3>1. PICK c \in coming : <<x, y>> = <<c[1] + 1, c[2]>>
      BY <2>1 DEF Below
    <3>2. c \in Cell /\ c[1] = i /\ c[2] \in Columns /\ c \in b.alien \ b.ship_shoot
      BY <1>1 DEF InRow
    <3>3. c = <<i, y>>
      BY <3>1, <3>2 DEF Cell
    <3> QED
      BY <3>1, <3>2, <3>3
  <2>2. ASSUME <<i, y>> \in b.alien \ b.ship_shoot, x = i + 1, y \in Columns
        PROVE  <<x, y>> \in moved
    <3>1. <<i, y>> \in coming
      BY <1>3, <2>2
    <3>2. Below(<<i, y>>) = <<x, y>>
      BY <2>2 DEF Below
    <3> QED
      BY <3>1, <3>2
  <2> QED
    BY <2>1, <2>2
<1> HIDE DEF here, coming, moved
<1>5. r = [b EXCEPT !.alien = (b.alien \ here) \cup moved, !.shield = b.shield \ coming]
  BY DEF DownFrom, here, coming, moved
<1> HIDE DEF r
<1>6. /\ r \in Boards /\ r.alien = (b.alien \ here) \cup moved
      /\ r.alien_shoot = b.alien_shoot /\ r.ship_shoot = b.ship_shoot /\ r.ship = b.ship
  BY <1>1, <1>2, <1>5 DEF Boards
<1> QED
  BY <1>3, <1>4, <1>6 DEF r

(* The fleet comes one row down, without the aliens that a shot has reached. *)
LEMMA FleetDown ==
    ASSUME NEW b \in Boards, b.alien \subseteq (3 .. NUM_ROWS - 4) \X Columns
    PROVE  LET r == aliens_down(b)
           IN  /\ r \in Boards
               /\ \A x, y \in Int : <<x, y>> \in r.alien <=> <<x - 1, y>> \in b.alien \ b.ship_shoot
               /\ r.alien_shoot = b.alien_shoot /\ r.ship_shoot = b.ship_shoot /\ r.ship = b.ship
<1> DEFINE n == NUM_ROWS - 5
           is == Down(NUM_ROWS - 3, 3)
<1>1. n \in Nat /\ NUM_ROWS \in Int /\ NUM_ROWS >= 7 /\ Len(is) = n
      /\ \A k \in 1 .. n : is[k] = NUM_ROWS - 3 - k + 1 /\ is[k] \in Int
  <2>1. NUM_ROWS \in Int /\ 3 \in Int /\ 3 <= NUM_ROWS - 3 /\ NUM_ROWS - 3 \in Int
    BY BoardAssumption DEF FIRST_ROW
  <2>2. NUM_ROWS - 3 - 3 + 1 = n /\ n \in Nat /\ NUM_ROWS >= 7
    BY BoardAssumption DEF FIRST_ROW
  <2>3. /\ Len(is) = NUM_ROWS - 3 - 3 + 1
        /\ \A k \in 1 .. NUM_ROWS - 3 - 3 + 1 : is[k] = NUM_ROWS - 3 - k + 1
    <3> HIDE DEF n
    <3> QED
      BY <2>1, DownIs
  <2>4. \A k \in 1 .. n : is[k] = NUM_ROWS - 3 - k + 1
    <3> HIDE DEF n, is
    <3> QED
      BY <2>2, <2>3
  <2> QED
    <3> HIDE DEF n, is
    <3> QED
      BY <2>1, <2>2, <2>3, <2>4
<1> HIDE DEF n, is
<1>2. \A t \in Boards, k \in 1 .. n : DownFrom(t, is[k]) \in Boards
  BY <1>1, DownCells DEF DownFrom
<1>3. PICK f : /\ f[0] = b /\ f[n] = aliens_down(b)
               /\ \A k \in 1 .. n : f[k] = DownFrom(f[k - 1], is[k])
  <2>1. is = Down(NUM_ROWS - 3, 3)
    BY DEF is
  <2>2. \E f : /\ f[0] = b /\ f[Len(is)] = aliens_down(b)
               /\ \A k \in 1 .. Len(is) : f[k] = DownFrom(f[k - 1], is[k])
    <3>1. Len(is) \in Nat /\ \A t \in Boards, k \in 1 .. Len(is) : DownFrom(t, is[k]) \in Boards
      BY <1>1, <1>2
    <3>2. b \in Boards
      OBVIOUS
    <3> QED
      BY ONLY <2>1, <3>1, <3>2, ScanDownFrom
  <2> QED
    BY <1>1, <2>2
<1> DEFINE Moved(k) ==
              /\ f[k] \in Boards
              /\ \A x, y \in Int : <<x, y>> \in f[k].alien <=>
                    \/ <<x, y>> \in b.alien /\ x <= NUM_ROWS - 3 - k
                    \/ <<x - 1, y>> \in b.alien \ b.ship_shoot /\ x - 1 > NUM_ROWS - 3 - k
              /\ f[k].alien_shoot = b.alien_shoot /\ f[k].ship_shoot = b.ship_shoot
              /\ f[k].ship = b.ship
           S == {k \in 0 .. n : Moved(k)}
<1>4. \A x, y \in Int : <<x, y>> \in b.alien =>
         y \in Columns /\ 3 <= x /\ x <= NUM_ROWS - 4
  BY <1>1
<1>5. 0 \in S
  BY <1>1, <1>3, <1>4
<1>6. \A k \in 0 .. n - 1 : k \in S => k + 1 \in S
  <2> SUFFICES ASSUME NEW k \in 0 .. n - 1, Moved(k) PROVE Moved(k + 1)
    <3>1. \A k \in 0 .. n - 1 : k + 1 \in 0 .. n
      BY ONLY <1>1
    <3> HIDE DEF Moved
    <3> QED
      BY <3>1
  <2> DEFINE i == NUM_ROWS - 3 - k
  <2>1. k + 1 \in 1 .. n /\ k + 1 - 1 = k /\ i \in Int /\ NUM_ROWS - 3 - (k + 1) + 1 = i
    BY <1>1
  <2>2. f[k + 1] = DownFrom(f[k], i)
    <3>1. is[k + 1] = i
      BY <1>1, <2>1
    <3> QED
      BY <1>3, <2>1, <3>1
  <2>3. /\ f[k + 1] \in Boards
        /\ \A x, y \in Int : <<x, y>> \in f[k + 1].alien <=>
              \/ <<x, y>> \in f[k].alien /\ ~(x = i /\ y \in Columns)
              \/ <<i, y>> \in f[k].alien \ f[k].ship_shoot /\ x = i + 1 /\ y \in Columns
        /\ f[k + 1].alien_shoot = f[k].alien_shoot /\ f[k + 1].ship_shoot = f[k].ship_shoot
        /\ f[k + 1].ship = f[k].ship
    <3> DEFINE t == f[k]
    <3>1. t \in Boards /\ i \in Int /\ f[k + 1] = DownFrom(t, i)
      BY <2>1, <2>2
    <3> HIDE DEF i, t
    <3>2. LET r == DownFrom(t, i)
          IN  /\ r \in Boards
              /\ \A x, y \in Int : <<x, y>> \in r.alien <=>
                    \/ <<x, y>> \in t.alien /\ ~(x = i /\ y \in Columns)
                    \/ <<i, y>> \in t.alien \ t.ship_shoot /\ x = i + 1 /\ y \in Columns
              /\ r.alien_shoot = t.alien_shoot /\ r.ship_shoot = t.ship_shoot /\ r.ship = t.ship
      BY ONLY <3>1, DownCells
    <3> QED
      BY ONLY <3>1, <3>2 DEF t
  <2>4. \A x, y \in Int : <<x, y>> \in f[k + 1].alien <=>
                    \/ <<x, y>> \in b.alien /\ x <= NUM_ROWS - 3 - (k + 1)
                    \/ <<x - 1, y>> \in b.alien \ b.ship_shoot /\ x - 1 > NUM_ROWS - 3 - (k + 1)
    <3> SUFFICES ASSUME NEW x \in Int, NEW y \in Int
                 PROVE  <<x, y>> \in f[k + 1].alien <=>
                    \/ <<x, y>> \in b.alien /\ x <= NUM_ROWS - 3 - (k + 1)
                    \/ <<x - 1, y>> \in b.alien \ b.ship_shoot /\ x - 1 > NUM_ROWS - 3 - (k + 1)
      OBVIOUS
    <3>1. i \in Int /\ i + 1 \in Int /\ x - 1 \in Int /\ i + 1 - 1 = i
      BY <1>1
    <3>2. <<x, y>> \in f[k].alien <=>
             \/ <<x, y>> \in b.alien /\ x <= i
             \/ <<x - 1, y>> \in b.alien \ b.ship_shoot /\ x - 1 > i
      BY <3>1
    <3>3. <<i, y>> \in f[k].alien \ f[k].ship_shoot <=> <<i, y>> \in b.alien \ b.ship_shoot
      <4>1. <<i, y>> \in f[k].alien <=>
               \/ <<i, y>> \in b.alien /\ i <= i
               \/ <<i - 1, y>> \in b.alien \ b.ship_shoot /\ i - 1 > i
        BY <3>1
      <4>2. i <= i /\ ~(i - 1 > i)
        BY <3>1
      <4>3. f[k].ship_shoot = b.ship_shoot
        OBVIOUS
      <4> QED
        BY <4>1, <4>2, <4>3
    <3>4. /\ <<x, y>> \in b.alien => y \in Columns
          /\ <<x - 1, y>> \in b.alien => y \in Columns
          /\ <<i, y>> \in b.alien => y \in Columns
      BY <1>4, <3>1
    <3>5. <<x, y>> \in f[k + 1].alien <=>
              \/ <<x, y>> \in f[k].alien /\ ~(x = i /\ y \in Columns)
              \/ <<i, y>> \in f[k].alien \ f[k].ship_shoot /\ x = i + 1 /\ y \in Columns
      BY <2>3
    <3>6. NUM_ROWS - 3 - (k + 1) = i - 1
      BY <1>1
    <3>7. CASE x = i + 1
      <4>1. x - 1 = i
        BY <3>1, <3>7
      <4> HIDE DEF i
      <4> QED
        BY <3>1, <3>2, <3>3, <3>4, <3>5, <3>6, <3>7, <4>1
    <3>8. CASE x # i + 1
      <4> HIDE DEF i
      <4> QED
        BY <3>1, <3>2, <3>3, <3>4, <3>5, <3>6, <3>8
    <3> QED
      BY <3>7, <3>8
  <2> QED
    BY <2>3, <2>4
<1>7. 0 .. n \subseteq S
  <2> HIDE DEF S
  <2> QED
    BY <1>1, <1>5, <1>6, UpTo
<1>8. Moved(n)
  BY <1>1, <1>7
<1>9. \A x, y \in Int : <<x, y>> \in f[n].alien <=> <<x - 1, y>> \in b.alien \ b.ship_shoot
  <2> SUFFICES ASSUME NEW x \in Int, NEW y \in Int
               PROVE  <<x, y>> \in f[n].alien <=> <<x - 1, y>> \in b.alien \ b.ship_shoot
    OBVIOUS
  <2>1. NUM_ROWS - 3 - n = 2 /\ x - 1 \in Int
    BY <1>1 DEF n
  <2>2. <<x, y>> \in b.alien => ~(x <= 2)
    BY <1>4
  <2>3. <<x - 1, y>> \in b.alien => x - 1 > 2
    BY <1>4, <2>1
  <2>4. <<x, y>> \in f[n].alien <=>
           (<<x, y>> \in b.alien /\ x <= 2) \/ (<<x - 1, y>> \in b.alien \ b.ship_shoot /\ x - 1 > 2)
    BY <1>8, <2>1
  <2> QED
    BY <2>2, <2>3, <2>4
<1> QED
  BY <1>3, <1>8, <1>9

-----------------------------------------------------------------------------
(* The shots *)

(* A step of the scan that moves the shots of the aliens in row i. *)
LEMMA AlienShotCells ==
    ASSUME NEW b \in Boards, NEW i \in Int
    PROVE  LET r == AlienShots(b, i)
           IN  /\ r \in Boards
               /\ \A x, y \in Int : <<x, y>> \in r.alien_shoot <=>
                     \/ <<x, y>> \in b.alien_shoot /\ ~(x = i /\ y \in Columns)
                     \/ /\ x = i + 1 /\ y \in Columns /\ i < NUM_ROWS - 2
                        /\ <<i, y>> \in b.alien_shoot \ b.shield
                        /\ ~(<<i, y>> \in b.ship_shoot /\ <<i + 1, y>> \in b.ship_shoot)
               /\ r.shield \subseteq b.shield
               /\ r.alien = b.alien /\ r.ship_shoot = b.ship_shoot /\ r.ship = b.ship
<1> DEFINE here == InRow(b.alien_shoot, i)
           moving == {c \in here \ b.shield : /\ i < NUM_ROWS - 2
                                              /\ {c, Below(c)} \cap b.ship_shoot # {c, Below(c)}}
           moved == {Below(c) : c \in moving}
           r == AlienShots(b, i)
           Goes(y) == /\ y \in Columns /\ i < NUM_ROWS - 2 /\ <<i, y>> \in b.alien_shoot \ b.shield
                      /\ ~(<<i, y>> \in b.ship_shoot /\ <<i + 1, y>> \in b.ship_shoot)
<1>1. b.alien_shoot \subseteq Cell /\ here \subseteq Cell /\ moving \subseteq here
  BY DEF Boards, InRow
<1>2. moved \subseteq Cell
  <2> HIDE DEF here, moving
  <2> QED
    BY <1>1 DEF Cell, Below
<1>3. \A x, y \in Int : <<x, y>> \in here <=> <<x, y>> \in b.alien_shoot /\ x = i /\ y \in Columns
  BY DEF InRow
<1>4. \A y \in Int : <<i, y>> \in moving <=> Goes(y)
  <2> SUFFICES ASSUME NEW y \in Int PROVE <<i, y>> \in moving <=> Goes(y)
    OBVIOUS
  <2>1. Below(<<i, y>>) = <<i + 1, y>>
    BY DEF Below
  <2>2. \A c, d : {c, d} \cap b.ship_shoot # {c, d} <=> ~(c \in b.ship_shoot /\ d \in b.ship_shoot)
    OBVIOUS
  <2>3. <<i, y>> \in here <=> <<i, y>> \in b.alien_shoot /\ y \in Columns
    BY <1>3
  <2> HIDE DEF here
  <2> QED
    BY <2>1, <2>2, <2>3
<1>5. \A x, y \in Int : <<x, y>> \in moved <=> x = i + 1 /\ Goes(y)
  <2> SUFFICES ASSUME NEW x \in Int, NEW y \in Int
               PROVE  <<x, y>> \in moved <=> x = i + 1 /\ Goes(y)
    OBVIOUS
  <2> HIDE DEF Goes
  <2>1. ASSUME <<x, y>> \in moved
        PROVE  x = i + 1 /\ Goes(y)
    <3>1. PICK c \in moving : <<x, y>> = <<c[1] + 1, c[2]>>
      BY <2>1 DEF Below
    <3>2. c \in Cell /\ c[1] = i
      BY <1>1 DEF InRow
    <3>3. c = <<i, y>> /\ x = i + 1
      BY <3>1, <3>2 DEF Cell
    <3> HIDE DEF moving
    <3> QED
      BY <1>4, <3>1, <3>3
  <2>2. ASSUME x = i + 1, Goes(y)
        PROVE  <<x, y>> \in moved
    <3>1. Below(<<i, y>>) = <<x, y>>
      BY <2>2 DEF Below
    <3>2. <<i, y>> \in moving
      <4> HIDE DEF moving
      <4> QED
        BY <1>4, <2>2
    <3> HIDE DEF moving
    <3> QED
      BY <3>1, <3>2
  <2> QED
    BY <2>1, <2>2
<1> HIDE DEF here, moving, moved
<1>6. r = [b EXCEPT !.shield = b.shield \ here, !.alien_shoot = (b.alien_shoot \ here) \cup moved]
  BY DEF AlienShots, here, moving, moved
<1> HIDE DEF r
<1>7. /\ r \in Boards /\ r.alien_shoot = (b.alien_shoot \ here) \cup moved
      /\ r.shield = b.shield \ here
      /\ r.alien = b.alien /\ r.ship_shoot = b.ship_shoot /\ r.ship = b.ship
  BY <1>1, <1>2, <1>6 DEF Boards
<1>8. \A x, y \in Int : <<x, y>> \in r.alien_shoot <=>
         (<<x, y>> \in b.alien_shoot /\ ~(x = i /\ y \in Columns)) \/ (x = i + 1 /\ Goes(y))
  <2> HIDE DEF Goes
  <2> QED
    BY <1>3, <1>5, <1>7
<1> QED
  BY <1>7, <1>8 DEF r

(* A step of the scan that moves the shots of the ship in row i. *)
LEMMA ShipShotCells ==
    ASSUME NEW b \in Boards, NEW i \in Int
    PROVE  LET r == ShipShots(b, i)
           IN  /\ r \in Boards
               /\ \A x, y \in Int : <<x, y>> \in r.ship_shoot <=>
                     \/ <<x, y>> \in b.ship_shoot /\ ~(x = i /\ y \in Columns)
                     \/ /\ x = i - 1 /\ y \in Columns /\ i >= 3
                        /\ <<i, y>> \in b.ship_shoot \ b.alien /\ <<i - 1, y>> \notin b.shield
                        /\ ~(<<i, y>> \in b.alien_shoot /\ <<i - 1, y>> \in b.alien_shoot)
               /\ \A x, y \in Int : <<x, y>> \in r.alien <=>
                     <<x, y>> \in b.alien /\ ~(x = i /\ y \in Columns /\ <<x, y>> \in b.ship_shoot)
               /\ r.alien_shoot = b.alien_shoot /\ r.shield = b.shield /\ r.ship = b.ship
<1> DEFINE here == InRow(b.ship_shoot, i)
           moving == {c \in here \ b.alien : /\ i >= 3 /\ Above(c) \notin b.shield
                                             /\ {c, Above(c)} \cap b.alien_shoot # {c, Above(c)}}
           moved == {Above(c) : c \in moving}
           r == ShipShots(b, i)
           Goes(y) == /\ y \in Columns /\ i >= 3
                      /\ <<i, y>> \in b.ship_shoot \ b.alien /\ <<i - 1, y>> \notin b.shield
                      /\ ~(<<i, y>> \in b.alien_shoot /\ <<i - 1, y>> \in b.alien_shoot)
<1>1. b.ship_shoot \subseteq Cell /\ here \subseteq Cell /\ moving \subseteq here
  BY DEF Boards, InRow
<1>2. moved \subseteq Cell
  <2> HIDE DEF here, moving
  <2> QED
    BY <1>1 DEF Cell, Above
<1>3. \A x, y \in Int : <<x, y>> \in here <=> <<x, y>> \in b.ship_shoot /\ x = i /\ y \in Columns
  BY DEF InRow
<1>4. \A y \in Int : <<i, y>> \in moving <=> Goes(y)
  <2> SUFFICES ASSUME NEW y \in Int PROVE <<i, y>> \in moving <=> Goes(y)
    OBVIOUS
  <2>1. Above(<<i, y>>) = <<i - 1, y>>
    BY DEF Above
  <2>2. \A c, d : {c, d} \cap b.alien_shoot # {c, d} <=> ~(c \in b.alien_shoot /\ d \in b.alien_shoot)
    OBVIOUS
  <2>3. <<i, y>> \in here <=> <<i, y>> \in b.ship_shoot /\ y \in Columns
    BY <1>3
  <2> HIDE DEF here
  <2> QED
    BY <2>1, <2>2, <2>3
<1>5. \A x, y \in Int : <<x, y>> \in moved <=> x = i - 1 /\ Goes(y)
  <2> SUFFICES ASSUME NEW x \in Int, NEW y \in Int
               PROVE  <<x, y>> \in moved <=> x = i - 1 /\ Goes(y)
    OBVIOUS
  <2> HIDE DEF Goes
  <2>1. ASSUME <<x, y>> \in moved
        PROVE  x = i - 1 /\ Goes(y)
    <3>1. PICK c \in moving : <<x, y>> = <<c[1] - 1, c[2]>>
      BY <2>1 DEF Above
    <3>2. c \in Cell /\ c[1] = i
      BY <1>1 DEF InRow
    <3>3. c = <<i, y>> /\ x = i - 1
      BY <3>1, <3>2 DEF Cell
    <3> HIDE DEF moving
    <3> QED
      BY <1>4, <3>1, <3>3
  <2>2. ASSUME x = i - 1, Goes(y)
        PROVE  <<x, y>> \in moved
    <3>1. Above(<<i, y>>) = <<x, y>>
      BY <2>2 DEF Above
    <3>2. <<i, y>> \in moving
      <4> HIDE DEF moving
      <4> QED
        BY <1>4, <2>2
    <3> HIDE DEF moving
    <3> QED
      BY <3>1, <3>2
  <2> QED
    BY <2>1, <2>2
<1> HIDE DEF here, moving, moved
<1>6. r = [b EXCEPT !.alien = b.alien \ here, !.ship_shoot = (b.ship_shoot \ here) \cup moved]
  BY DEF ShipShots, here, moving, moved
<1> HIDE DEF r
<1>7. /\ r \in Boards /\ r.ship_shoot = (b.ship_shoot \ here) \cup moved
      /\ r.alien = b.alien \ here
      /\ r.alien_shoot = b.alien_shoot /\ r.shield = b.shield /\ r.ship = b.ship
  BY <1>1, <1>2, <1>6 DEF Boards
<1>8. \A x, y \in Int : <<x, y>> \in r.ship_shoot <=>
         (<<x, y>> \in b.ship_shoot /\ ~(x = i /\ y \in Columns)) \/ (x = i - 1 /\ Goes(y))
  <2> HIDE DEF Goes
  <2> QED
    BY <1>3, <1>5, <1>7
<1>9. \A x, y \in Int : <<x, y>> \in r.alien <=>
         <<x, y>> \in b.alien /\ ~(x = i /\ y \in Columns /\ <<x, y>> \in b.ship_shoot)
  BY <1>3, <1>7
<1> QED
  BY <1>7, <1>8, <1>9 DEF r

(* Every shot of the aliens goes one cell down, or meets a shield, the end of the board or a shot
   of the ship. *)
LEMMA AlienShotsMove ==
    ASSUME NEW b \in Boards, b.alien_shoot \subseteq (2 .. NUM_ROWS - 2) \X Columns
    PROVE  LET r == move_shoots_aliens(b)
           IN  /\ r \in Boards
               /\ \A x, y \in Int : <<x, y>> \in r.alien_shoot =>
                     <<x - 1, y>> \in b.alien_shoot /\ x <= NUM_ROWS - 2
               /\ \A x, y \in Int : <<x, y>> \in b.alien_shoot =>
                     \/ <<x + 1, y>> \in r.alien_shoot \/ <<x, y>> \in b.shield
                     \/ x = NUM_ROWS - 2 \/ <<x, y>> \in b.ship_shoot
               /\ r.shield \subseteq b.shield
               /\ r.alien = b.alien /\ r.ship_shoot = b.ship_shoot /\ r.ship = b.ship
<1> DEFINE n == NUM_ROWS - 3
           is == Down(NUM_ROWS - 2, 2)
<1>1. n \in Nat /\ NUM_ROWS \in Int /\ NUM_ROWS >= 7 /\ Len(is) = n
      /\ \A k \in 1 .. n : is[k] = NUM_ROWS - 2 - k + 1 /\ is[k] \in Int
  <2>1. NUM_ROWS \in Int /\ 2 \in Int /\ 2 <= NUM_ROWS - 2 /\ NUM_ROWS - 2 \in Int
    BY BoardAssumption DEF FIRST_ROW
  <2>2. NUM_ROWS - 2 - 2 + 1 = n /\ n \in Nat /\ NUM_ROWS >= 7
    BY BoardAssumption DEF FIRST_ROW
  <2>3. /\ Len(is) = NUM_ROWS - 2 - 2 + 1
        /\ \A k \in 1 .. NUM_ROWS - 2 - 2 + 1 : is[k] = NUM_ROWS - 2 - k + 1
    <3> HIDE DEF n
    <3> QED
      BY <2>1, DownIs
  <2>4. \A k \in 1 .. n : is[k] = NUM_ROWS - 2 - k + 1
    <3> HIDE DEF n, is
    <3> QED
      BY <2>2, <2>3
  <2> QED
    <3> HIDE DEF n, is
    <3> QED
      BY <2>1, <2>2, <2>3, <2>4
<1> HIDE DEF n, is
<1>2. \A t \in Boards, k \in 1 .. n : AlienShots(t, is[k]) \in Boards
  BY <1>1, AlienShotCells
<1>3. PICK f : /\ f[0] = b /\ f[n] = move_shoots_aliens(b)
               /\ \A k \in 1 .. n : f[k] = AlienShots(f[k - 1], is[k])
  <2>1. is = Down(NUM_ROWS - 2, 2) /\ b \in Boards
    BY DEF is
  <2>2. \E f : /\ f[0] = b /\ f[Len(is)] = move_shoots_aliens(b)
               /\ \A k \in 1 .. Len(is) : f[k] = AlienShots(f[k - 1], is[k])
    <3>1. Len(is) \in Nat /\ \A t \in Boards, k \in 1 .. Len(is) : AlienShots(t, is[k]) \in Boards
      BY <1>1, <1>2
    <3> QED
      BY ONLY <2>1, <3>1, ScanAlienShots
  <2> QED
    BY <1>1, <2>2
<1> DEFINE Ends(x, y) ==
              <<x, y>> \in b.shield \/ x = NUM_ROWS - 2 \/ <<x, y>> \in b.ship_shoot
           From(t, i) == \A x, y \in Int : <<x, y>> \in t.alien_shoot =>
              \/ <<x, y>> \in b.alien_shoot /\ x <= i
              \/ <<x - 1, y>> \in b.alien_shoot /\ x - 1 > i /\ x <= NUM_ROWS - 2
           Ahead(t, i) == \A x, y \in Int : <<x, y>> \in b.alien_shoot /\ x <= i =>
              <<x, y>> \in t.alien_shoot
           Behind(t, i) == \A x, y \in Int : <<x, y>> \in b.alien_shoot /\ x > i =>
              <<x + 1, y>> \in t.alien_shoot \/ Ends(x, y)
           Same(t) == /\ t \in Boards /\ t.shield \subseteq b.shield
                      /\ t.alien = b.alien /\ t.ship_shoot = b.ship_shoot /\ t.ship = b.ship
           Moved(k) == /\ Same(f[k]) /\ From(f[k], NUM_ROWS - 2 - k)
                       /\ Ahead(f[k], NUM_ROWS - 2 - k) /\ Behind(f[k], NUM_ROWS - 2 - k)
           S == {k \in 0 .. n : Moved(k)}
<1>4. \A x, y \in Int : <<x, y>> \in b.alien_shoot => y \in Columns /\ 2 <= x /\ x <= NUM_ROWS - 2
  BY <1>1
<1>5. 0 \in S
  <2>1. NUM_ROWS - 2 - 0 = NUM_ROWS - 2
    BY <1>1
  <2>2. Same(f[0]) /\ From(f[0], NUM_ROWS - 2)
    BY <1>3, <1>4
  <2>3. Ahead(f[0], NUM_ROWS - 2) /\ Behind(f[0], NUM_ROWS - 2)
    BY <1>1, <1>3, <1>4
  <2> HIDE DEF Same, From, Ahead, Behind
  <2> QED
    BY <1>1, <2>1, <2>2, <2>3
<1>6. \A k \in 0 .. n - 1 : Moved(k) => Moved(k + 1)
  <2> SUFFICES ASSUME NEW k \in 0 .. n - 1, Moved(k) PROVE Moved(k + 1)
    OBVIOUS
  <2> DEFINE i == NUM_ROWS - 2 - k
             t == f[k]
             r == f[k + 1]
  <2>1. k + 1 \in 1 .. n /\ k + 1 - 1 = k /\ i \in Int /\ i - 1 \in Int /\ i + 1 \in Int
        /\ NUM_ROWS - 2 - (k + 1) + 1 = i /\ NUM_ROWS - 2 - (k + 1) = i - 1
    BY <1>1
  <2>2. r = AlienShots(t, i)
    <3>1. is[k + 1] = i
      BY <1>1, <2>1
    <3> QED
      BY <1>3, <2>1, <3>1
  <2>3. Same(t) /\ From(t, i) /\ Ahead(t, i) /\ Behind(t, i)
    OBVIOUS
  <2> HIDE DEF i, t, r
  <2>4. /\ r \in Boards
        /\ \A x, y \in Int : <<x, y>> \in r.alien_shoot <=>
              \/ <<x, y>> \in t.alien_shoot /\ ~(x = i /\ y \in Columns)
              \/ /\ x = i + 1 /\ y \in Columns /\ i < NUM_ROWS - 2
                 /\ <<i, y>> \in t.alien_shoot \ t.shield
                 /\ ~(<<i, y>> \in t.ship_shoot /\ <<i + 1, y>> \in t.ship_shoot)
        /\ r.shield \subseteq t.shield
        /\ r.alien = t.alien /\ r.ship_shoot = t.ship_shoot /\ r.ship = t.ship
    <3>1. t \in Boards /\ i \in Int
      BY <2>1, <2>3
    <3>2. LET q == AlienShots(t, i)
          IN  /\ q \in Boards
              /\ \A x, y \in Int : <<x, y>> \in q.alien_shoot <=>
                    \/ <<x, y>> \in t.alien_shoot /\ ~(x = i /\ y \in Columns)
                    \/ /\ x = i + 1 /\ y \in Columns /\ i < NUM_ROWS - 2
                       /\ <<i, y>> \in t.alien_shoot \ t.shield
                       /\ ~(<<i, y>> \in t.ship_shoot /\ <<i + 1, y>> \in t.ship_shoot)
              /\ q.shield \subseteq t.shield
              /\ q.alien = t.alien /\ q.ship_shoot = t.ship_shoot /\ q.ship = t.ship
      BY ONLY <3>1, AlienShotCells
    <3> QED
      BY ONLY <2>2, <3>2
  <2>5. Same(r)
    BY <2>3, <2>4
  <2>6. From(r, i - 1)
    <3> SUFFICES ASSUME NEW x \in Int, NEW y \in Int, <<x, y>> \in r.alien_shoot
                 PROVE  \/ <<x, y>> \in b.alien_shoot /\ x <= i - 1
                        \/ <<x - 1, y>> \in b.alien_shoot /\ x - 1 > i - 1 /\ x <= NUM_ROWS - 2
      OBVIOUS
    <3> HIDE DEF Ends, Same, Ahead, Behind
    <3>1. CASE <<x, y>> \in t.alien_shoot /\ ~(x = i /\ y \in Columns)
      <4>1. \/ <<x, y>> \in b.alien_shoot /\ x <= i
            \/ <<x - 1, y>> \in b.alien_shoot /\ x - 1 > i /\ x <= NUM_ROWS - 2
        BY <2>3, <3>1
      <4>2. <<x, y>> \in b.alien_shoot => y \in Columns
        BY <1>4
      <4> QED
        BY <2>1, <3>1, <4>1, <4>2
    <3>2. CASE x = i + 1 /\ y \in Columns /\ i < NUM_ROWS - 2 /\ <<i, y>> \in t.alien_shoot
      <4>1. \/ <<i, y>> \in b.alien_shoot
            \/ <<i - 1, y>> \in b.alien_shoot /\ i - 1 > i
        BY <2>1, <2>3, <3>2
      <4>2. ~(i - 1 > i) /\ x - 1 = i /\ i > i - 1 /\ x <= NUM_ROWS - 2
        BY <1>1, <2>1, <3>2
      <4> QED
        BY <4>1, <4>2
    <3> QED
      BY <2>4, <3>1, <3>2
  <2>7. Ahead(r, i - 1)
    <3> SUFFICES ASSUME NEW x \in Int, NEW y \in Int, <<x, y>> \in b.alien_shoot, x <= i - 1
                 PROVE  <<x, y>> \in r.alien_shoot
      OBVIOUS
    <3>1. x <= i /\ x # i
      BY <2>1
    <3> HIDE DEF Ends, Same, From, Behind
    <3>2. <<x, y>> \in t.alien_shoot
      BY <2>3, <3>1
    <3> QED
      BY <2>4, <3>1, <3>2
  <2>8. Behind(r, i - 1)
    <3> SUFFICES ASSUME NEW x \in Int, NEW y \in Int, <<x, y>> \in b.alien_shoot, x > i - 1
                 PROVE  <<x + 1, y>> \in r.alien_shoot \/ Ends(x, y)
      OBVIOUS
    <3> HIDE DEF From
    <3>1. CASE x > i
      <4>1. <<x + 1, y>> \in t.alien_shoot \/ Ends(x, y)
        BY <2>3, <3>1
      <4>2. x + 1 \in Int /\ x + 1 # i
        BY <2>1, <3>1
      <4> HIDE DEF Ends, Same, Ahead, Behind
      <4> QED
        BY <2>4, <4>1, <4>2
    <3>2. CASE x = i
      <4>1. <<i, y>> \in t.alien_shoot /\ y \in Columns /\ i <= NUM_ROWS - 2
        <5>1. i <= i
          BY <2>1
        <5> QED
          BY <1>4, <2>3, <3>2, <5>1
      <4>2. t.shield \subseteq b.shield /\ t.ship_shoot = b.ship_shoot
        BY <2>3
      <4>3. i < NUM_ROWS - 2 \/ i = NUM_ROWS - 2
        BY <1>1, <2>1, <4>1
      <4> HIDE DEF Same, Ahead, Behind
      <4> QED
        BY <2>1, <2>4, <3>2, <4>1, <4>2, <4>3
    <3> QED
      BY <2>1, <3>1, <3>2
  <2>9. Moved(k + 1)
    <3> HIDE DEF Same, From, Ahead, Behind
    <3> QED
      BY <2>1, <2>5, <2>6, <2>7, <2>8 DEF r
  <2> QED
    BY <2>9
<1>7. 0 .. n \subseteq S
  <2>1. \A k \in 0 .. n - 1 : k \in S => k + 1 \in S
    <3> HIDE DEF Moved
    <3> QED
      BY <1>1, <1>6
  <2> HIDE DEF S
  <2> QED
    BY <1>1, <1>5, <2>1, UpTo
<1>8. Same(f[n]) /\ From(f[n], 1) /\ Behind(f[n], 1)
  <2>1. NUM_ROWS - 2 - n = 1 /\ n \in 0 .. n
    BY <1>1 DEF n
  <2> HIDE DEF Same, From, Ahead, Behind
  <2> QED
    BY <1>7, <2>1
<1>9. \A x, y \in Int : <<x, y>> \in b.alien_shoot => x > 1 /\ ~(x <= 1)
  BY <1>4
<1>10. \A x, y \in Int : <<x, y>> \in f[n].alien_shoot =>
          <<x - 1, y>> \in b.alien_shoot /\ x <= NUM_ROWS - 2
  <2> HIDE DEF Same, Ahead, Behind
  <2> QED
    BY <1>8, <1>9
<1>11. \A x, y \in Int : <<x, y>> \in b.alien_shoot => <<x + 1, y>> \in f[n].alien_shoot \/ Ends(x, y)
  <2> HIDE DEF Same, Ahead, From, Ends
  <2> QED
    BY <1>8, <1>9
<1> QED
  <2> HIDE DEF Ahead, From, Behind
  <2> QED
    BY <1>3, <1>8, <1>10, <1>11

(* Every shot of the ship goes one cell up, or meets an alien, a shield, the end of the board or a
   shot of the aliens; the aliens that were in the cell of a shot die. *)
LEMMA ShipShotsMove ==
    ASSUME NEW b \in Boards, b.ship_shoot \subseteq (2 .. NUM_ROWS - 4) \X Columns
    PROVE  LET r == move_shoots_ship(b)
           IN  /\ r \in Boards
               /\ \A x, y \in Int : <<x, y>> \in r.ship_shoot =>
                     <<x + 1, y>> \in b.ship_shoot /\ x >= 2
               /\ \A x, y \in Int : <<x, y>> \in b.ship_shoot =>
                     \/ <<x - 1, y>> \in r.ship_shoot \/ <<x, y>> \in b.alien
                     \/ <<x - 1, y>> \in b.shield \/ x = 2 \/ <<x, y>> \in b.alien_shoot
               /\ \A x, y \in Int : <<x, y>> \in r.alien <=> <<x, y>> \in b.alien \ b.ship_shoot
               /\ r.alien_shoot = b.alien_shoot /\ r.shield = b.shield /\ r.ship = b.ship
<1> DEFINE n == NUM_ROWS - 3
           is == Up(2, NUM_ROWS - 2)
<1>1. n \in Nat /\ NUM_ROWS \in Int /\ NUM_ROWS >= 7 /\ Len(is) = n
      /\ \A k \in 1 .. n : is[k] = 2 + k - 1 /\ is[k] \in Int
  <2>1. NUM_ROWS \in Int /\ 2 \in Int /\ 2 <= NUM_ROWS - 2 /\ NUM_ROWS - 2 \in Int
    BY BoardAssumption DEF FIRST_ROW
  <2>2. NUM_ROWS - 2 - 2 + 1 = n /\ n \in Nat /\ NUM_ROWS >= 7
    BY BoardAssumption DEF FIRST_ROW
  <2>3. /\ Len(is) = NUM_ROWS - 2 - 2 + 1
        /\ \A k \in 1 .. NUM_ROWS - 2 - 2 + 1 : is[k] = 2 + k - 1
    <3> HIDE DEF n
    <3> QED
      BY <2>1, UpIs
  <2>4. \A k \in 1 .. n : is[k] = 2 + k - 1
    <3> HIDE DEF n, is
    <3> QED
      BY <2>2, <2>3
  <2> QED
    <3> HIDE DEF n, is
    <3> QED
      BY <2>1, <2>2, <2>3, <2>4
<1> HIDE DEF n, is
<1>2. \A t \in Boards, k \in 1 .. n : ShipShots(t, is[k]) \in Boards
  BY <1>1, ShipShotCells
<1>3. PICK f : /\ f[0] = b /\ f[n] = move_shoots_ship(b)
               /\ \A k \in 1 .. n : f[k] = ShipShots(f[k - 1], is[k])
  <2>1. is = Up(2, NUM_ROWS - 2) /\ b \in Boards
    BY DEF is
  <2>2. \E f : /\ f[0] = b /\ f[Len(is)] = move_shoots_ship(b)
               /\ \A k \in 1 .. Len(is) : f[k] = ShipShots(f[k - 1], is[k])
    <3>1. Len(is) \in Nat /\ \A t \in Boards, k \in 1 .. Len(is) : ShipShots(t, is[k]) \in Boards
      BY <1>1, <1>2
    <3> QED
      BY ONLY <2>1, <3>1, ScanShipShots
  <2> QED
    BY <1>1, <2>2
<1> DEFINE Ends(x, y) == \/ <<x, y>> \in b.alien \/ <<x - 1, y>> \in b.shield \/ x = 2
                         \/ <<x, y>> \in b.alien_shoot
           From(t, i) == \A x, y \in Int : <<x, y>> \in t.ship_shoot =>
              \/ <<x, y>> \in b.ship_shoot /\ x >= i
              \/ <<x + 1, y>> \in b.ship_shoot /\ x + 1 < i /\ x >= 2
           Ahead(t, i) == \A x, y \in Int : <<x, y>> \in b.ship_shoot /\ x >= i =>
              <<x, y>> \in t.ship_shoot
           Behind(t, i) == \A x, y \in Int : <<x, y>> \in b.ship_shoot /\ x < i =>
              <<x - 1, y>> \in t.ship_shoot \/ Ends(x, y)
           Left(t, i) == \A x, y \in Int : <<x, y>> \in t.alien <=>
              <<x, y>> \in b.alien /\ ~(x < i /\ <<x, y>> \in b.ship_shoot)
           Same(t) == /\ t \in Boards /\ t.shield = b.shield
                      /\ t.alien_shoot = b.alien_shoot /\ t.ship = b.ship
           Moved(k) == /\ Same(f[k]) /\ From(f[k], k + 2) /\ Ahead(f[k], k + 2)
                       /\ Behind(f[k], k + 2) /\ Left(f[k], k + 2)
           S == {k \in 0 .. n : Moved(k)}
<1>4. \A x, y \in Int : <<x, y>> \in b.ship_shoot => y \in Columns /\ 2 <= x /\ x <= NUM_ROWS - 4
  BY <1>1
<1>5. 0 \in S
  <2>1. Same(f[0]) /\ From(f[0], 0 + 2) /\ Ahead(f[0], 0 + 2)
    BY <1>3, <1>4
  <2>2. Behind(f[0], 0 + 2) /\ Left(f[0], 0 + 2)
    BY <1>1, <1>3, <1>4
  <2> HIDE DEF Same, From, Ahead, Behind, Left
  <2> QED
    BY <1>1, <2>1, <2>2
<1>6. \A k \in 0 .. n - 1 : Moved(k) => Moved(k + 1)
  <2> SUFFICES ASSUME NEW k \in 0 .. n - 1, Moved(k) PROVE Moved(k + 1)
    OBVIOUS
  <2> DEFINE i == k + 2
             t == f[k]
             r == f[k + 1]
  <2>1. k + 1 \in 1 .. n /\ k + 1 - 1 = k /\ i \in Int /\ i - 1 \in Int /\ i + 1 \in Int
        /\ 2 + (k + 1) - 1 = i /\ (k + 1) + 2 = i + 1
    BY <1>1
  <2>2. r = ShipShots(t, i)
    <3>1. is[k + 1] = i
      BY <1>1, <2>1
    <3> QED
      BY <1>3, <2>1, <3>1
  <2>3. Same(t) /\ From(t, i) /\ Ahead(t, i) /\ Behind(t, i) /\ Left(t, i)
    OBVIOUS
  <2> HIDE DEF i, t, r
  <2>4. /\ r \in Boards
        /\ \A x, y \in Int : <<x, y>> \in r.ship_shoot <=>
              \/ <<x, y>> \in t.ship_shoot /\ ~(x = i /\ y \in Columns)
              \/ /\ x = i - 1 /\ y \in Columns /\ i >= 3
                 /\ <<i, y>> \in t.ship_shoot \ t.alien /\ <<i - 1, y>> \notin t.shield
                 /\ ~(<<i, y>> \in t.alien_shoot /\ <<i - 1, y>> \in t.alien_shoot)
        /\ \A x, y \in Int : <<x, y>> \in r.alien <=>
              <<x, y>> \in t.alien /\ ~(x = i /\ y \in Columns /\ <<x, y>> \in t.ship_shoot)
        /\ r.alien_shoot = t.alien_shoot /\ r.shield = t.shield /\ r.ship = t.ship
    <3>1. t \in Boards /\ i \in Int
      BY <2>1, <2>3
    <3>2. LET q == ShipShots(t, i)
          IN  /\ q \in Boards
              /\ \A x, y \in Int : <<x, y>> \in q.ship_shoot <=>
                    \/ <<x, y>> \in t.ship_shoot /\ ~(x = i /\ y \in Columns)
                    \/ /\ x = i - 1 /\ y \in Columns /\ i >= 3
                       /\ <<i, y>> \in t.ship_shoot \ t.alien /\ <<i - 1, y>> \notin t.shield
                       /\ ~(<<i, y>> \in t.alien_shoot /\ <<i - 1, y>> \in t.alien_shoot)
              /\ \A x, y \in Int : <<x, y>> \in q.alien <=>
                    <<x, y>> \in t.alien /\ ~(x = i /\ y \in Columns /\ <<x, y>> \in t.ship_shoot)
              /\ q.alien_shoot = t.alien_shoot /\ q.shield = t.shield /\ q.ship = t.ship
      BY ONLY <3>1, ShipShotCells
    <3> QED
      BY ONLY <2>2, <3>2
  <2>5. Same(r)
    BY <2>3, <2>4
  <2>6. From(r, i + 1)
    <3> SUFFICES ASSUME NEW x \in Int, NEW y \in Int, <<x, y>> \in r.ship_shoot
                 PROVE  \/ <<x, y>> \in b.ship_shoot /\ x >= i + 1
                        \/ <<x + 1, y>> \in b.ship_shoot /\ x + 1 < i + 1 /\ x >= 2
      OBVIOUS
    <3> HIDE DEF Ends, Same, Ahead, Behind, Left
    <3>1. CASE <<x, y>> \in t.ship_shoot /\ ~(x = i /\ y \in Columns)
      <4>1. \/ <<x, y>> \in b.ship_shoot /\ x >= i
            \/ <<x + 1, y>> \in b.ship_shoot /\ x + 1 < i /\ x >= 2
        BY <2>3, <3>1
      <4>2. <<x, y>> \in b.ship_shoot => y \in Columns
        BY <1>4
      <4> QED
        BY <2>1, <3>1, <4>1, <4>2
    <3>2. CASE x = i - 1 /\ y \in Columns /\ i >= 3 /\ <<i, y>> \in t.ship_shoot
      <4>1. \/ <<i, y>> \in b.ship_shoot
            \/ <<i + 1, y>> \in b.ship_shoot /\ i + 1 < i
        BY <2>1, <2>3, <3>2
      <4>2. ~(i + 1 < i) /\ x + 1 = i /\ i < i + 1 /\ x >= 2
        BY <1>1, <2>1, <3>2
      <4> QED
        BY <4>1, <4>2
    <3> QED
      BY <2>4, <3>1, <3>2
  <2>7. Ahead(r, i + 1)
    <3> SUFFICES ASSUME NEW x \in Int, NEW y \in Int, <<x, y>> \in b.ship_shoot, x >= i + 1
                 PROVE  <<x, y>> \in r.ship_shoot
      OBVIOUS
    <3>1. x >= i /\ x # i
      BY <2>1
    <3> HIDE DEF Ends, Same, From, Behind, Left
    <3>2. <<x, y>> \in t.ship_shoot
      BY <2>3, <3>1
    <3> QED
      BY <2>4, <3>1, <3>2
  <2>8. Behind(r, i + 1)
    <3> SUFFICES ASSUME NEW x \in Int, NEW y \in Int, <<x, y>> \in b.ship_shoot, x < i + 1
                 PROVE  <<x - 1, y>> \in r.ship_shoot \/ Ends(x, y)
      OBVIOUS
    <3> HIDE DEF From
    <3>1. CASE x < i
      <4>1. <<x - 1, y>> \in t.ship_shoot \/ Ends(x, y)
        BY <2>3, <3>1
      <4>2. x - 1 \in Int /\ x - 1 # i
        BY <2>1, <3>1
      <4> HIDE DEF Ends, Same, Ahead, Behind, Left
      <4> QED
        BY <2>4, <4>1, <4>2
    <3>2. CASE x = i
      <4>1. <<i, y>> \in t.ship_shoot /\ y \in Columns /\ i >= 2
        <5>1. i >= i
          BY <2>1
        <5> QED
          BY <1>4, <2>3, <3>2, <5>1
      <4>2. t.shield = b.shield /\ t.alien_shoot = b.alien_shoot
        BY <2>3
      <4>3. <<i, y>> \in t.alien => <<i, y>> \in b.alien
        BY <2>1, <2>3
      <4>4. i >= 3 \/ i = 2
        BY <1>1, <2>1, <4>1
      <4> HIDE DEF Same, Ahead, Behind, Left
      <4> QED
        BY <2>1, <2>4, <3>2, <4>1, <4>2, <4>3, <4>4
    <3> QED
      BY <2>1, <3>1, <3>2
  <2>9. Left(r, i + 1)
    <3> SUFFICES ASSUME NEW x \in Int, NEW y \in Int
                 PROVE  <<x, y>> \in r.alien <=>
                           <<x, y>> \in b.alien /\ ~(x < i + 1 /\ <<x, y>> \in b.ship_shoot)
      OBVIOUS
    <3>1. <<x, y>> \in t.alien <=> <<x, y>> \in b.alien /\ ~(x < i /\ <<x, y>> \in b.ship_shoot)
      BY <2>3
    <3>2. x = i => (y \in Columns /\ <<x, y>> \in t.ship_shoot <=> <<x, y>> \in b.ship_shoot)
      <4> SUFFICES ASSUME x = i
                   PROVE  y \in Columns /\ <<x, y>> \in t.ship_shoot <=> <<x, y>> \in b.ship_shoot
        OBVIOUS
      <4>1. <<i, y>> \in t.ship_shoot =>
               <<i, y>> \in b.ship_shoot \/ (<<i + 1, y>> \in b.ship_shoot /\ i + 1 < i)
        BY <2>1, <2>3
      <4>2. ~(i + 1 < i) /\ i >= i
        BY <2>1
      <4>3. <<i, y>> \in b.ship_shoot => <<i, y>> \in t.ship_shoot /\ y \in Columns
        BY <1>4, <2>1, <2>3, <4>2
      <4> HIDE DEF Same, From, Ahead, Behind, Left
      <4> QED
        BY <4>1, <4>2, <4>3
    <3>3. x < i + 1 <=> x < i \/ x = i
      BY <2>1
    <3> HIDE DEF Same, From, Ahead, Behind, Left
    <3> QED
      BY <2>4, <3>1, <3>2, <3>3
  <2>10. Moved(k + 1)
    <3> HIDE DEF Same, From, Ahead, Behind, Left
    <3> QED
      BY <2>1, <2>5, <2>6, <2>7, <2>8, <2>9 DEF r
  <2> QED
    BY <2>10
<1>7. 0 .. n \subseteq S
  <2>1. \A k \in 0 .. n - 1 : k \in S => k + 1 \in S
    <3> HIDE DEF Moved
    <3> QED
      BY <1>1, <1>6
  <2> HIDE DEF S
  <2> QED
    BY <1>1, <1>5, <2>1, UpTo
<1> DEFINE m == NUM_ROWS - 1
<1>8. Same(f[n]) /\ From(f[n], m) /\ Behind(f[n], m) /\ Left(f[n], m)
  <2>1. n + 2 = m /\ n \in 0 .. n
    BY <1>1 DEF n
  <2> HIDE DEF Same, From, Ahead, Behind, Left, m
  <2> QED
    BY <1>7, <2>1
<1>9. \A x, y \in Int : <<x, y>> \in b.ship_shoot => x < m /\ ~(x >= m)
  BY <1>1, <1>4
<1> HIDE DEF m
<1>10. \A x, y \in Int : <<x, y>> \in f[n].ship_shoot => <<x + 1, y>> \in b.ship_shoot /\ x >= 2
  <2> HIDE DEF Same, Ahead, Behind, Left
  <2> QED
    BY <1>8, <1>9
<1>11. \A x, y \in Int : <<x, y>> \in b.ship_shoot => <<x - 1, y>> \in f[n].ship_shoot \/ Ends(x, y)
  <2> HIDE DEF Same, Ahead, From, Left, Ends
  <2> QED
    BY <1>8, <1>9
<1>12. \A x, y \in Int : <<x, y>> \in f[n].alien <=> <<x, y>> \in b.alien \ b.ship_shoot
  <2> HIDE DEF Same, Ahead, From, Behind
  <2> QED
    BY <1>8, <1>9
<1> QED
  <2> HIDE DEF Ahead, From, Behind, Left
  <2> QED
    BY <1>3, <1>8, <1>10, <1>11, <1>12

(* Two shots that are about to meet vanish; nothing else does. *)
LEMMA Cancelled ==
    ASSUME NEW b \in Boards
    PROVE  LET r == cancel_shoots(b)
           IN  /\ r \in Boards
               /\ r.alien_shoot \subseteq b.alien_shoot /\ r.ship_shoot \subseteq b.ship_shoot
               /\ \A x, y \in Int : <<x, y>> \in b.alien_shoot =>
                     <<x, y>> \in r.alien_shoot \/ <<x + 1, y>> \in b.ship_shoot
               /\ \A x, y \in Int : <<x, y>> \in b.ship_shoot =>
                     <<x, y>> \in r.ship_shoot \/ <<x - 1, y>> \in b.alien_shoot
               /\ r.shield = b.shield /\ r.alien = b.alien /\ r.ship = b.ship
<1> DEFINE met == {c \in b.alien_shoot : Below(c) \in b.ship_shoot}
           below == {Below(c) : c \in met}
           r == cancel_shoots(b)
<1>1. \A x, y \in Int : <<x, y>> \in met => <<x + 1, y>> \in b.ship_shoot
  BY DEF Below
<1>2. \A x, y \in Int : <<x, y>> \in below => <<x - 1, y>> \in b.alien_shoot
  <2> SUFFICES ASSUME NEW x \in Int, NEW y \in Int, <<x, y>> \in below
               PROVE  <<x - 1, y>> \in b.alien_shoot
    OBVIOUS
  <2>1. PICK c \in b.alien_shoot : <<x, y>> = <<c[1] + 1, c[2]>>
    BY DEF Below
  <2>2. c \in Cell
    BY DEF Boards
  <2>3. c = <<x - 1, y>>
    BY <2>1, <2>2 DEF Cell
  <2> QED
    BY <2>3
<1> HIDE DEF met, below
<1>3. r = [b EXCEPT !.alien_shoot = b.alien_shoot \ met, !.ship_shoot = b.ship_shoot \ below]
  BY DEF cancel_shoots, met, below
<1> HIDE DEF r
<1>4. /\ r \in Boards /\ r.alien_shoot = b.alien_shoot \ met /\ r.ship_shoot = b.ship_shoot \ below
      /\ r.shield = b.shield /\ r.alien = b.alien /\ r.ship = b.ship
  BY <1>3 DEF Boards
<1> QED
  BY <1>1, <1>2, <1>4 DEF r

(* Where shots can be. *)
ShipShotRows == 2 .. NUM_ROWS - 4
AlienShotRows == 2 .. NUM_ROWS - 2

(* What cancel_shoots, move_shoots_aliens and move_shoots_ship do together. *)
ShotsMoved(b, r) ==
    /\ r \in Boards /\ r.ship = b.ship
    /\ \A x, y \in Int : <<x, y>> \in r.alien_shoot =>
          <<x - 1, y>> \in b.alien_shoot /\ x <= NUM_ROWS - 2
    /\ \A x, y \in Int : <<x, y>> \in b.alien_shoot =>
          \/ <<x + 1, y>> \in r.alien_shoot
          \/ <<x, y>> \in b.shield \/ x = NUM_ROWS - 2
          \/ <<x, y>> \in b.ship_shoot \/ <<x + 1, y>> \in b.ship_shoot
    /\ \A x, y \in Int : <<x, y>> \in r.ship_shoot =>
          <<x + 1, y>> \in b.ship_shoot /\ x >= 2
    /\ \A x, y \in Int : <<x, y>> \in b.ship_shoot =>
          \/ <<x - 1, y>> \in r.ship_shoot
          \/ <<x, y>> \in b.alien \/ <<x - 1, y>> \in b.shield \/ x = 2
          \/ <<x - 1, y>> \in b.alien_shoot
    /\ r.alien \subseteq b.alien
    /\ \A x, y \in Int : <<x, y>> \in b.alien =>
          <<x, y>> \in r.alien \/ <<x, y>> \in b.ship_shoot

LEMMA ShotsMove ==
    ASSUME NEW b \in Boards, b.ship_shoot \subseteq ShipShotRows \X Columns,
           b.alien_shoot \subseteq AlienShotRows \X Columns
    PROVE  ShotsMoved(b, move_shoots(b))
<1> DEFINE c == cancel_shoots(b)
           d == move_shoots_aliens(c)
           r == move_shoots_ship(d)
<1>1. /\ c \in Boards
      /\ c.alien_shoot \subseteq b.alien_shoot /\ c.ship_shoot \subseteq b.ship_shoot
      /\ \A x, y \in Int : <<x, y>> \in b.alien_shoot =>
            <<x, y>> \in c.alien_shoot \/ <<x + 1, y>> \in b.ship_shoot
      /\ \A x, y \in Int : <<x, y>> \in b.ship_shoot =>
            <<x, y>> \in c.ship_shoot \/ <<x - 1, y>> \in b.alien_shoot
      /\ c.shield = b.shield /\ c.alien = b.alien /\ c.ship = b.ship
  BY Cancelled
<1> HIDE DEF c
<1>2. /\ d \in Boards
      /\ \A x, y \in Int : <<x, y>> \in d.alien_shoot =>
            <<x - 1, y>> \in c.alien_shoot /\ x <= NUM_ROWS - 2
      /\ \A x, y \in Int : <<x, y>> \in c.alien_shoot =>
            \/ <<x + 1, y>> \in d.alien_shoot \/ <<x, y>> \in c.shield
            \/ x = NUM_ROWS - 2 \/ <<x, y>> \in c.ship_shoot
      /\ d.shield \subseteq c.shield
      /\ d.alien = c.alien /\ d.ship_shoot = c.ship_shoot /\ d.ship = c.ship
  <2>1. c.alien_shoot \subseteq (2 .. NUM_ROWS - 2) \X Columns
    BY <1>1 DEF AlienShotRows
  <2>2. c \in Boards
    BY <1>1
  <2> QED
    BY ONLY <2>1, <2>2, AlienShotsMove
<1> HIDE DEF d
<1>3. /\ r \in Boards
      /\ \A x, y \in Int : <<x, y>> \in r.ship_shoot =>
            <<x + 1, y>> \in d.ship_shoot /\ x >= 2
      /\ \A x, y \in Int : <<x, y>> \in d.ship_shoot =>
            \/ <<x - 1, y>> \in r.ship_shoot \/ <<x, y>> \in d.alien
            \/ <<x - 1, y>> \in d.shield \/ x = 2 \/ <<x, y>> \in d.alien_shoot
      /\ \A x, y \in Int : <<x, y>> \in r.alien <=> <<x, y>> \in d.alien \ d.ship_shoot
      /\ r.alien_shoot = d.alien_shoot /\ r.shield = d.shield /\ r.ship = d.ship
  <2>1. d.ship_shoot \subseteq (2 .. NUM_ROWS - 4) \X Columns
    BY <1>1, <1>2 DEF ShipShotRows
  <2>2. d \in Boards
    BY <1>2
  <2> QED
    BY ONLY <2>1, <2>2, ShipShotsMove
<1> HIDE DEF r
<1>4. move_shoots(b) = r
  BY DEF move_shoots, r, d, c
<1>5. \A x, y \in Int : <<x, y>> \in r.alien_shoot =>
         <<x - 1, y>> \in b.alien_shoot /\ x <= NUM_ROWS - 2
  BY <1>1, <1>2, <1>3
<1>6. \A x, y \in Int : <<x, y>> \in b.alien_shoot =>
         \/ <<x + 1, y>> \in r.alien_shoot
         \/ <<x, y>> \in b.shield \/ x = NUM_ROWS - 2
         \/ <<x, y>> \in b.ship_shoot \/ <<x + 1, y>> \in b.ship_shoot
  BY <1>1, <1>2, <1>3
<1>7. \A x, y \in Int : <<x, y>> \in r.ship_shoot => <<x + 1, y>> \in b.ship_shoot /\ x >= 2
  BY <1>1, <1>2, <1>3
<1>8. \A x, y \in Int : <<x, y>> \in b.ship_shoot =>
         \/ <<x - 1, y>> \in r.ship_shoot
         \/ <<x, y>> \in b.alien \/ <<x - 1, y>> \in b.shield \/ x = 2
         \/ <<x - 1, y>> \in b.alien_shoot
  BY <1>1, <1>2, <1>3
<1>9. \A x, y \in Int : <<x, y>> \in b.alien => <<x, y>> \in r.alien \/ <<x, y>> \in b.ship_shoot
  BY <1>1, <1>2, <1>3
<1>10. r.alien \subseteq b.alien
  <2> SUFFICES ASSUME NEW a \in r.alien PROVE a \in b.alien
    OBVIOUS
  <2>1. a \in Cell
    BY <1>3 DEF Boards
  <2>2. PICK x \in Int, y \in Int : a = <<x, y>>
    BY <2>1 DEF Cell
  <2> QED
    BY <1>1, <1>2, <1>3, <2>2
<1> QED
  BY <1>1, <1>2, <1>3, <1>4, <1>5, <1>6, <1>7, <1>8, <1>9, <1>10 DEF ShotsMoved

-----------------------------------------------------------------------------
(* The fleet as a whole *)

(* The places of the fleet, from its first row and column. *)
Place(u, v) ==
    \/ u \in FleetEven /\ v + LEFT_END \in LEFT_END .. FLEET_END /\ (v + LEFT_END) % 2 = 0
    \/ u \in FleetOdd /\ v + LEFT_END \in LEFT_END .. FLEET_END - 1 /\ (v + LEFT_END) % 2 = 1

(* A cell is in the fleet's formation when its offset is a place of the fleet. *)
LEMMA FormationCells ==
    ASSUME NEW x \in Int, NEW y \in Int
    PROVE  /\ \A p, q \in Int : <<p, q>> \in Formation(x, y) <=> Place(p - x, q - y)
           /\ Formation(x, y) \subseteq Cell
<1> DEFINE Even == {<<x + r, y + j - LEFT_END>> :
                       r \in FleetEven, j \in {k \in LEFT_END .. FLEET_END : k % 2 = 0}}
           Odd == {<<x + r, y + j - LEFT_END>> :
                       r \in FleetOdd, j \in {k \in LEFT_END .. FLEET_END - 1 : k % 2 = 1}}
<1>1. Formation(x, y) = Even \cup Odd
  BY DEF Formation
<1>2. /\ FleetEven \subseteq Int /\ FleetOdd \subseteq Int /\ LEFT_END = 2
      /\ FLEET_END \in Int
  BY BoardAssumption DEF LEFT_END
<1>3. ASSUME NEW c \in Formation(x, y) PROVE c \in Cell
  <2>1. CASE c \in Even
    <3>1. PICK r \in FleetEven, j \in LEFT_END .. FLEET_END : c = <<x + r, y + j - LEFT_END>>
      BY <2>1
    <3> QED
      BY <1>2, <3>1 DEF Cell
  <2>2. CASE c \in Odd
    <3>1. PICK r \in FleetOdd, j \in LEFT_END .. FLEET_END - 1 : c = <<x + r, y + j - LEFT_END>>
      BY <2>2
    <3> QED
      BY <1>2, <3>1 DEF Cell
  <2> QED
    BY <1>1, <2>1, <2>2
<1>4. ASSUME NEW p \in Int, NEW q \in Int, <<p, q>> \in Formation(x, y) PROVE Place(p - x, q - y)
  <2>1. CASE <<p, q>> \in Even
    <3>1. PICK r \in FleetEven, j \in LEFT_END .. FLEET_END :
             j % 2 = 0 /\ <<p, q>> = <<x + r, y + j - LEFT_END>>
      BY <2>1
    <3>2. p - x = r /\ q - y + LEFT_END = j
      BY <1>2, <3>1
    <3> QED
      BY <3>1, <3>2 DEF Place
  <2>2. CASE <<p, q>> \in Odd
    <3>1. PICK r \in FleetOdd, j \in LEFT_END .. FLEET_END - 1 :
             j % 2 = 1 /\ <<p, q>> = <<x + r, y + j - LEFT_END>>
      BY <2>2
    <3>2. p - x = r /\ q - y + LEFT_END = j
      BY <1>2, <3>1
    <3> QED
      BY <3>1, <3>2 DEF Place
  <2> QED
    BY <1>1, <1>4, <2>1, <2>2
<1>5. ASSUME NEW p \in Int, NEW q \in Int, Place(p - x, q - y) PROVE <<p, q>> \in Formation(x, y)
  <2> DEFINE r == p - x
             j == q - y + LEFT_END
  <2>1. p = x + r /\ q = y + j - LEFT_END
    BY <1>2
  <2>2. \/ r \in FleetEven /\ j \in {k \in LEFT_END .. FLEET_END : k % 2 = 0}
        \/ r \in FleetOdd /\ j \in {k \in LEFT_END .. FLEET_END - 1 : k % 2 = 1}
    BY <1>5 DEF Place
  <2> HIDE DEF r, j
  <2>3. <<p, q>> \in Even \/ <<p, q>> \in Odd
    BY <2>1, <2>2
  <2> QED
    BY <1>1, <2>3
<1> QED
  BY <1>3, <1>4, <1>5

(* How far the places go. *)
LEMMA Places ==
    ASSUME NEW u \in Int, NEW v \in Int, Place(u, v)
    PROVE  u >= 0 /\ LOSE_ROW + u <= NUM_ROWS - 3 /\ 0 <= v /\ v <= FLEET_END - LEFT_END
  BY BoardAssumption DEF Place, LEFT_END

(* Where the fleet can be, and how it moves on. *)
FleetPlaced(x, y, h) ==
    /\ x \in FIRST_ROW .. LOSE_ROW /\ y \in LEFT_END .. RIGHT_END
    /\ \/ h = {"right"} /\ y < RIGHT_END
       \/ h = {"left"} /\ y > LEFT_END
       \/ h = {"down"} /\ y \in {LEFT_END, RIGHT_END}

(* The rows and columns that the fleet covers. *)
LEMMA FleetRows ==
    ASSUME NEW x \in FIRST_ROW .. LOSE_ROW, NEW y \in LEFT_END .. RIGHT_END, NEW S,
           S \subseteq Formation(x, y)
    PROVE  S \subseteq (3 .. NUM_ROWS - 3) \X Columns /\
           (x < LOSE_ROW => S \subseteq (3 .. NUM_ROWS - 4) \X Columns)
<1>1. x \in Int /\ y \in Int
  BY BoardAssumption DEF FIRST_ROW, LEFT_END
<1>2. ASSUME NEW p \in Int, NEW q \in Int, <<p, q>> \in S
      PROVE  p \in 3 .. NUM_ROWS - 3 /\ q \in Columns /\ (x < LOSE_ROW => p \in 3 .. NUM_ROWS - 4)
  <2>1. Place(p - x, q - y)
    BY <1>1, <1>2, FormationCells
  <2>2. /\ p - x >= 0 /\ LOSE_ROW + (p - x) <= NUM_ROWS - 3
        /\ 0 <= q - y /\ q - y <= FLEET_END - LEFT_END
    <3>1. p - x \in Int /\ q - y \in Int
      BY <1>1
    <3> QED
      BY ONLY <2>1, <3>1, Places
  <2>3. p \in 3 .. NUM_ROWS - 3 /\ (x < LOSE_ROW => p \in 3 .. NUM_ROWS - 4)
    BY <1>1, <2>2, BoardAssumption DEF FIRST_ROW
  <2>4. q \in Columns
    BY <1>1, <2>2, BoardAssumption DEF LEFT_END, Columns, LastColumn
  <2> QED
    BY <2>3, <2>4
<1>3. S \subseteq Cell
  BY <1>1, FormationCells
<1> QED
  BY <1>2, <1>3 DEF Cell

(* The fleet moves as one: whatever is left of it is in its place afterwards. *)
FleetMoved(b, m) ==
    /\ m.board \in Boards /\ m.board.ship = b.ship
    /\ m.board.alien_shoot = b.alien_shoot /\ m.board.ship_shoot = b.ship_shoot
    /\ FleetPlaced(m.x, m.y, m.heading)
    /\ m.board.alien \subseteq Formation(m.x, m.y)
    /\ \A p, q \in Int : <<p, q>> \in b.alien =>
          \/ <<p + m.x - x_aliens, q + m.y - y_aliens>> \in m.board.alien
          \/ <<p, q>> \in b.ship_shoot
    /\ m.x >= LOSE_ROW => m.lose

LEMMA FleetMoves ==
    ASSUME NEW b \in Boards, FleetPlaced(x_aliens, y_aliens, heading), x_aliens < LOSE_ROW,
           b.alien \subseteq Formation(x_aliens, y_aliens)
    PROVE  FleetMoved(b, move_aliens(b))
<1> DEFINE m == move_aliens(b)
<1>1. /\ x_aliens \in Int /\ y_aliens \in Int
      /\ x_aliens \in FIRST_ROW .. LOSE_ROW /\ y_aliens \in LEFT_END .. RIGHT_END
      /\ LOSE_ROW \in Int /\ RIGHT_END \in Int /\ RIGHT_END > LEFT_END
  BY BoardAssumption DEF FleetPlaced, FIRST_ROW, LEFT_END
<1>2. b.alien \subseteq (3 .. NUM_ROWS - 4) \X Columns
  BY <1>1, FleetRows
<1>3. \A p, q \in Int : <<p, q>> \in b.alien => Place(p - x_aliens, q - y_aliens)
  BY <1>1, FormationCells
<1>4. CASE heading = {"right"}
  <2> DEFINE r == aliens_right(b)
             y == y_aliens + 1
  <2>1. m = [board |-> r, x |-> x_aliens, y |-> y, heading |-> Turned(y),
             win |-> NoAliens(b), lose |-> FALSE]
    BY <1>4 DEF move_aliens
  <2>2. /\ r \in Boards
        /\ \A p, q \in Int : <<p, q>> \in r.alien <=> <<p, q - 1>> \in b.alien
        /\ r.alien_shoot = b.alien_shoot /\ r.ship_shoot = b.ship_shoot /\ r.ship = b.ship
    <3>1. b \in Boards
      OBVIOUS
    <3> QED
      BY ONLY <1>2, <3>1, FleetRight
  <2>3. y \in Int /\ y \in LEFT_END .. RIGHT_END /\ y > LEFT_END /\ y_aliens < RIGHT_END
    BY <1>1, <1>4 DEF FleetPlaced, LEFT_END
  <2>4. Turned(y) = IF y = RIGHT_END THEN {"down"} ELSE {"right"}
    BY <1>4 DEF Turned
  <2> HIDE DEF r, m
  <2>5. FleetPlaced(m.x, m.y, m.heading)
    <3>1. m.x = x_aliens /\ m.y = y /\ m.heading = IF y = RIGHT_END THEN {"down"} ELSE {"right"}
      BY <2>1, <2>4
    <3> HIDE DEF y
    <3>2. y # RIGHT_END => y < RIGHT_END
      BY <1>1, <2>3
    <3> QED
      BY <1>1, <2>3, <3>1, <3>2 DEF FleetPlaced
  <2>6. r.alien \subseteq Formation(x_aliens, y)
    <3>1. ASSUME NEW p \in Int, NEW q \in Int, <<p, q>> \in r.alien
          PROVE  <<p, q>> \in Formation(x_aliens, y)
      <4>1. Place(p - x_aliens, (q - 1) - y_aliens)
        <5>1. <<p, q - 1>> \in b.alien /\ q - 1 \in Int
          BY <2>2, <3>1
        <5>2. p \in Int /\ q \in Int
          BY <3>1
        <5> QED
          BY ONLY <1>3, <5>1, <5>2
      <4>2. (q - 1) - y_aliens = q - y
        BY <1>1
      <4> HIDE DEF y
      <4> QED
        BY <1>1, <2>3, <4>1, <4>2, FormationCells
    <3>2. r.alien \subseteq Cell
      BY <2>2 DEF Boards
    <3> QED
      BY <3>1, <3>2 DEF Cell
  <2>7. \A p, q \in Int : <<p, q>> \in b.alien =>
           <<p + m.x - x_aliens, q + m.y - y_aliens>> \in m.board.alien
    <3> SUFFICES ASSUME NEW p \in Int, NEW q \in Int, <<p, q>> \in b.alien
                 PROVE  <<p + m.x - x_aliens, q + m.y - y_aliens>> \in m.board.alien
      OBVIOUS
    <3>1. m.x = x_aliens /\ m.y = y_aliens + 1 /\ m.board = r
      BY <2>1
    <3>2. p + x_aliens - x_aliens = p /\ q + (y_aliens + 1) - y_aliens = q + 1 /\ (q + 1) - 1 = q
          /\ q + 1 \in Int
      BY <1>1
    <3> QED
      BY <2>2, <3>1, <3>2
  <2>8. m.board = r /\ m.x = x_aliens /\ m.y = y
    BY <2>1
  <2> QED
    <3> HIDE DEF y
    <3> QED
      BY <1>1, <2>2, <2>5, <2>6, <2>7, <2>8 DEF m, FleetMoved
<1>5. CASE heading = {"left"}
  <2> DEFINE r == aliens_left(b)
             y == y_aliens - 1
  <2>1. m = [board |-> r, x |-> x_aliens, y |-> y, heading |-> Turned(y),
             win |-> NoAliens(b), lose |-> FALSE]
    BY <1>5 DEF move_aliens
  <2>2. /\ r \in Boards
        /\ \A p, q \in Int : <<p, q>> \in r.alien <=> <<p, q + 1>> \in b.alien
        /\ r.alien_shoot = b.alien_shoot /\ r.ship_shoot = b.ship_shoot /\ r.ship = b.ship
    <3>1. b \in Boards
      OBVIOUS
    <3> QED
      BY ONLY <1>2, <3>1, FleetLeft
  <2>3. y \in Int /\ y \in LEFT_END .. RIGHT_END /\ y < RIGHT_END /\ y_aliens > LEFT_END
    BY <1>1, <1>5 DEF FleetPlaced, LEFT_END
  <2>4. Turned(y) = IF y = LEFT_END THEN {"down"} ELSE {"left"}
    BY <1>5 DEF Turned
  <2> HIDE DEF r, m
  <2>5. FleetPlaced(m.x, m.y, m.heading)
    <3>1. m.x = x_aliens /\ m.y = y /\ m.heading = IF y = LEFT_END THEN {"down"} ELSE {"left"}
      BY <2>1, <2>4
    <3> HIDE DEF y
    <3>2. y # LEFT_END => y > LEFT_END
      BY <1>1, <2>3 DEF LEFT_END
    <3> QED
      BY <1>1, <2>3, <3>1, <3>2 DEF FleetPlaced
  <2>6. r.alien \subseteq Formation(x_aliens, y)
    <3>1. ASSUME NEW p \in Int, NEW q \in Int, <<p, q>> \in r.alien
          PROVE  <<p, q>> \in Formation(x_aliens, y)
      <4>1. Place(p - x_aliens, (q + 1) - y_aliens)
        <5>1. <<p, q + 1>> \in b.alien /\ q + 1 \in Int
          BY <2>2, <3>1
        <5>2. p \in Int /\ q \in Int
          BY <3>1
        <5> QED
          BY ONLY <1>3, <5>1, <5>2
      <4>2. (q + 1) - y_aliens = q - y
        BY <1>1
      <4> HIDE DEF y
      <4> QED
        BY <1>1, <2>3, <4>1, <4>2, FormationCells
    <3>2. r.alien \subseteq Cell
      BY <2>2 DEF Boards
    <3> QED
      BY <3>1, <3>2 DEF Cell
  <2>7. \A p, q \in Int : <<p, q>> \in b.alien =>
           <<p + m.x - x_aliens, q + m.y - y_aliens>> \in m.board.alien
    <3> SUFFICES ASSUME NEW p \in Int, NEW q \in Int, <<p, q>> \in b.alien
                 PROVE  <<p + m.x - x_aliens, q + m.y - y_aliens>> \in m.board.alien
      OBVIOUS
    <3>1. m.x = x_aliens /\ m.y = y_aliens - 1 /\ m.board = r
      BY <2>1
    <3>2. p + x_aliens - x_aliens = p /\ q + (y_aliens - 1) - y_aliens = q - 1 /\ (q - 1) + 1 = q
          /\ q - 1 \in Int
      BY <1>1
    <3> QED
      BY <2>2, <3>1, <3>2
  <2>8. m.board = r /\ m.x = x_aliens /\ m.y = y
    BY <2>1
  <2> QED
    <3> HIDE DEF y
    <3> QED
      BY <1>1, <2>2, <2>5, <2>6, <2>7, <2>8 DEF m, FleetMoved
<1>6. CASE heading = {"down"} /\ y_aliens \in {LEFT_END, RIGHT_END}
  <2> DEFINE r == aliens_down(b)
             x == x_aliens + 1
  <2>1. m = [board |-> r, x |-> x, y |-> y_aliens,
             heading |-> IF y_aliens >= RIGHT_END THEN {"left"}
                         ELSE IF y_aliens <= LEFT_END THEN {"right"} ELSE {"down"},
             win |-> NoAliens(b), lose |-> x >= LOSE_ROW]
    BY <1>6 DEF move_aliens
  <2>2. /\ r \in Boards
        /\ \A p, q \in Int : <<p, q>> \in r.alien <=> <<p - 1, q>> \in b.alien \ b.ship_shoot
        /\ r.alien_shoot = b.alien_shoot /\ r.ship_shoot = b.ship_shoot /\ r.ship = b.ship
    <3>1. b \in Boards
      OBVIOUS
    <3> QED
      BY ONLY <1>2, <3>1, FleetDown
  <2>3. x \in Int /\ x \in FIRST_ROW .. LOSE_ROW
    BY <1>1 DEF FIRST_ROW
  <2> HIDE DEF r, m
  <2>5. FleetPlaced(m.x, m.y, m.heading)
    <3>1. m.x = x /\ m.y = y_aliens
          /\ m.heading = IF y_aliens = RIGHT_END THEN {"left"} ELSE {"right"}
      <4>1. y_aliens >= RIGHT_END <=> y_aliens = RIGHT_END
        BY <1>1, <1>6 DEF LEFT_END
      <4>2. y_aliens # RIGHT_END => y_aliens <= LEFT_END
        BY <1>1, <1>6 DEF LEFT_END
      <4> HIDE DEF x
      <4> QED
        BY <2>1, <4>1, <4>2
    <3> HIDE DEF x
    <3>2. y_aliens # RIGHT_END => y_aliens < RIGHT_END
      BY <1>1
    <3>3. y_aliens = RIGHT_END => y_aliens > LEFT_END
      BY <1>1
    <3> QED
      BY <1>1, <2>3, <3>1, <3>2, <3>3 DEF FleetPlaced
  <2>6. r.alien \subseteq Formation(x, y_aliens)
    <3>1. ASSUME NEW p \in Int, NEW q \in Int, <<p, q>> \in r.alien
          PROVE  <<p, q>> \in Formation(x, y_aliens)
      <4>1. Place((p - 1) - x_aliens, q - y_aliens)
        <5>1. <<p - 1, q>> \in b.alien /\ p - 1 \in Int
          BY <2>2, <3>1
        <5>2. p \in Int /\ q \in Int
          BY <3>1
        <5> QED
          BY ONLY <1>3, <5>1, <5>2
      <4>2. (p - 1) - x_aliens = p - x
        BY <1>1
      <4> HIDE DEF x
      <4> QED
        BY <1>1, <2>3, <4>1, <4>2, FormationCells
    <3>2. r.alien \subseteq Cell
      BY <2>2 DEF Boards
    <3> QED
      BY <3>1, <3>2 DEF Cell
  <2>7. \A p, q \in Int : <<p, q>> \in b.alien =>
           \/ <<p + m.x - x_aliens, q + m.y - y_aliens>> \in m.board.alien
           \/ <<p, q>> \in b.ship_shoot
    <3> SUFFICES ASSUME NEW p \in Int, NEW q \in Int, <<p, q>> \in b.alien, <<p, q>> \notin b.ship_shoot
                 PROVE  <<p + m.x - x_aliens, q + m.y - y_aliens>> \in m.board.alien
      OBVIOUS
    <3>1. m.x = x_aliens + 1 /\ m.y = y_aliens /\ m.board = r
      BY <2>1
    <3>2. p + (x_aliens + 1) - x_aliens = p + 1 /\ q + y_aliens - y_aliens = q /\ (p + 1) - 1 = p
          /\ p + 1 \in Int
      BY <1>1
    <3> QED
      BY <2>2, <3>1, <3>2
  <2>8. m.board = r /\ m.x = x /\ m.y = y_aliens /\ m.lose = (x >= LOSE_ROW)
    BY <2>1
  <2> QED
    <3> HIDE DEF x
    <3> QED
      BY <2>2, <2>5, <2>6, <2>7, <2>8 DEF m, FleetMoved
<1> QED
  BY <1>4, <1>5, <1>6 DEF FleetPlaced

(* The alien that shoots is on the board. *)
LEMMA ShooterIsAlien ==
    ASSUME NEW b \in Boards, b.alien \subseteq (3 .. NUM_ROWS - 3) \X Columns, ShootColumns(b) # {}
    PROVE  Shooter(b) \in b.alien
<1> DEFINE ks == ShootColumns(b)
           k == CHOOSE k \in ks : \A j \in ks : k <= j
           column == {c \in b.alien : c[2] = k}
           depths == {NUM_ROWS - c[1] : c \in column}
<1>0. NUM_ROWS \in Int /\ NUM_COLUMNS \in Int
  BY BoardAssumption
<1>1. k \in ks
  <2>1. IsFiniteSet(0 .. NUM_COLUMNS) /\ 0 .. NUM_COLUMNS \subseteq Int
    BY <1>0, FS_Interval
  <2>2. ks \subseteq 0 .. NUM_COLUMNS
    BY <1>0 DEF ShootColumns, Columns, LastColumn, LEFT_END
  <2>3. IsFiniteSet(ks) /\ ks \subseteq Int /\ ks # {}
    BY <2>1, <2>2, FS_Subset
  <2>4. \E p \in ks : \A q \in ks : p <= q
    <3> HIDE DEF ks
    <3> QED
      BY <2>3, Least
  <2> QED
    BY <2>4
<1> HIDE DEF k
<1>2. column # {}
  BY <1>1 DEF ShootColumns
<1>3. \A c \in column : c[1] \in 3 .. NUM_ROWS - 3 /\ NUM_ROWS - c[1] \in 0 .. NUM_ROWS
  BY <1>0
<1>4. PICK d \in depths : \A e \in depths : d <= e
  <2>1. IsFiniteSet(0 .. NUM_ROWS) /\ 0 .. NUM_ROWS \subseteq Int
    BY <1>0, FS_Interval
  <2>2. depths \subseteq 0 .. NUM_ROWS
    BY <1>3
  <2>3. depths # {}
    <3> HIDE DEF column
    <3> QED
      BY <1>2
  <2> HIDE DEF depths
  <2>4. IsFiniteSet(depths) /\ depths \subseteq Int
    BY <2>1, <2>2, FS_Subset
  <2> QED
    BY <2>3, <2>4, Least
<1>5. PICK c \in column : d = NUM_ROWS - c[1]
  BY <1>4
<1>6. \A e \in column : e[1] <= c[1]
  <2> SUFFICES ASSUME NEW e \in column PROVE e[1] <= c[1]
    OBVIOUS
  <2>1. d <= NUM_ROWS - e[1]
    BY <1>4
  <2> HIDE DEF column
  <2> QED
    BY <1>0, <1>3, <1>5, <2>1
<1>7. Shooter(b) = CHOOSE e \in column : \A f \in column : f[1] <= e[1]
  BY DEF Shooter, k
<1>8. Shooter(b) \in column
  <2> HIDE DEF column
  <2> QED
    BY <1>6, <1>7
<1> QED
  BY <1>8

-----------------------------------------------------------------------------
(* The invariant *)

(* PiecesInPlace needs where the shots are, that the fleet is never asked to go on when it has
   come down, and which headings go with which columns. *)
ShipPlaced == y_ship \in 4 .. NUM_COLUMNS - 5 /\ board.ship = ShipAt(y_ship)
ShotsPlaced ==
    /\ board.ship_shoot \subseteq ShipShotRows \X Columns
    /\ board.alien_shoot \subseteq AlienShotRows \X Columns
DownIsOver == turn \in {"key", "time"} /\ (x_aliens >= LOSE_ROW => LOSE /\ turn = "key")
InvadersInv ==
    /\ FleetPlaced(x_aliens, y_aliens, heading) /\ DownIsOver
    /\ board \in Boards /\ board.alien \subseteq Formation(x_aliens, y_aliens)
    /\ ShipPlaced /\ ShotsPlaced
    /\ AimOnBoard

(* The initial board. *)
LEMMA InvadersStart == InvadersInit => InvadersInv
<1> SUFFICES ASSUME InvadersInit PROVE InvadersInv
  OBVIOUS
<1>0. /\ NUM_ROWS \in Int /\ NUM_COLUMNS \in Int /\ LOSE_ROW \in Int /\ RIGHT_END \in Int
      /\ RIGHT_END > LEFT_END /\ LOSE_ROW > FIRST_ROW /\ NUM_COLUMNS >= 10 /\ NUM_ROWS >= 7
  BY BoardAssumption DEF FIRST_ROW
<1>1. FleetPlaced(x_aliens, y_aliens, heading) /\ DownIsOver
  BY <1>0 DEF InvadersInit, FleetPlaced, DownIsOver, FIRST_ROW, LEFT_END
<1>2. NUM_COLUMNS \div 2 \in 4 .. NUM_COLUMNS - 5
  BY <1>0
<1>3. board = init_board /\ y_ship = NUM_COLUMNS \div 2
  BY DEF InvadersInit
<1>4. init_board \in Boards
  <2>1. ShipAt(NUM_COLUMNS \div 2) \subseteq Cell
    BY <1>0, <1>2 DEF ShipAt, x_ship, Cell
  <2>2. {dead_zone - 1, dead_zone} \X ShieldColumns \subseteq Int \X ShieldColumns
    BY <1>0 DEF dead_zone
  <2>3. Formation(FIRST_ROW, LEFT_END) \subseteq Cell
    BY FormationCells DEF FIRST_ROW, LEFT_END
  <2> QED
    BY <2>1, <2>2, <2>3 DEF init_board, Boards
<1>5. board.alien \subseteq Formation(x_aliens, y_aliens) /\ ShipPlaced /\ ShotsPlaced
  BY <1>2, <1>3 DEF init_board, ShipPlaced, ShotsPlaced, InvadersInit
<1>6. AimOnBoard
  BY <1>0 DEF InvadersInit, AimOnBoard
<1> QED
  BY <1>1, <1>3, <1>4, <1>5, <1>6 DEF InvadersInv

(* The cells of the ship, and what steering makes of them. *)
LEMMA ShipCells ==
    ASSUME NEW y \in Int
    PROVE  /\ ShipAt(y) \subseteq Cell
           /\ \A p, q \in Int : <<p, q>> \in ShipAt(y) <=>
                 (p = x_ship - 1 /\ q = y) \/ (p = x_ship /\ y - 2 <= q /\ q <= y + 2)
<1>1. x_ship \in Int
  BY BoardAssumption DEF x_ship
<1>2. ShipAt(y) \subseteq Cell
  BY <1>1 DEF ShipAt, Cell
<1>3. ASSUME NEW p \in Int, NEW q \in Int
      PROVE  <<p, q>> \in ShipAt(y) <=>
                (p = x_ship - 1 /\ q = y) \/ (p = x_ship /\ y - 2 <= q /\ q <= y + 2)
  <2>1. <<p, q>> \in {<<x_ship, j>> : j \in y - 2 .. y + 2} <=> p = x_ship /\ y - 2 <= q /\ q <= y + 2
    BY <1>1
  <2> QED
    BY <2>1 DEF ShipAt
<1> QED
  BY <1>2, <1>3

(* The cells added and taken away make the same ship one column further. *)
LEMMA ShipMoves ==
    ASSUME NEW y \in Int, NEW S, S = ShipAt(y)
    PROVE  /\ (S \cup {<<x_ship, y + 3>>, <<x_ship - 1, y + 1>>}) \ {<<x_ship, y - 2>>, <<x_ship - 1, y>>}
                 = ShipAt(y + 1)
           /\ (S \cup {<<x_ship, y - 3>>, <<x_ship - 1, y - 1>>}) \ {<<x_ship, y + 2>>, <<x_ship - 1, y>>}
                 = ShipAt(y - 1)
<1> DEFINE R == (S \cup {<<x_ship, y + 3>>, <<x_ship - 1, y + 1>>}) \ {<<x_ship, y - 2>>, <<x_ship - 1, y>>}
           L == (S \cup {<<x_ship, y - 3>>, <<x_ship - 1, y - 1>>}) \ {<<x_ship, y + 2>>, <<x_ship - 1, y>>}
<1>1. x_ship \in Int /\ x_ship - 1 \in Int /\ x_ship - 1 # x_ship
  BY BoardAssumption DEF x_ship
<1> HIDE DEF x_ship
<1>2. S \subseteq Cell /\ \A p, q \in Int : <<p, q>> \in S <=>
         (p = x_ship - 1 /\ q = y) \/ (p = x_ship /\ y - 2 <= q /\ q <= y + 2)
  BY ShipCells
<1>3. y + 1 \in Int /\ y - 1 \in Int
  OBVIOUS
<1>4. R \subseteq Cell /\ L \subseteq Cell
  BY <1>1, <1>2 DEF Cell
<1>5. \A p, q \in Int : <<p, q>> \in R <=> <<p, q>> \in ShipAt(y + 1)
  <2> SUFFICES ASSUME NEW p \in Int, NEW q \in Int
               PROVE  <<p, q>> \in R <=> <<p, q>> \in ShipAt(y + 1)
    OBVIOUS
  <2>1. <<p, q>> \in ShipAt(y + 1) <=>
           (p = x_ship - 1 /\ q = y + 1) \/ (p = x_ship /\ (y + 1) - 2 <= q /\ q <= (y + 1) + 2)
    BY <1>3, ShipCells
  <2>2. <<p, q>> \in R <=>
           /\ \/ (p = x_ship - 1 /\ q = y) \/ (p = x_ship /\ y - 2 <= q /\ q <= y + 2)
              \/ (p = x_ship /\ q = y + 3) \/ (p = x_ship - 1 /\ q = y + 1)
           /\ ~(p = x_ship /\ q = y - 2) /\ ~(p = x_ship - 1 /\ q = y)
    BY <1>2
  <2> HIDE DEF R
  <2> QED
    BY <1>1, <2>1, <2>2
<1>6. \A p, q \in Int : <<p, q>> \in L <=> <<p, q>> \in ShipAt(y - 1)
  <2> SUFFICES ASSUME NEW p \in Int, NEW q \in Int
               PROVE  <<p, q>> \in L <=> <<p, q>> \in ShipAt(y - 1)
    OBVIOUS
  <2>1. <<p, q>> \in ShipAt(y - 1) <=>
           (p = x_ship - 1 /\ q = y - 1) \/ (p = x_ship /\ (y - 1) - 2 <= q /\ q <= (y - 1) + 2)
    BY <1>3, ShipCells
  <2>2. <<p, q>> \in L <=>
           /\ \/ (p = x_ship - 1 /\ q = y) \/ (p = x_ship /\ y - 2 <= q /\ q <= y + 2)
              \/ (p = x_ship /\ q = y - 3) \/ (p = x_ship - 1 /\ q = y - 1)
           /\ ~(p = x_ship /\ q = y + 2) /\ ~(p = x_ship - 1 /\ q = y)
    BY <1>2
  <2> HIDE DEF L
  <2> QED
    BY <1>1, <2>1, <2>2
<1>7. ShipAt(y + 1) \subseteq Cell /\ ShipAt(y - 1) \subseteq Cell
  BY <1>3, ShipCells
<1>8. \A A, B \in SUBSET Cell : (\A p, q \in Int : <<p, q>> \in A <=> <<p, q>> \in B) => A = B
  BY DEF Cell
<1> HIDE DEF R, L
<1>9. R = ShipAt(y + 1)
  BY <1>4, <1>5, <1>7, <1>8
<1>10. L = ShipAt(y - 1)
  BY <1>4, <1>6, <1>7, <1>8
<1> QED
  BY <1>9, <1>10 DEF R, L

(* A key moves the whole ship, or adds a shot above it. *)
LEMMA KeyKeeps ==
    ASSUME InvadersInv, Key
    PROVE  InvadersInv'
<1>0. /\ NUM_ROWS \in Int /\ NUM_COLUMNS \in Int /\ NUM_ROWS >= 7 /\ x_ship \in Int
      /\ y_ship \in Int /\ 4 <= y_ship /\ y_ship <= NUM_COLUMNS - 5
  BY BoardAssumption DEF FIRST_ROW, x_ship, InvadersInv, ShipPlaced
<1>1. UNCHANGED <<x_aliens, y_aliens, heading, WIN, last_shoot, shoot_pointer>>
  BY DEF Key, fleet, aim
<1>2. FleetPlaced(x_aliens, y_aliens, heading)' /\ AimOnBoard'
  BY <1>1 DEF InvadersInv, FleetPlaced, AimOnBoard
<1>3. DownIsOver'
  BY <1>1 DEF InvadersInv, DownIsOver, Key
<1>4. /\ board' \in Boards /\ board'.alien = board.alien
      /\ ShipPlaced'
      /\ board'.ship_shoot \subseteq board.ship_shoot \cup {<<x_ship - 2, y_ship>>}
      /\ board'.alien_shoot = board.alien_shoot
  <2>0. board \in Boards /\ y_ship \in 4 .. NUM_COLUMNS - 5 /\ board.ship = ShipAt(y_ship)
    BY DEF InvadersInv, ShipPlaced
  <2>1. CASE UNCHANGED <<board, y_ship>>
    BY <2>0, <2>1 DEF ShipPlaced
  <2>2. CASE y_ship < NUM_COLUMNS - 5 /\ board' = ship_right(board) /\ y_ship' = y_ship + 1
    <3>1. board' = [board EXCEPT !.ship = ShipAt(y_ship + 1)]
      BY <1>0, <2>0, <2>2, ShipMoves DEF ship_right
    <3>2. ShipAt(y_ship + 1) \subseteq Cell /\ y_ship + 1 \in 4 .. NUM_COLUMNS - 5
      BY <1>0, <2>2, ShipCells
    <3>3. /\ board' \in Boards /\ board'.ship = ShipAt(y_ship + 1) /\ board'.alien = board.alien
          /\ board'.ship_shoot = board.ship_shoot /\ board'.alien_shoot = board.alien_shoot
      BY <2>0, <3>1, <3>2 DEF Boards
    <3> QED
      BY <2>2, <3>2, <3>3 DEF ShipPlaced
  <2>3. CASE y_ship > 4 /\ board' = ship_left(board) /\ y_ship' = y_ship - 1
    <3>1. board' = [board EXCEPT !.ship = ShipAt(y_ship - 1)]
      BY <1>0, <2>0, <2>3, ShipMoves DEF ship_left
    <3>2. ShipAt(y_ship - 1) \subseteq Cell /\ y_ship - 1 \in 4 .. NUM_COLUMNS - 5
      BY <1>0, <2>3, ShipCells
    <3>3. /\ board' \in Boards /\ board'.ship = ShipAt(y_ship - 1) /\ board'.alien = board.alien
          /\ board'.ship_shoot = board.ship_shoot /\ board'.alien_shoot = board.alien_shoot
      BY <2>0, <3>1, <3>2 DEF Boards
    <3> QED
      BY <2>3, <3>2, <3>3 DEF ShipPlaced
  <2>4. CASE board' = make_ship_shoot /\ y_ship' = y_ship
    <3>1. <<x_ship - 2, y_ship>> \in Cell
      BY <1>0 DEF Cell
    <3>2. /\ board' \in Boards /\ board'.ship = board.ship /\ board'.alien = board.alien
          /\ board'.ship_shoot = board.ship_shoot \cup {<<x_ship - 2, y_ship>>}
          /\ board'.alien_shoot = board.alien_shoot
      BY <2>0, <2>4, <3>1 DEF make_ship_shoot, Boards
    <3> QED
      BY <2>0, <2>4, <3>2 DEF ShipPlaced
  <2> QED
    BY <2>1, <2>2, <2>3, <2>4 DEF Key, Steer
<1>5. ShotsPlaced'
  <2>1. <<x_ship - 2, y_ship>> \in ShipShotRows \X Columns
    BY <1>0 DEF x_ship, ShipShotRows, Columns, LEFT_END, LastColumn
  <2> QED
    BY <1>4, <2>1 DEF InvadersInv, ShotsPlaced
<1>6. board'.alien \subseteq Formation(x_aliens', y_aliens')
  BY <1>1, <1>4 DEF InvadersInv
<1>7. (board.alien \subseteq Formation(x_aliens, y_aliens))'
  BY <1>6
<1> QED
  BY <1>2, <1>3, <1>4, <1>5, <1>7 DEF InvadersInv

(* Waiting for the time to come changes nothing that InvadersInv is about. *)
LEMMA EarlyKeeps ==
    ASSUME InvadersInv, Early \/ UNCHANGED ivars
    PROVE  InvadersInv'
<1>1. UNCHANGED <<board, x_aliens, y_aliens, heading, y_ship, LOSE, WIN, last_shoot, shoot_pointer>>
      /\ (turn' = "key" \/ turn' = turn)
  BY DEF Early, ivars, fleet, aim
<1> QED
  BY <1>1 DEF InvadersInv, FleetPlaced, DownIsOver, ShipPlaced, ShotsPlaced, AimOnBoard

(* What ia_move does: shots, then the fleet, then a new shot of an alien perhaps. *)
LEMMA MoveDoes ==
    ASSUME InvadersInv, ia_move
    PROVE  LET b == move_shoots(board)
               m == move_aliens(b)
           IN  /\ ShotsMoved(board, b) /\ FleetMoved(b, m)
               /\ x_aliens' = m.x /\ y_aliens' = m.y /\ heading' = m.heading
               /\ (ShipHit(cancel_shoots(board)) \/ m.lose) => LOSE'
               /\ y_ship' = y_ship /\ turn' = "key"
               /\ m.board.alien \subseteq (3 .. NUM_ROWS - 3) \X Columns
               /\ \E S \in SUBSET m.board.alien :
                     S \subseteq {Shooter(m.board)}
                     /\ board' = [m.board EXCEPT !.alien_shoot = m.board.alien_shoot \cup S]
               /\ AimOnBoard'
<1> DEFINE b == move_shoots(board)
           m == move_aliens(b)
<1>1. ShotsMoved(board, b)
  BY ShotsMove DEF InvadersInv, ShotsPlaced
<1>2. b \in Boards /\ b.alien \subseteq Formation(x_aliens, y_aliens)
  <2> HIDE DEF b
  <2> QED
    BY <1>1 DEF ShotsMoved, InvadersInv
<1>3. x_aliens < LOSE_ROW
  BY BoardAssumption DEF ia_move, InvadersInv, DownIsOver, FleetPlaced, FIRST_ROW
<1>4. FleetMoved(b, m)
  <2> HIDE DEF b
  <2> QED
    BY <1>2, <1>3, FleetMoves DEF InvadersInv
<1>5. /\ x_aliens' = m.x /\ y_aliens' = m.y /\ heading' = m.heading
      /\ (ShipHit(cancel_shoots(board)) \/ m.lose) => LOSE'
      /\ y_ship' = y_ship /\ turn' = "key"
      /\ \/ board' = m.board /\ UNCHANGED aim
         \/ /\ ShootColumns(m.board) # {}
            /\ board' = [m.board EXCEPT !.alien_shoot = m.board.alien_shoot \cup {Shooter(m.board)}]
            /\ shoot_pointer' = NextAim(m.y).shoot_pointer
            /\ last_shoot' = NextAim(m.y).last_shoot
  BY DEF ia_move
<1> HIDE DEF m, b
<1>6. FleetPlaced(m.x, m.y, m.heading) /\ m.board \in Boards
  BY <1>4 DEF FleetMoved
<1>7. m.x \in FIRST_ROW .. LOSE_ROW /\ m.y \in LEFT_END .. RIGHT_END
  BY <1>6 DEF FleetPlaced
<1>8. m.board.alien \subseteq (3 .. NUM_ROWS - 3) \X Columns
  BY <1>4, <1>7, FleetRows DEF FleetMoved
<1>9. \E S \in SUBSET m.board.alien :
         S \subseteq {Shooter(m.board)}
         /\ board' = [m.board EXCEPT !.alien_shoot = m.board.alien_shoot \cup S]
  <2>1. CASE board' = m.board
    <3>1. m.board = [m.board EXCEPT !.alien_shoot = m.board.alien_shoot \cup {}]
      BY <1>6 DEF Boards
    <3> QED
      BY <2>1, <3>1
  <2>2. CASE /\ ShootColumns(m.board) # {}
             /\ board' = [m.board EXCEPT !.alien_shoot = m.board.alien_shoot \cup {Shooter(m.board)}]
    <3>1. Shooter(m.board) \in m.board.alien
      BY <1>6, <1>8, <2>2, ShooterIsAlien
    <3> QED
      BY <2>2, <3>1
  <2> QED
    BY <1>5, <2>1, <2>2
<1>10. AimOnBoard'
  <2>0. AimOnBoard
    BY DEF InvadersInv
  <2>1. CASE UNCHANGED aim
    BY <2>0, <2>1 DEF AimOnBoard, aim
  <2>2. CASE /\ shoot_pointer' = NextAim(m.y).shoot_pointer
             /\ last_shoot' = NextAim(m.y).last_shoot
    <3> DEFINE p == shoot_pointer + 1
               q == FLEET_END \div p
    <3>1. p \in 1 .. 5
      BY <2>0 DEF AimOnBoard
    <3>2. FLEET_END \in Nat /\ q \in 0 .. FLEET_END
      <4>1. FLEET_END \in Nat
        BY BoardAssumption
      <4>2. p = 1 \/ p = 2 \/ p = 3 \/ p = 4 \/ p = 5
        BY <3>1
      <4> HIDE DEF p
      <4> QED
        BY <4>1, <4>2
    <3>3. shoot_pointer' = p % 5 /\ last_shoot' = m.y + ((FLEET_END - 1) - q)
      BY <2>2 DEF NextAim
    <3> HIDE DEF p, q
    <3>4. p % 5 \in 0 .. 4
      BY <3>1
    <3>5. m.y + ((FLEET_END - 1) - q) \in 0 .. NUM_COLUMNS - 1
      BY <1>7, <3>2, BoardAssumption DEF LEFT_END, LastColumn
    <3> QED
      BY <3>3, <3>4, <3>5 DEF AimOnBoard
  <2> QED
    BY <1>5, <2>1, <2>2
<1> QED
  BY <1>1, <1>4, <1>5, <1>8, <1>9, <1>10 DEF b, m

(* ia_move keeps the invariant. *)
LEMMA MoveKeeps ==
    ASSUME InvadersInv, ia_move
    PROVE  InvadersInv'
<1> DEFINE b == move_shoots(board)
           m == move_aliens(b)
<1>1. /\ ShotsMoved(board, b) /\ FleetMoved(b, m)
      /\ x_aliens' = m.x /\ y_aliens' = m.y /\ heading' = m.heading
      /\ m.lose => LOSE'
      /\ y_ship' = y_ship /\ turn' = "key"
      /\ m.board.alien \subseteq (3 .. NUM_ROWS - 3) \X Columns
      /\ AimOnBoard'
  BY MoveDoes
<1>2. PICK S \in SUBSET m.board.alien :
         board' = [m.board EXCEPT !.alien_shoot = m.board.alien_shoot \cup S]
  BY MoveDoes
<1> HIDE DEF b, m
<1>3. m.board \in Boards
  BY <1>1 DEF FleetMoved
<1>4. /\ board' \in Boards /\ board'.alien = m.board.alien /\ board'.ship = m.board.ship
      /\ board'.ship_shoot = m.board.ship_shoot /\ board'.alien_shoot = m.board.alien_shoot \cup S
  <2>1. S \subseteq Cell
    BY <1>3 DEF Boards
  <2> QED
    BY <1>2, <1>3, <2>1 DEF Boards
<1>5. FleetPlaced(x_aliens', y_aliens', heading')
  BY <1>1 DEF FleetMoved
<1>6. FleetPlaced(x_aliens, y_aliens, heading)'
  BY <1>5 DEF FleetPlaced
<1>7. DownIsOver'
  BY <1>1 DEF FleetMoved, DownIsOver
<1>8. (board.alien \subseteq Formation(x_aliens, y_aliens))'
  <2>1. board'.alien \subseteq Formation(x_aliens', y_aliens')
    BY <1>1, <1>4 DEF FleetMoved
  <2> QED
    BY <2>1
<1>9. ShipPlaced'
  <2>1. board'.ship = board.ship
    BY <1>1, <1>4 DEF FleetMoved, ShotsMoved
  <2> QED
    BY <1>1, <2>1 DEF ShipPlaced, InvadersInv
<1>10. /\ board.ship_shoot \subseteq ShipShotRows \X Columns
       /\ board.alien_shoot \subseteq AlienShotRows \X Columns
       /\ NUM_ROWS \in Int
  BY BoardAssumption DEF InvadersInv, ShotsPlaced
<1>11. board'.ship_shoot \subseteq ShipShotRows \X Columns
  <2>1. board'.ship_shoot = b.ship_shoot /\ b \in Boards
    BY <1>1, <1>4 DEF FleetMoved, ShotsMoved
  <2>2. \A x, y \in Int : <<x, y>> \in b.ship_shoot => <<x + 1, y>> \in board.ship_shoot /\ x >= 2
    BY <1>1 DEF ShotsMoved
  <2>3. \A x, y \in Int : <<x, y>> \in b.ship_shoot => x \in 2 .. NUM_ROWS - 4 /\ y \in Columns
    <3> SUFFICES ASSUME NEW x \in Int, NEW y \in Int, <<x, y>> \in b.ship_shoot
                 PROVE  x \in 2 .. NUM_ROWS - 4 /\ y \in Columns
      OBVIOUS
    <3>1. <<x + 1, y>> \in ShipShotRows \X Columns /\ x >= 2
      BY <1>10, <2>2
    <3>2. x + 1 \in 2 .. NUM_ROWS - 4 /\ y \in Columns
      BY <3>1 DEF ShipShotRows
    <3> QED
      BY <1>10, <3>1, <3>2
  <2>4. b.ship_shoot \subseteq Cell
    BY <2>1 DEF Boards
  <2> QED
    BY <2>1, <2>3, <2>4 DEF Cell, ShipShotRows
<1>12. board'.alien_shoot \subseteq AlienShotRows \X Columns
  <2>1. board'.alien_shoot = b.alien_shoot \cup S /\ b \in Boards
    BY <1>1, <1>4 DEF FleetMoved, ShotsMoved
  <2>2. \A x, y \in Int : <<x, y>> \in b.alien_shoot =>
           <<x - 1, y>> \in board.alien_shoot /\ x <= NUM_ROWS - 2
    BY <1>1 DEF ShotsMoved
  <2>3. \A x, y \in Int : <<x, y>> \in b.alien_shoot => x \in 2 .. NUM_ROWS - 2 /\ y \in Columns
    <3> SUFFICES ASSUME NEW x \in Int, NEW y \in Int, <<x, y>> \in b.alien_shoot
                 PROVE  x \in 2 .. NUM_ROWS - 2 /\ y \in Columns
      OBVIOUS
    <3>1. <<x - 1, y>> \in AlienShotRows \X Columns /\ x <= NUM_ROWS - 2
      BY <1>10, <2>2
    <3>2. x - 1 \in 2 .. NUM_ROWS - 2 /\ y \in Columns
      BY <3>1 DEF AlienShotRows
    <3> QED
      BY <1>10, <3>1, <3>2
  <2>4. b.alien_shoot \subseteq Cell
    BY <2>1 DEF Boards
  <2>5. b.alien_shoot \subseteq AlienShotRows \X Columns
    BY <2>3, <2>4 DEF Cell, AlienShotRows
  <2>6. 3 .. NUM_ROWS - 3 \subseteq AlienShotRows
    BY <1>10 DEF AlienShotRows
  <2>7. S \subseteq AlienShotRows \X Columns
    BY <1>1, <2>6
  <2> QED
    BY <2>1, <2>5, <2>7
<1>13. ShotsPlaced'
  BY <1>11, <1>12 DEF ShotsPlaced, ShipShotRows, AlienShotRows
<1> QED
  BY <1>1, <1>4, <1>6, <1>7, <1>8, <1>9, <1>13 DEF InvadersInv

(* The invariant holds. *)
LEMMA InvadersHolds == InvadersSpec => []InvadersInv
<1>1. InvadersInit => InvadersInv
  BY InvadersStart
<1>2. InvadersInv /\ [InvadersNext]_ivars => InvadersInv'
  BY KeyKeeps, EarlyKeeps, MoveKeeps DEF InvadersNext
<1> QED
  BY <1>1, <1>2, PTL DEF InvadersSpec

(* Fleet and ship keep away from the walls. *)
LEMMA InvImpliesPieces == InvadersInv => PiecesInPlace
<1> SUFFICES ASSUME InvadersInv PROVE PiecesInPlace
  OBVIOUS
<1>0. /\ NUM_ROWS \in Int /\ NUM_COLUMNS \in Int /\ LOSE_ROW \in Int /\ RIGHT_END \in Int
      /\ NUM_ROWS >= 7
  BY BoardAssumption DEF FIRST_ROW
<1>1. /\ FleetPlaced(x_aliens, y_aliens, heading)
      /\ board.alien \subseteq Formation(x_aliens, y_aliens) /\ board.ship = ShipAt(y_ship)
      /\ y_ship \in 4 .. NUM_COLUMNS - 5
  BY DEF InvadersInv, ShipPlaced
<1>2. x_aliens \in FIRST_ROW .. LOSE_ROW /\ y_aliens \in LEFT_END .. RIGHT_END
  BY <1>1 DEF FleetPlaced
<1>3. Cardinality(heading) = 1
  BY <1>1, FS_Singleton DEF FleetPlaced
<1>4. x_aliens \in FIRST_ROW .. LOSE_ROW + 1
  BY <1>0, <1>2 DEF FIRST_ROW
<1>5. \A c \in board.alien : ~is_wall(c[1], c[2])
  <2>1. board.alien \subseteq (3 .. NUM_ROWS - 3) \X Columns
    BY <1>1, <1>2, FleetRows
  <2> QED
    BY <1>0, <2>1 DEF is_wall, Columns, LEFT_END, LastColumn
<1>6. \A c \in board.ship : ~is_wall(c[1], c[2])
  <2> SUFFICES ASSUME NEW p \in Int, NEW q \in Int, <<p, q>> \in ShipAt(y_ship)
               PROVE  ~is_wall(p, q)
    <3>1. ShipAt(y_ship) \subseteq Cell
      BY <1>0, <1>1, ShipCells
    <3> QED
      BY <1>1, <3>1 DEF Cell
  <2>1. (p = x_ship - 1 /\ q = y_ship) \/ (p = x_ship /\ y_ship - 2 <= q /\ q <= y_ship + 2)
    BY <1>0, <1>1, ShipCells
  <2> QED
    BY <1>0, <1>1, <2>1 DEF is_wall, x_ship
<1> QED
  BY <1>1, <1>2, <1>3, <1>4, <1>5, <1>6 DEF PiecesInPlace

(* Moving cell by cell keeps the fleet and the ship whole, for any board and any fleet
   (user.c:247-321). *)
THEOREM PiecesStayInPlace == InvadersSpec => []PiecesInPlace
  BY InvImpliesPieces, InvadersHolds, PTL

(* The column that the next alien shoots from is on the board (user.c:411-426). *)
THEOREM AimStaysOnBoard == InvadersSpec => []AimOnBoard
<1>1. InvadersInv => AimOnBoard
  BY DEF InvadersInv
<1> QED
  BY <1>1, InvadersHolds, PTL

-----------------------------------------------------------------------------
(* What a step may do *)

(* An alien is in its place after ia_move, or met a shot of the ship. *)
LEMMA AliensDie ==
    ASSUME InvadersInv, ia_move, NEW c \in board.alien
    PROVE  \/ <<c[1] + x_aliens' - x_aliens, c[2] + y_aliens' - y_aliens>> \in board'.alien
           \/ c \in board.ship_shoot \/ Below(c) \in board.ship_shoot
<1> DEFINE b == move_shoots(board)
           m == move_aliens(b)
<1>1. ShotsMoved(board, b) /\ FleetMoved(b, m) /\ x_aliens' = m.x /\ y_aliens' = m.y
  BY MoveDoes
<1>2. board'.alien = m.board.alien
  <2>1. PICK S : board' = [m.board EXCEPT !.alien_shoot = m.board.alien_shoot \cup S]
    BY MoveDoes
  <2>2. m.board \in Boards
    BY <1>1 DEF FleetMoved
  <2> HIDE DEF m
  <2> QED
    BY <2>1, <2>2 DEF Boards
<1> HIDE DEF b, m
<1>3. c \in Cell
  BY DEF InvadersInv, Boards
<1>4. PICK p \in Int, q \in Int : c = <<p, q>>
  BY <1>3 DEF Cell
<1>5. <<p, q>> \in b.alien \/ <<p, q>> \in board.ship_shoot
  BY <1>1, <1>4 DEF ShotsMoved
<1>6. <<p, q>> \in b.alien =>
         <<p + m.x - x_aliens, q + m.y - y_aliens>> \in m.board.alien \/ <<p, q>> \in b.ship_shoot
  BY <1>1 DEF FleetMoved
<1>7. <<p, q>> \in b.ship_shoot => <<p + 1, q>> \in board.ship_shoot
  BY <1>1 DEF ShotsMoved
<1>8. Below(c) = <<p + 1, q>> /\ c[1] = p /\ c[2] = q
  BY <1>4 DEF Below
<1> QED
  BY <1>1, <1>2, <1>4, <1>5, <1>6, <1>7, <1>8

(* An alien dies only where a shot of the ship is, before or after the shots move, and the others
   keep their places, for any board (user.c:254, 369-371). *)
THEOREM AliensDieByShotsOnly == InvadersSpec => AliensDieByShots
<1>1. InvadersInv /\ [InvadersNext]_ivars =>
         [ia_move =>
            \A c \in board.alien :
               \/ <<c[1] + x_aliens' - x_aliens, c[2] + y_aliens' - y_aliens>> \in board'.alien
               \/ c \in board.ship_shoot \/ Below(c) \in board.ship_shoot]_ivars
  BY AliensDie
<1> QED
  BY <1>1, InvadersHolds, PTL DEF InvadersSpec, AliensDieByShots

(* The ship moves into a shot. *)
LEMMA SteeredHit ==
    ASSUME InvadersInv, InvadersInv', [InvadersNext]_ivars, y_ship' # y_ship,
           board'.alien_shoot \cap board'.ship # {}
    PROVE  LOSE'
<1>1. ~ia_move /\ ~Early /\ ~UNCHANGED ivars
  BY DEF ia_move, Early, ivars
<1>2. Key
  BY <1>1 DEF InvadersNext
<1>3. board'.ship = ShipAt(y_ship')
  BY DEF InvadersInv, ShipPlaced
<1>4. \/ board' = ship_right(board) /\ LOSE' = (LOSE \/ shoot_colision(board, y_ship'))
      \/ board' = ship_left(board) /\ LOSE' = (LOSE \/ shoot_colision(board, y_ship'))
  BY <1>2 DEF Key, Steer
<1>5. board'.alien_shoot = board.alien_shoot
  BY <1>4 DEF ship_right, ship_left, InvadersInv, Boards
<1>6. shoot_colision(board, y_ship')
  BY <1>3, <1>5 DEF shoot_colision
<1> QED
  BY <1>4, <1>6

(* The time comes while a shot is on the ship. *)
LEMMA TimedHit ==
    ASSUME InvadersInv, ia_move, board.alien_shoot \cap board.ship # {}
    PROVE  LOSE'
<1> DEFINE r == cancel_shoots(board)
<1>1. ShipHit(r) => LOSE'
  BY MoveDoes
<1>2. board \in Boards /\ board.ship = ShipAt(y_ship) /\ y_ship \in Int
      /\ board.ship_shoot \subseteq ShipShotRows \X Columns
  BY BoardAssumption DEF InvadersInv, ShipPlaced, ShotsPlaced
<1>3. /\ r.ship = board.ship
      /\ \A x, y \in Int : <<x, y>> \in board.alien_shoot =>
            <<x, y>> \in r.alien_shoot \/ <<x + 1, y>> \in board.ship_shoot
  BY <1>2, Cancelled
<1>4. PICK c : c \in board.alien_shoot /\ c \in board.ship
  OBVIOUS
<1>5. PICK x \in Int, y \in Int : c = <<x, y>>
  <2>1. c \in Cell
    BY <1>2, <1>4 DEF Boards
  <2> QED
    BY <2>1 DEF Cell
<1>6. x = x_ship - 1 \/ x = x_ship
  BY <1>2, <1>4, <1>5, ShipCells
<1>7. <<x + 1, y>> \notin board.ship_shoot
  <2>1. ~(x + 1 \in ShipShotRows)
    BY <1>6, BoardAssumption DEF ShipShotRows, x_ship
  <2> QED
    BY <1>2, <2>1
<1> HIDE DEF r
<1>8. c \in r.alien_shoot \cap r.ship
  BY <1>3, <1>4, <1>5, <1>7
<1> QED
  BY <1>1, <1>8 DEF ShipHit

(* A shot that is on the ship ends the game, for any board: no shot of the ship can be there to
   cancel it (user.c:309, 319, 357). *)
THEOREM HitsLose == InvadersSpec => HitLoses
<1>1. InvadersInv /\ InvadersInv' /\ [InvadersNext]_ivars =>
         [/\ y_ship' # y_ship /\ board'.alien_shoot \cap board'.ship # {} => LOSE'
          /\ ia_move /\ board.alien_shoot \cap board.ship # {} => LOSE']_ivars
  BY SteeredHit, TimedHit
<1> QED
  BY <1>1, InvadersHolds, PTL DEF InvadersSpec, HitLoses

(* The shots before and after ia_move. *)
LEMMA OneCell ==
    ASSUME InvadersInv, ia_move
    PROVE  /\ board'.ship_shoot \subseteq {Above(c) : c \in board.ship_shoot}
           /\ \A c \in board.ship_shoot : Above(c) \in board'.ship_shoot \/ ShipShotEnds(c)
           /\ \A c \in board.alien_shoot : Below(c) \in board'.alien_shoot \/ AlienShotEnds(c)
           /\ LET new == board'.alien_shoot \ {Below(c) : c \in board.alien_shoot}
              IN  new \subseteq board'.alien /\ Cardinality(new) <= 1
<1> DEFINE b == move_shoots(board)
           m == move_aliens(b)
<1>1. ShotsMoved(board, b) /\ FleetMoved(b, m)
  BY MoveDoes
<1>2. PICK S \in SUBSET m.board.alien :
         /\ S \subseteq {Shooter(m.board)}
         /\ board' = [m.board EXCEPT !.alien_shoot = m.board.alien_shoot \cup S]
  BY MoveDoes
<1> HIDE DEF m
<1>3. /\ board'.alien = m.board.alien /\ board'.ship_shoot = b.ship_shoot
      /\ board'.alien_shoot = b.alien_shoot \cup S
  <2> HIDE DEF b
  <2>1. m.board \in Boards /\ m.board.ship_shoot = b.ship_shoot /\ m.board.alien_shoot = b.alien_shoot
    BY <1>1 DEF FleetMoved
  <2> QED
    BY <1>2, <2>1 DEF Boards
<1> HIDE DEF b
<1>4. /\ b \in Boards /\ board \in Boards
      /\ \A x, y \in Int : <<x, y>> \in b.alien_shoot => <<x - 1, y>> \in board.alien_shoot
      /\ \A x, y \in Int : <<x, y>> \in b.ship_shoot => <<x + 1, y>> \in board.ship_shoot
  BY <1>1 DEF ShotsMoved, InvadersInv
<1>5. board'.ship_shoot \subseteq {Above(c) : c \in board.ship_shoot}
  <2> SUFFICES ASSUME NEW d \in b.ship_shoot PROVE d \in {Above(c) : c \in board.ship_shoot}
    BY <1>3
  <2>1. PICK x \in Int, y \in Int : d = <<x, y>>
    BY <1>4 DEF Boards, Cell
  <2>2. <<x + 1, y>> \in board.ship_shoot
    BY <1>4, <2>1
  <2>3. Above(<<x + 1, y>>) = d
    BY <2>1 DEF Above
  <2> QED
    BY <2>2, <2>3
<1>6. \A c \in board.ship_shoot : Above(c) \in board'.ship_shoot \/ ShipShotEnds(c)
  <2> SUFFICES ASSUME NEW c \in board.ship_shoot
               PROVE  Above(c) \in b.ship_shoot \/ ShipShotEnds(c)
    BY <1>3
  <2>1. PICK x \in Int, y \in Int : c = <<x, y>>
    BY <1>4 DEF Boards, Cell
  <2>2. \/ <<x - 1, y>> \in b.ship_shoot
        \/ <<x, y>> \in board.alien \/ <<x - 1, y>> \in board.shield \/ x = 2
        \/ <<x - 1, y>> \in board.alien_shoot
    BY <1>1, <2>1 DEF ShotsMoved
  <2>3. Above(c) = <<x - 1, y>> /\ c[1] = x
    BY <2>1 DEF Above
  <2>4. Above(c) \in board.alien_shoot => ShipShotEnds(c)
    BY DEF ShipShotEnds
  <2>5. c \in board.alien \/ Above(c) \in board.shield \/ c[1] = 2 => ShipShotEnds(c)
    BY DEF ShipShotEnds
  <2> QED
    BY <2>1, <2>2, <2>3, <2>4, <2>5
<1>7. \A c \in board.alien_shoot : Below(c) \in board'.alien_shoot \/ AlienShotEnds(c)
  <2> SUFFICES ASSUME NEW c \in board.alien_shoot
               PROVE  Below(c) \in b.alien_shoot \/ AlienShotEnds(c)
    BY <1>3
  <2>1. PICK x \in Int, y \in Int : c = <<x, y>>
    BY <1>4 DEF Boards, Cell
  <2>2. \/ <<x + 1, y>> \in b.alien_shoot
        \/ <<x, y>> \in board.shield \/ x = NUM_ROWS - 2
        \/ <<x, y>> \in board.ship_shoot \/ <<x + 1, y>> \in board.ship_shoot
    BY <1>1, <2>1 DEF ShotsMoved
  <2>3. Below(c) = <<x + 1, y>> /\ c[1] = x
    BY <2>1 DEF Below
  <2>4. c \in board.ship_shoot \/ Below(c) \in board.ship_shoot => AlienShotEnds(c)
    BY DEF AlienShotEnds
  <2>5. c \in board.shield \/ c[1] = NUM_ROWS - 2 => AlienShotEnds(c)
    BY DEF AlienShotEnds
  <2> QED
    BY <2>1, <2>2, <2>3, <2>4, <2>5
<1> DEFINE moved == {Below(c) : c \in board.alien_shoot}
           new == board'.alien_shoot \ moved
<1>8. b.alien_shoot \subseteq moved
  <2> SUFFICES ASSUME NEW d \in b.alien_shoot PROVE d \in moved
    OBVIOUS
  <2>1. PICK x \in Int, y \in Int : d = <<x, y>>
    BY <1>4 DEF Boards, Cell
  <2>2. <<x - 1, y>> \in board.alien_shoot
    BY <1>4, <2>1
  <2>3. Below(<<x - 1, y>>) = d
    BY <2>1 DEF Below
  <2> QED
    BY <2>2, <2>3
<1>9. new \subseteq S
  <2> HIDE DEF moved
  <2> QED
    BY <1>3, <1>8
<1> HIDE DEF new
<1>10. new \subseteq board'.alien /\ new \subseteq {Shooter(m.board)}
  BY <1>2, <1>3, <1>9
<1>11. Cardinality(new) <= 1
  <2>1. IsFiniteSet({Shooter(m.board)}) /\ Cardinality({Shooter(m.board)}) = 1
    BY FS_Singleton
  <2> QED
    BY <1>10, <2>1, FS_Subset
<1> QED
  BY <1>5, <1>6, <1>7, <1>10, <1>11 DEF new

(* In one ia_move every shot goes one cell or ends for a reason, and one alien at most starts a
   new one, for any board and any number of shots (user.c:349-392, 419-421). *)
THEOREM ShotsMoveOneCell == InvadersSpec => ShotsGoOneCell
<1>1. InvadersInv /\ [InvadersNext]_ivars =>
         [ia_move =>
            /\ board'.ship_shoot \subseteq {Above(c) : c \in board.ship_shoot}
            /\ \A c \in board.ship_shoot : Above(c) \in board'.ship_shoot \/ ShipShotEnds(c)
            /\ \A c \in board.alien_shoot : Below(c) \in board'.alien_shoot \/ AlienShotEnds(c)
            /\ LET new == board'.alien_shoot \ {Below(c) : c \in board.alien_shoot}
               IN  new \subseteq board'.alien /\ Cardinality(new) <= 1]_ivars
  BY OneCell
<1> QED
  BY <1>1, InvadersHolds, PTL DEF InvadersSpec, ShotsGoOneCell

=============================================================================
