------------------------------ MODULE Invaders ------------------------------
(***************************************************************************)
(* The rules of the game (zeos/user.c): the board, the fleet of aliens     *)
(* that sweeps right and left and comes down at each end, the shots of     *)
(* both sides, the ship, and the loop of main that calls them.             *)
(*                                                                         *)
(* Each int of a cell is the set of the cells where it is 1.  A function   *)
(* that scans the board folds over it in the order of its loops, by rows   *)
(* for what moves up or down and by columns for what moves sideways: the   *)
(* other loop meets cells that do not touch each other.  A cell changed    *)
(* ahead of the scan is seen changed.  EASY is 1, as it is compiled.  The  *)
(* literals of the code are written with the constants they follow from;   *)
(* what the frames show is in module Frames.                               *)
(***************************************************************************)
EXTENDS Integers, Sequences, FiniteSets, Loops

CONSTANTS
    NUM_ROWS, NUM_COLUMNS,
    FleetEven, FleetOdd,    \* the rows of the fleet with even and with odd columns, from x_aliens
    FLEET_END,              \* 50: the last column of the fleet
    RIGHT_END,              \* 29: y_aliens when the fleet is at the right wall
    LOSE_ROW,               \* 18: x_aliens when the fleet has come down
    ShieldColumns,
    MAX_KEYS                \* bound: the keys that count

VARIABLES
    board,                  \* alien, alien_shoot, ship_shoot, shield and ship
    x_aliens, y_aliens,     \* the first row and column of the fleet
    heading,                \* which of move_right, move_left, move_down are 1
    y_ship,
    LOSE, WIN,
    last_shoot, shoot_pointer,
    turn,                   \* where main is in its loop
    keys                    \* the keys that have been used

fleet == <<x_aliens, y_aliens, heading>>
aim == <<last_shoot, shoot_pointer>>
ivars == <<board, fleet, y_ship, LOSE, WIN, aim, turn, keys>>

FIRST_ROW == 3              \* the initial x_aliens
LEFT_END == 2               \* the initial y_aliens
dead_zone == LOSE_ROW + 1
x_ship == NUM_ROWS - 2
LastColumn == NUM_COLUMNS - 3
Columns == LEFT_END .. LastColumn       \* between the walls

ASSUME BoardAssumption ==
    /\ NUM_ROWS \in Nat /\ NUM_COLUMNS \in Nat /\ RIGHT_END \in Nat /\ FLEET_END \in Nat
    /\ FLEET_END + RIGHT_END - LEFT_END = LastColumn    \* 50 + 27 = 77
    /\ \A r \in FleetEven \cup FleetOdd : r \in Nat /\ LOSE_ROW + r <= NUM_ROWS - 3
    /\ LOSE_ROW \in Nat /\ LOSE_ROW > FIRST_ROW /\ LOSE_ROW <= NUM_ROWS - 3
    /\ RIGHT_END > LEFT_END /\ NUM_COLUMNS >= 10

InRow(S, i) == {c \in S : c[1] = i /\ c[2] \in Columns}
InColumn(S, j) == {c \in S : c[2] = j /\ c[1] \in 3 .. NUM_ROWS - 4}

Below(c) == <<c[1] + 1, c[2]>>
Above(c) == <<c[1] - 1, c[2]>>

is_wall(i, j) ==
    \/ i = 1 \/ i = NUM_ROWS - 1
    \/ j \in {0, 1, NUM_COLUMNS - 1, NUM_COLUMNS - 2} /\ i # 0

ShipAt(y) == {<<x_ship - 1, y>>} \cup {<<x_ship, j>> : j \in y - 2 .. y + 2}

(* The places of the fleet when it is at x, y, dead aliens included. *)
Formation(x, y) ==
    {<<x + r, y + j - LEFT_END>> : r \in FleetEven, j \in {k \in LEFT_END .. FLEET_END : k % 2 = 0}}
    \cup
    {<<x + r, y + j - LEFT_END>> : r \in FleetOdd, j \in {k \in LEFT_END .. FLEET_END - 1 : k % 2 = 1}}

init_board ==
    [alien |-> Formation(FIRST_ROW, LEFT_END),
     alien_shoot |-> {}, ship_shoot |-> {},
     shield |-> {dead_zone - 1, dead_zone} \X ShieldColumns,
     ship |-> ShipAt(NUM_COLUMNS \div 2)]

InvadersInit ==
    /\ board = init_board
    /\ x_aliens = FIRST_ROW /\ y_aliens = LEFT_END /\ heading = {"right"}
    /\ y_ship = NUM_COLUMNS \div 2
    /\ LOSE = FALSE /\ WIN = FALSE
    /\ last_shoot = 3 /\ shoot_pointer = 1
    /\ turn = "key" /\ keys = 0

-----------------------------------------------------------------------------
(* The shots *)

(* cancel_shoots: two shots that are about to meet. *)
cancel_shoots(b) ==
    LET met == {c \in b.alien_shoot : Below(c) \in b.ship_shoot}
    IN  [b EXCEPT !.alien_shoot = @ \ met, !.ship_shoot = @ \ {Below(c) : c \in met}]

(* The shots of the aliens in row i hit a shield, or move, and hit the ship. *)
AlienShots(b, i) ==
    LET here == InRow(b.alien_shoot, i)
        moving == {c \in here \ b.shield : /\ i < NUM_ROWS - 2
                                           /\ {c, Below(c)} \cap b.ship_shoot # {c, Below(c)}}
    IN  [b EXCEPT !.shield = @ \ here, !.alien_shoot = (@ \ here) \cup {Below(c) : c \in moving}]

(* Mutant of move_shoots_aliens: from the top of the board to the bottom. *)
move_shoots_aliens_TopDown(b) == Scan(AlienShots, b, Up(2, NUM_ROWS - 2))

move_shoots_aliens(b) == Scan(AlienShots, b, Down(NUM_ROWS - 2, 2))

(* It sets LOSE: some shot is on the ship. *)
ShipHit(b) == b.alien_shoot \cap b.ship # {}

(* The shots of the ship in row i hit an alien, or a shield above, or move. *)
ShipShots(b, i) ==
    LET here == InRow(b.ship_shoot, i)
        moving == {c \in here \ b.alien : /\ i >= 3 /\ Above(c) \notin b.shield
                                          /\ {c, Above(c)} \cap b.alien_shoot # {c, Above(c)}}
    IN  [b EXCEPT !.alien = @ \ here, !.ship_shoot = (@ \ here) \cup {Above(c) : c \in moving}]

move_shoots_ship(b) == Scan(ShipShots, b, Up(2, NUM_ROWS - 2))

move_shoots(b) == move_shoots_ship(move_shoots_aliens(cancel_shoots(b)))

-----------------------------------------------------------------------------
(* The fleet *)

(* Mutant of DownFrom: an alien that comes down from a shield dies. *)
DownFrom_Shield(b, i) ==
    LET coming == InRow(b.alien, i) \ b.shield
    IN  [b EXCEPT !.alien = (@ \ InRow(@, i)) \cup {Below(c) : c \in coming}, !.shield = @ \ coming]

(* The aliens of row i come down; one that is in the cell of a shot of the ship dies. *)
DownFrom(b, i) ==
    LET coming == InRow(b.alien, i) \ b.ship_shoot
    IN  [b EXCEPT !.alien = (@ \ InRow(@, i)) \cup {Below(c) : c \in coming}, !.shield = @ \ coming]

aliens_down(b) == Scan(DownFrom, b, Down(NUM_ROWS - 3, 3))

(* The aliens of column j go d columns to the right; a shield they leave is gone. *)
Shifted(b, j, d) ==
    LET here == InColumn(b.alien, j)
    IN  [b EXCEPT !.alien = (@ \ here) \cup {<<c[1], j + d>> : c \in here}, !.shield = @ \ here]
RightFrom(b, j) == Shifted(b, j, 1)
LeftFrom(b, j) == Shifted(b, j, -1)

(* Mutant of aliens_right: from the left wall to the right one. *)
aliens_right_LeftToRight(b) == Scan(RightFrom, b, Up(2, LastColumn))

aliens_right(b) == Scan(RightFrom, b, Down(LastColumn, 2))
aliens_left(b) == Scan(LeftFrom, b, Up(2, LastColumn))

(* The three functions count the aliens of their rows, before they move; none is a win. *)
NoAliens(b) == {c \in b.alien : c[1] \in 3 .. NUM_ROWS - 3 /\ c[2] \in Columns} = {}

(* Mutant of Turned: the fleet does not come down at the walls. *)
Turned_Level(y) ==
    IF y = RIGHT_END THEN {"left"} ELSE IF y = LEFT_END THEN {"right"} ELSE heading

(* The heading after a step to the right or to the left that ends at y. *)
Turned(y) ==
    IF y = (IF "right" \in heading THEN RIGHT_END ELSE LEFT_END)
    THEN {"down"} ELSE heading

(* move_aliens on the board b: the board, where the fleet is, and which of WIN and LOSE it sets. *)
move_aliens(b) ==
    IF "down" \in heading
    THEN [board |-> aliens_down(b), x |-> x_aliens + 1, y |-> y_aliens,
          heading |-> IF y_aliens >= RIGHT_END THEN {"left"}
                      ELSE IF y_aliens <= LEFT_END THEN {"right"} ELSE {"down"},
          win |-> NoAliens(b), lose |-> x_aliens + 1 >= LOSE_ROW]
    ELSE LET right == "right" \in heading
             y == IF right THEN y_aliens + 1 ELSE y_aliens - 1
         IN  [board |-> IF right THEN aliens_right(b) ELSE aliens_left(b),
              x |-> x_aliens, y |-> y, heading |-> Turned(y),
              win |-> NoAliens(b), lose |-> FALSE]

(* ia_shoot_alien, one shot at most: the lowest alien of the first column from last_shoot on
   that has one. *)
ShootColumns(b) == {c[2] : c \in {a \in b.alien : a[2] >= last_shoot}}
Shooter(b) ==
    LET ks == ShootColumns(b)
        column == {c \in b.alien : c[2] = CHOOSE k \in ks : \A j \in ks : k <= j}
    IN  CHOOSE c \in column : \A d \in column : d[1] <= c[1]

(* Mutant of NextAim: the quotient is added. *)
NextAim_Wide(y) ==
    LET p == shoot_pointer + 1
    IN  [shoot_pointer |-> p % 5, last_shoot |-> y + ((FLEET_END - 1) + (FLEET_END \div p))]

NextAim(y) ==
    LET p == shoot_pointer + 1
    IN  [shoot_pointer |-> p % 5, last_shoot |-> y + ((FLEET_END - 1) - (FLEET_END \div p))]

-----------------------------------------------------------------------------
(* The ship *)

(* Mutant: the right end of the ship is not looked at. *)
shoot_colision_Short(b, y) == (ShipAt(y) \ {<<x_ship, y + 2>>}) \cap b.alien_shoot # {}

shoot_colision(b, y) == ShipAt(y) \cap b.alien_shoot # {}

ship_right(b) ==
    [b EXCEPT !.ship = (@ \cup {<<x_ship, y_ship + 3>>, <<x_ship - 1, y_ship + 1>>})
                       \ {<<x_ship, y_ship - 2>>, <<x_ship - 1, y_ship>>}]
ship_left(b) ==
    [b EXCEPT !.ship = (@ \cup {<<x_ship, y_ship - 3>>, <<x_ship - 1, y_ship - 1>>})
                       \ {<<x_ship, y_ship + 2>>, <<x_ship - 1, y_ship>>}]

Steer(guard, moved, y) ==
    IF guard
    THEN board' = moved /\ y_ship' = y /\ LOSE' = (LOSE \/ shoot_colision(board, y))
    ELSE UNCHANGED <<board, y_ship, LOSE>>

(* With EASY, a shot in the cell above the tip of the ship, whether there was one or not. *)
make_ship_shoot == [board EXCEPT !.ship_shoot = @ \cup {<<x_ship - 2, y_ship>>}]

-----------------------------------------------------------------------------
(* The loop of main *)

(* Its head and get_key: the keys 'd', 'a' and 'w', or another one, or none. *)
Key ==
    /\ turn = "key" /\ ~LOSE /\ ~WIN
    /\ turn' = "time"
    /\ \/ UNCHANGED <<board, y_ship, LOSE, keys>>
       \/ /\ keys < MAX_KEYS
          /\ keys' = keys + 1
          /\ \/ Steer(y_ship < NUM_COLUMNS - 5, ship_right(board), y_ship + 1)
             \/ Steer(y_ship > 4, ship_left(board), y_ship - 1)
             \/ board' = make_ship_shoot /\ UNCHANGED <<y_ship, LOSE>>
    /\ UNCHANGED <<fleet, WIN, aim>>

(* The time has not come. *)
Early ==
    /\ turn = "time" /\ turn' = "key"
    /\ UNCHANGED <<board, fleet, y_ship, LOSE, WIN, aim, keys>>

(* ia_move, which LOSE and WIN do not stop; the aliens shoot when gettime() is even. *)
ia_move ==
    /\ turn = "time" /\ turn' = "key"
    /\ \E b \in {move_shoots(board)} : \E m \in {move_aliens(b)} :
          /\ x_aliens' = m.x /\ y_aliens' = m.y /\ heading' = m.heading
          /\ WIN' = (WIN \/ m.win)
          /\ LOSE' = (LOSE \/ ShipHit(cancel_shoots(board)) \/ m.lose)
          /\ \/ board' = m.board /\ UNCHANGED aim
             \/ /\ ShootColumns(m.board) # {}
                /\ board' = [m.board EXCEPT !.alien_shoot = @ \cup {Shooter(m.board)}]
                /\ shoot_pointer' = NextAim(m.y).shoot_pointer
                /\ last_shoot' = NextAim(m.y).last_shoot
    /\ UNCHANGED <<y_ship, keys>>

InvadersNext == Key \/ Early \/ ia_move

(* The loop goes on, and gettime() does: it is late enough again and again. *)
InvadersSpec ==
    InvadersInit /\ [][InvadersNext]_ivars /\ WF_ivars(InvadersNext) /\ SF_ivars(ia_move)

-----------------------------------------------------------------------------
(* Properties *)

(* What is moved cell by cell stays whole, between the walls: the aliens that are left are in
   their places in the fleet, which has one heading (user.c:247-292, 322-348), and the ship is
   drawn once, where y_ship says (user.c:302-321). *)
PiecesInPlace ==
    /\ board.alien \subseteq Formation(x_aliens, y_aliens)
    /\ board.ship = ShipAt(y_ship)
    /\ \A c \in board.alien \cup board.ship : ~is_wall(c[1], c[2])
    /\ Cardinality(heading) = 1
    /\ y_aliens \in LEFT_END .. RIGHT_END /\ x_aliens \in FIRST_ROW .. LOSE_ROW + 1

(* ia_shoot_alien reads is_alien from a column of the board on, and divides by no zero
   (user.c:411-426). *)
AimOnBoard == last_shoot \in 0 .. NUM_COLUMNS - 1 /\ shoot_pointer \in 0 .. 4

(* What ends the shot of an alien in cell c, and of the ship: a shield, the end of the board, an
   alien, or a shot of the other side that is near. *)
AlienShotEnds(c) ==
    c \in board.shield \/ c[1] = NUM_ROWS - 2 \/ {c, Below(c)} \cap board.ship_shoot # {}
ShipShotEnds(c) ==
    \/ c \in board.alien \/ Above(c) \in board.shield \/ c[1] = 2
    \/ {c, Above(c), Above(Above(c))} \cap board.alien_shoot # {}

(* In one ia_move a shot goes one cell, or ends for a reason; one alien at most starts a new one
   (user.c:349-392, 419-421). *)
ShotsGoOneCell ==
    [][ia_move =>
         /\ board'.ship_shoot \subseteq {Above(c) : c \in board.ship_shoot}
         /\ \A c \in board.ship_shoot : Above(c) \in board'.ship_shoot \/ ShipShotEnds(c)
         /\ \A c \in board.alien_shoot : Below(c) \in board'.alien_shoot \/ AlienShotEnds(c)
         /\ LET new == board'.alien_shoot \ {Below(c) : c \in board.alien_shoot}
            IN  new \subseteq board'.alien /\ Cardinality(new) <= 1]_ivars

(* An alien dies only where a shot of the ship is, before or after the shots move; the others
   keep their places (user.c:254, 369-371). *)
AliensDieByShots ==
    [][ia_move =>
         \A c \in board.alien :
            \/ <<c[1] + x_aliens' - x_aliens, c[2] + y_aliens' - y_aliens>> \in board'.alien
            \/ c \in board.ship_shoot \/ Below(c) \in board.ship_shoot]_ivars

(* A shot on the ship ends the game, when the ship moves into it and when the time comes
   (user.c:309, 319, 357). *)
HitLoses ==
    [][/\ y_ship' # y_ship /\ board'.alien_shoot \cap board'.ship # {} => LOSE'
       /\ ia_move /\ board.alien_shoot \cap board.ship # {} => LOSE']_ivars

(* The game ends (user.c:326, 475). *)
GameEnds == <>(LOSE \/ WIN)

=============================================================================
