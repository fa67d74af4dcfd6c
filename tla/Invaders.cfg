SPECIFICATION InvadersSpec
CONSTANTS
    NUM_ROWS = 11
    NUM_COLUMNS = 10
    FleetEven <- MCFleetEven
    FleetOdd <- MCFleetOdd
    FLEET_END = 4
    RIGHT_END = 5
    LOSE_ROW = 6
    ShieldColumns <- MCShieldColumns
    MAX_KEYS = 3
INVARIANTS PiecesInPlace AimOnBoard
PROPERTIES ShotsGoOneCell AliensDieByShots HitLoses GameEnds
CHECK_DEADLOCK FALSE
