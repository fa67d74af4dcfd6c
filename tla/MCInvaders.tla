----------------------------- MODULE MCInvaders -----------------------------
EXTENDS Invaders

MCFleetEven == {0}
MCFleetOdd == {2}
MCShieldColumns == {3, 6}
=============================================================================
