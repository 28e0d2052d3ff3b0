---------------------------- MODULE MCMembership ----------------------------
(***************************************************************************)
(* The creator, another person, and one or two bots.                       *)
(***************************************************************************)
EXTENDS Membership, TLC

CONSTANTS ann, bob, b1, b2, manage, restrict, promote

MCHumans == {ann, bob}
OneBot == {b1}
TwoBots == {b1, b2}
MCFlags == {manage, restrict, promote}

=============================================================================
