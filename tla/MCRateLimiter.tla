---------------------------- MODULE MCRateLimiter ----------------------------
(* One bot, two groups and a dialog; a second of two ticks.                *)
EXTENDS RateLimiter, TLC

CONSTANTS b1, group1, group2, dialog

TwoGroups == {group1, group2}
ThreeChats == {group1, group2, dialog}
OneBot == {b1}

GroupSymmetry == Permutations(TwoGroups)

=============================================================================
