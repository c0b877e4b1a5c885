---------------------------- MODULE MCGoldMining ----------------------------
(* Three tiers for GoldMining, shaped as TIER_DEFINITIONS: capital and win   *)
(* rate rise from tier to tier, the streak asked for falls.                  *)
EXTENDS GoldMining

MCTiers == << [capital |-> 0, wins |-> 2, rate |-> 55],
              [capital |-> 1, wins |-> 2, rate |-> 55],
              [capital |-> 3, wins |-> 1, rate |-> 60] >>
=============================================================================
