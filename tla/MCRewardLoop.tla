---------------------------- MODULE MCRewardLoop ----------------------------
EXTENDS RewardLoop
MCModes == {"disrm", "limited"}
=============================================================================
