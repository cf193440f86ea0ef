---------------------------- MODULE MCCheckpoint ----------------------------
EXTENDS Checkpoint
MCConfigs == [sft : BOOLEAN, keep : 0 .. 3]
=============================================================================
