--------------------------- MODULE MCPartialRollout ---------------------------
EXTENDS PartialRollout, TLC
CONSTANTS c1, c2, s1, s2
OneGroup == {{c1, c2}}
OneConversation == {{c1}}
=============================================================================
