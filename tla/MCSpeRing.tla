----------------------------- MODULE MCSpeRing -----------------------------
EXTENDS SpeRing
MCSizes == {1, 2}
=============================================================================
