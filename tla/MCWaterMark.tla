---------------------------- MODULE MCWaterMark ----------------------------
\* Two clients on four timestamps: they may share one, begin apart and finish out
\* of order, wait for each other and for themselves; timestamp 0 occurs.
EXTENDS WaterMarkInv

MCTs == 0 .. 3
=============================================================================
