---------------------------- MODULE MCStatistics ----------------------------
EXTENDS Statistics
=============================================================================
