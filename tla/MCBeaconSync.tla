---------------------------- MODULE MCBeaconSync ----------------------------
EXTENDS BeaconSync
CONSTANTS beacon, other, lower, upper, foreign
=============================================================================
