----------------------------- MODULE MCBleTest ------------------------------
EXTENDS BleTest
CONSTANTS bar, other
=============================================================================
