----------------------------- MODULE MCMonitor ------------------------------
EXTENDS Monitor
CONSTANTS beacon, tag, broken
=============================================================================
