---------------------------- MODULE MCTargetLock ----------------------------
EXTENDS TargetLock
=============================================================================
