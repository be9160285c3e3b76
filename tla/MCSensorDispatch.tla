-------------------------- MODULE MCSensorDispatch --------------------------
EXTENDS SensorDispatch, TLC

DispatcherSymmetry == Permutations(Dispatchers)
=============================================================================
