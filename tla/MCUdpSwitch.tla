---------------------------- MODULE MCUdpSwitch ----------------------------
EXTENDS UdpSwitch, TLC
Symmetry == Permutations(Ends)
=============================================================================
