------------------------------ MODULE MCPacket ------------------------------
(* Model-checking instance of Packet: packets with and without a body, every *)
(* user, with failures or with callbacks that run the event loop.            *)
EXTENDS Packet

In3 == <<3, 2, 3>>
Out2 == <<2, 1>>
AllScenarios == Scenario

\* The connection breaks while a callback of the SMB transport runs the loop.
BreaksInLoop == {[user |-> "smb", nested |-> TRUE, faults |-> TRUE]}
=============================================================================
