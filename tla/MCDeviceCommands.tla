-------------------------- MODULE MCDeviceCommands --------------------------
(* DeviceCommands on small instances.  Slots are interchangeable, and so are *)
(* the commands of one kind.                                                 *)
EXTENDS DeviceCommands, TLC

Symmetry ==
    UNION {Permutations(S) : S \in {Commands \ (StopCommands \cup Exempt), Dispatchers,
                                    Polls, Results}}
=============================================================================
