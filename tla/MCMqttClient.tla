---------------------------- MODULE MCMqttClient ----------------------------
(* Instances of MqttClient: packet ids are interchangeable, and the two     *)
(* directions, which share nothing but the link, are explored one at a     *)
(* time.                                                                   *)
EXTENDS MqttClient, TLC

Symmetry == Permutations(PacketIds)

OneDirection == outgoing = EmptyRecords \/ incoming = EmptyRecords

OneDirectionSpec == Init /\ [][Next /\ OneDirection']_vars
=============================================================================
