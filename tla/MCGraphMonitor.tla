---------------------------- MODULE MCGraphMonitor ----------------------------
(* The monitor itself, with a reader of its own, a ROS peer, and an        *)
(* rcllite peer, which announces its node and no GIDs; one of the two has  *)
(* a writer and a reader.                                                  *)
EXTENDS GraphMonitor, TLC

CONSTANTS self, lite, ros, ownReader, writer, reader, liteNode, rosNode,
          rosEnclave

At(peer) == [e \in Endpoints |-> IF e = ownReader THEN self ELSE peer]
HomeRos == At(ros)
HomeLite == At(lite)
TopicOf == [e \in Endpoints |-> IF e = ownReader THEN "rosout" ELSE "chatter"]
KindOf == "rosout" :> "topic" @@ "chatter" :> "topic"
Enclaves == self :> NoName @@ lite :> liteNode @@ ros :> rosEnclave
Announces == self :> NoName @@ lite :> liteNode @@ ros :> rosNode
===============================================================================
