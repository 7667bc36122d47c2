----------------------------- MODULE MCDatagrams -----------------------------
(* The components that live on what a lossy path delivers, each on its own   *)
(* small instance: part says which of them a behaviour is about; the others  *)
(* stand still in their initial states.                                      *)
EXTENDS WireShift, Input, Reassembler, AudioOrder, RdpUdp, Dvc

VARIABLE part

MCSteps == {-1, 2}

DatagramsInit ==
  /\ part \in {"wire", "input", "video", "audio", "rdpudp", "dvc"}
  /\ Init /\ InputInit /\ ReassemblerInit /\ AudioInit /\ UdpInit /\ DvcInit
  /\ part # "audio" => seq = 0
  /\ part # "rdpudp" => ~lossy

DatagramsNext ==
  /\ UNCHANGED part
  /\ \/ part = "wire" /\ Next /\ UNCHANGED <<inputVars, reassemblerVars, audioVars, udpVars, dvcVars>>
     \/ part = "input" /\ InputNext /\ UNCHANGED <<vars, reassemblerVars, audioVars, udpVars, dvcVars>>
     \/ part = "video" /\ ReassemblerNext /\ UNCHANGED <<vars, inputVars, audioVars, udpVars, dvcVars>>
     \/ part = "audio" /\ AudioNext /\ UNCHANGED <<vars, inputVars, reassemblerVars, udpVars, dvcVars>>
     \/ part = "rdpudp" /\ UdpNext /\ UNCHANGED <<vars, inputVars, reassemblerVars, audioVars, dvcVars>>
     \/ part = "dvc" /\ DvcNext /\ UNCHANGED <<vars, inputVars, reassemblerVars, audioVars, udpVars>>
=============================================================================
