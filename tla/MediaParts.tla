----------------------------- MODULE MediaParts -----------------------------
(***************************************************************************)
(* Two parts that no other part of the model drives, one at a time: the    *)
(* two video threads of RC4Encrypt with its text, and the lame encoder.    *)
(* They share no state; a behaviour is one of the part it starts with.     *)
(***************************************************************************)
EXTENDS Rc4Video, LameEncoder

VARIABLE part

Part == {"video", "mp3"}

MediaPartsInit ==
  /\ part \in Part
  /\ VideoInit
  /\ NoEncoder
  /\ part # "mp3" => loop = CHOOSE l \in Loops : TRUE

MediaPartsNext ==
  \/ part = "video" /\ VideoNext /\ UNCHANGED <<part, lameVars>>
  \/ part = "mp3" /\ LameNext /\ UNCHANGED <<part, rc4Vars, videoVars>>

MediaPartsSpec ==
  MediaPartsInit /\ [][MediaPartsNext]_<<part, rc4Vars, videoVars, lameVars>>
=============================================================================
