---------------------------- MODULE JpegAndBall -----------------------------
(***************************************************************************)
(* Two parts that no other part of the model drives, one at a time: the    *)
(* application of libjpeg with its files, and the floating ball.  They     *)
(* share no state; a behaviour is one of the part it starts with.  Neither *)
(* stops but where an action of its own says so.                           *)
(***************************************************************************)
EXTENDS JpegFile, FloatBall

VARIABLE part

Part == {"jpeg", "ball"}

JpegAndBallInit ==
    /\ part \in Part
    /\ FInit
    /\ part # "jpeg" => plan = CHOOSE p \in Plans : TRUE
    /\ Init
    /\ part # "ball" => ~ permitted /\ width = CHOOSE w \in Widths : TRUE

JpegAndBallNext ==
    \/ part = "jpeg" /\ FNext /\ UNCHANGED <<part, vars>>
    \/ part = "ball" /\ Next /\ UNCHANGED <<part, fvars>>

\* The fairness is the ball's: its initial state, where it stays while files
\* are made, has no half-hide message.
JpegAndBallSpec ==
    JpegAndBallInit /\ [][JpegAndBallNext]_<<part, fvars, vars>> /\ WF_vars(Hide)
=============================================================================
