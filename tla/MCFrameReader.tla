----------------------------- MODULE MCFrameReader -----------------------------
(* Instances of FrameReader for TLC: frames scaled down to a few bytes.     *)
EXTENDS FrameReader

SmallFrames == [t \in Types |-> CASE t = "ADDRESS" -> 5 [] t = "SUBMIT" -> 3
                                  [] t = "PROGRESS" -> 4 [] OTHER -> 2]
=============================================================================
