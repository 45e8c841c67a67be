------------------------------ MODULE MCServer ------------------------------
(* Instances of LianjiaServer for TLC.                                     *)
EXTENDS LianjiaServer

CONSTANTS m, f      \* a call to a virtual mobile number, one to a fixed line
=============================================================================
