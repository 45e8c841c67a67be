------------------------------ MODULE MCMysql ------------------------------
(* Instances of MysqlConn for TLC.                                         *)
EXTENDS MysqlConn

\* Anything is done first, and a bill is stored after it.
MCKinds ==
  [j \in Job |-> IF j = 1 THEN {"bill", "lookup", "load"} ELSE {"bill"}]
=============================================================================
