------------------------------ MODULE MCIOWait ------------------------------
(* An instance of IOWait for TLC. *)
EXTENDS IOWait
CONSTANTS t1, t2, p1, c1, c2

MCHome == [w \in Works |-> IF w = p1 THEN t2 ELSE AnyThread]
=============================================================================
