------------------------------ MODULE MCConn ------------------------------
EXTENDS Conn

CONSTANTS c1, c2, c3, c4, w1, w2

OneWorker == [c \in Conns |-> w1]
TwoWorkers == [c \in Conns |-> IF c \in {c1, c2} THEN w1 ELSE w2]
===========================================================================
