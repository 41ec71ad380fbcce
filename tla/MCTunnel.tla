------------------------------ MODULE MCTunnel ------------------------------
\* Three descriptors for two connections, so that the number of a descriptor
\* that is closed is soon given again.
EXTENDS Tunnel

MCSock == {Src(c) : c \in Conn} \cup {Dest(c) : c \in Conn}

\* Two units in one direction, for their order, and one in the other.
MCSent == [s \in MCSock |-> IF s = Src(1) THEN 2 ELSE IF s = Dest(2) THEN 1 ELSE 0]
=============================================================================
