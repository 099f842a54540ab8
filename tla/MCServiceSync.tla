--------------------------- MODULE MCServiceSync ---------------------------
EXTENDS ServiceSync

CONSTANTS
  Busy,  \* the connections on which two requests are sent, not one
  Idle   \* those on which none is

MCAsks == [c \in Conns |-> IF c \in Busy THEN 2 ELSE IF c \in Idle THEN 0 ELSE 1]

=============================================================================
