--------------------------- MODULE MCConnection ---------------------------
EXTENDS Connection

CONSTANTS ack, fwd1, fwd2

\* One ack written by the connection's own handler, two frames written
\* by forwarders, consumers or retry workers.
MCFrames == {ack, fwd1, fwd2}
MCReaderFrames == {ack}

=============================================================================
