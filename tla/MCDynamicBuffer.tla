--------------------------- MODULE MCDynamicBuffer ---------------------------
EXTENDS DynamicBuffer, TLC

CONSTANTS b1, b2

\* Two buffers that grow by different steps, so that a swap changes how each
\* grows on.
TwoBuffers == (b1 :> 1) @@ (b2 :> 2)
=============================================================================
