--------------------------- MODULE MCImageExchange ---------------------------
EXTENDS ImageExchange

\* A Y plane of two chunks, U and V of one that is not full.
MCPlaneSizes == <<6, 2, 2>>
=============================================================================
