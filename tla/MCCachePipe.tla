----------------------------- MODULE MCCachePipe -----------------------------
EXTENDS CachePipe
=============================================================================
