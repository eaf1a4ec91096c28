----------------------------- MODULE MCCacheFile -----------------------------
EXTENDS CacheFile
=============================================================================
