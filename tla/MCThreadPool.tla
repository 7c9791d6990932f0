---------------------------- MODULE MCThreadPool ----------------------------
EXTENDS ThreadPool
CONSTANTS c1, c2
=============================================================================
