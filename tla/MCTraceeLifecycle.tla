------------------------- MODULE MCTraceeLifecycle --------------------------
EXTENDS TraceeLifecycle
=============================================================================
