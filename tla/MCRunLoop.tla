----------------------------- MODULE MCRunLoop -----------------------------
EXTENDS RunLoop
=============================================================================
