----------------------------- MODULE MCChildren -----------------------------
EXTENDS Children
=============================================================================
