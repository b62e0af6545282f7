----------------------------- MODULE MCLogFiles -----------------------------
EXTENDS LogFiles
=============================================================================
