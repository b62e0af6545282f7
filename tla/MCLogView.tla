------------------------------ MODULE MCLogView ------------------------------
EXTENDS LogView
=============================================================================
