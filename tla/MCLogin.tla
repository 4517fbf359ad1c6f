------------------------------ MODULE MCLogin -------------------------------
EXTENDS Login
=============================================================================
