------------------------------ MODULE MCTimeout ------------------------------
EXTENDS Timeout
=============================================================================
