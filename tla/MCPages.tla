------------------------------ MODULE MCPages ------------------------------
EXTENDS Pages

Ids == 1 .. 4
============================================================================
