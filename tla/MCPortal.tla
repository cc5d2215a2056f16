------------------------------ MODULE MCPortal ------------------------------
EXTENDS Portal
CONSTANTS a, b, c
MCRow == {a, b, c}
MCSpare == {c}
=============================================================================
