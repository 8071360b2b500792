-------------------------- MODULE MCPasswordChange --------------------------
\* Names for the model values of the runs of PasswordChange.
EXTENDS PasswordChange
CONSTANTS a1, a2, p1, p2
=============================================================================
