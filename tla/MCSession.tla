------------------------------ MODULE MCSession ------------------------------
\* The runs of Session: the auto-lock is scaled down to a few seconds, the
\* delays of the login dialog are those of the code.
EXTENDS Session
=============================================================================
