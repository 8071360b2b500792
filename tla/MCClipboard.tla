---------------------------- MODULE MCClipboard ----------------------------
\* Intervals scaled down for the runs of Clipboard: one below, one above the
\* warning lead, and never.
EXTENDS Clipboard
=============================================================================
