------------------------------ MODULE MCOsdText ------------------------------
\* Instances of OsdText for TLC.
EXTENDS OsdText

=============================================================================
