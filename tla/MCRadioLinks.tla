---------------------------- MODULE MCRadioLinks ----------------------------
EXTENDS RadioLinks
=============================================================================
