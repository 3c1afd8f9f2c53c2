------------------------------ MODULE MCTuning ------------------------------
EXTENDS Tuning

\* Frequencies in units of a tenth of the smallest that counts: 10 is 1 MHz.
MCDigitSteps == {10}
MCButtonSteps == {1}
MCRigBand == {10, 12, 13, 15, 20}
MCDials == {10, 12}
MCOffsets == {0, 3}
=============================================================================
