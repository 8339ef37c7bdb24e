------------------------------ MODULE MCFirstRun ----------------------------
EXTENDS FirstRun
CONSTANTS taskbar, wake, m, h
=============================================================================
