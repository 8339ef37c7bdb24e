------------------------- MODULE MCSpotifyTokens -------------------------
EXTENDS SpotifyTokens
CONSTANTS main, monitor, devices, launched, byhand, none
=============================================================================
