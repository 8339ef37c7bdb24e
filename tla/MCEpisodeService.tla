------------------------ MODULE MCEpisodeService ------------------------
EXTENDS EpisodeService
CONSTANTS run, tool, w1, w2, s1, s2, none
=============================================================================
