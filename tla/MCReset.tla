------------------------------- MODULE MCReset -------------------------------
EXTENDS Reset

MCOptions == [shutdown : BOOLEAN, wait : BOOLEAN]
MCStages == {"running", "maintenance"}
=============================================================================
