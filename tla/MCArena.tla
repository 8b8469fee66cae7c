-------------------------------- MODULE MCArena -------------------------------
EXTENDS Arena
=============================================================================
