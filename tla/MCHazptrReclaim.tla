------------------------- MODULE MCHazptrReclaim -------------------------
EXTENDS HazptrReclaim
====
