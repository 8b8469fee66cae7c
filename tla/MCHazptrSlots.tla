---------------------------- MODULE MCHazptrSlots ----------------------------
EXTENDS HazptrSlots
====
