---------------------------- MODULE MCTableEngine ----------------------------
EXTENDS TableEngine
=============================================================================
