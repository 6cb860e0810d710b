---------------------------- MODULE MCSwiggySync ----------------------------
EXTENDS SwiggySyncProperties
=============================================================================
