---------------------------- MODULE MCDictionary ----------------------------
EXTENDS Dictionary
=============================================================================
