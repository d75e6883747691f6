---------------------------- MODULE MCFileStream ----------------------------
EXTENDS FileStream
=============================================================================
