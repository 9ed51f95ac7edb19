-------------------------- MODULE MCMemController --------------------------
EXTENDS MemController
=============================================================================
