---------------------------- MODULE MCMqttSession ----------------------------
EXTENDS MqttSession, TLC

\* The client only compares the identifiers it draws.
PidSymmetry == Permutations(Pids)
=============================================================================
