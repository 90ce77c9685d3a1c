---------------------------- MODULE MCBatchWriter ----------------------------
EXTENDS BatchWriter

\* One address: the block fclose frees is the one the next fopen gets.
CONSTANT f1

MCWriter == {"save"}
MCStream == {f1}
==============================================================================
