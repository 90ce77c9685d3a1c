------------------------------- MODULE MCServer -------------------------------
EXTENDS Server

\* One address: the block fclose frees is the one the next fopen gets.
CONSTANT f1

MCWriter == {"save", "main"}
MCStream == {f1}
===============================================================================
