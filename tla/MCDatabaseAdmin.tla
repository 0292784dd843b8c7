-------------------------- MODULE MCDatabaseAdmin ---------------------------
\* Two processes and at most two files, the one in place and a removed one.
EXTENDS DatabaseAdmin
=============================================================================
