---------------------------- MODULE MCLogManager ----------------------------
EXTENDS LogManager

MCFilters == {-1}        \* the clients of LogManager set no filter
=============================================================================
