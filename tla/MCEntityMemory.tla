--------------------------- MODULE MCEntityMemory ---------------------------
\* Instances of EntityMemory for TLC; the bounds are in the .cfg files.
EXTENDS EntityMemory
=============================================================================
