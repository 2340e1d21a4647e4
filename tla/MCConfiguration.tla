-------------------------- MODULE MCConfiguration --------------------------
EXTENDS Configuration
=============================================================================
