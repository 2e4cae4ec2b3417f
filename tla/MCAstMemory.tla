----------------------------- MODULE MCAstMemory ----------------------------
EXTENDS AstMemory
=============================================================================
