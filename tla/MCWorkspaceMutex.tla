--------------------------- MODULE MCWorkspaceMutex ---------------------------
EXTENDS WorkspaceMutex
=============================================================================
