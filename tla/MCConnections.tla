-------------------------- MODULE MCConnections --------------------------
\* The constants' values are in the .cfg files.
EXTENDS Connections, TLC
==========================================================================
