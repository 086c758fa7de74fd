---------------------------- MODULE MCInstallPool ----------------------------
\* InstallPool with two workers.
EXTENDS InstallPool
=============================================================================
