---------------------------- MODULE MCFileWatch ----------------------------
\* FileWatch on two files, one of them with 'noautoreload'.
EXTENDS FileWatch
=============================================================================
