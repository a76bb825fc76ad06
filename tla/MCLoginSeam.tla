---- MODULE MCLoginSeam ----
EXTENDS LoginSeam
====
