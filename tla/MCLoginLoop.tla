---- MODULE MCLoginLoop ----
EXTENDS LoginLoop
====
