---- MODULE MCGreeterUI ----
EXTENDS GreeterUI
====
