---- MODULE MCSessions ----
EXTENDS Sessions
====
