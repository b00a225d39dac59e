---- MODULE MCRdma ----
EXTENDS RdmaProperties
====
