---- MODULE MCBridge ----
EXTENDS BridgeProperties
====
