---- MODULE MCClientWire ----
EXTENDS ClientWire

MCTypes == MessageTypes
====
