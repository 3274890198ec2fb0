---- MODULE MCRrcSession ----
EXTENDS RrcSession
====
