---- MODULE MCCommandPath ----
EXTENDS CommandPath
====
