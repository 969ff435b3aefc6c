---- MODULE MCDesktop ----
EXTENDS Desktop

Chain == [c \in 1 .. 2 |-> 1 .. c - 1]
====
