-------------------------- MODULE MC_SelectServer --------------------------
(* SelectServer for TLC: one client connects to the first port, the others *)
(* to the second.                                                          *)
EXTENDS SelectServer

CONSTANT first

MCPort   == [c \in Clients |-> IF c = first THEN 1 ELSE 2]
MCStrLen == [c \in Clients |-> MaxLen]
=============================================================================
