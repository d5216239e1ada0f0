--------------------------- MODULE MCSidebarStore ---------------------------
(* Three conversations of one workspace on pages of two, and one without any. *)
EXTENDS SidebarStore

CONSTANTS w1, w2

MCConv == 1 .. 3
MCScope == {w1, w2}
MCScopeOf == [c \in MCConv |-> w1]
MCLastUsed == [c \in MCConv |-> -c]
=============================================================================
