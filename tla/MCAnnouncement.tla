--------------------------- MODULE MCAnnouncement ---------------------------
(* Small instances of Announcement for TLC. *)
EXTENDS Announcement, MCLoadBalancer

MCHome == [n \in Servers |-> h1]
=============================================================================
