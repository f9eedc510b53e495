--------------------------- MODULE MCMcpBroker ---------------------------
(* An instance of McpBroker for TLC: two devices and two sockets, so that  *)
(* one device reconnects or another one takes the second socket.           *)
EXTENDS McpBroker

\* The device that says hello first.  Devices are interchangeable, and every
\* property treats them alike: behaviours that begin with another device are
\* renamings of these.
CONSTANT First

FirstComesFirst == socket[1].device \in {None, First}
==========================================================================
