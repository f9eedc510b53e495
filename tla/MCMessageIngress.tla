--------------------------- MODULE MCMessageIngress ---------------------------
(* Instances of MessageIngress for TLC. *)
EXTENDS MessageIngress

\* The last message is posted only while the process has not restarted, no drain
\* seals the gate and no row is held or failed to be: what a third message adds,
\* a gap that grows while it is recovered, needs none of them.
FaultsOrMessages ==
  posted = MaxMessages =>
    /\ runtime = 0 /\ ~sealed /\ unheld = {}
    /\ \A m \in Messages : journal[m].state # "held"

\* Every message that is begun is answered and confirmed.  How a row ends is read
\* by neither lane: to both it is claimed, and the lane is free again.
WorkSucceeds ==
  \A m \in Messages : journal[m] # NoRow => ~journal[m].owner /\ journal[m].state # "held"

\* ... and the third and fourth message are posted only while the live lane has
\* not come to take the first, so that they are dropped: the fourth joins the
\* gap of the second and makes it longer than a page of two.  A drain seals the
\* gate, and may be released, between the two.
GrowingGap ==
  /\ WorkSucceeds
  /\ posted >= 3 => lane = <<1>>
  /\ posted = 4 => gap.floor = 2
  /\ sealed => posted = 3
=============================================================================
