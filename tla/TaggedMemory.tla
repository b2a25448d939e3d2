----------------------------- MODULE TaggedMemory -----------------------------
(***************************************************************************)
(* What the tag cache promises to the cache above it: every block has      *)
(* tags; a write replaces those under its mask, a read is answered with    *)
(* the block's tags.  At most one transaction works on a block.  The       *)
(* acknowledgement of a write may be sent before or after the tags have    *)
(* settled, that of a read comes after them.                               *)
(***************************************************************************)
CONSTANTS
  Clients,   \* the transactions that can be open at a time
  Blocks,    \* memory blocks
  Bits       \* the tag bits of a block

VARIABLES
  tags,      \* block -> its tags
  open       \* client -> its transaction

vars == <<tags, open>>

\* ack: the acknowledgement is still owed; busy: the tags are still worked on;
\* val: the tags to be returned.
None == [ack |-> FALSE, busy |-> FALSE, blk |-> CHOOSE b \in Blocks : TRUE,
         rw |-> FALSE, val |-> {}]

IsOpen(c) == open[c].ack \/ open[c].busy

Init ==
  /\ tags = [b \in Blocks |-> {}]
  /\ open = [c \in Clients |-> None]

Begin(c, b, rw) ==
  /\ ~ IsOpen(c)
  /\ \A d \in Clients : IsOpen(d) => open[d].blk # b
  /\ open' = [open EXCEPT ![c] =
               [ack |-> TRUE, busy |-> TRUE, blk |-> b, rw |-> rw, val |-> {}]]

Read(c, b) == Begin(c, b, FALSE) /\ UNCHANGED tags

Write(c, b) ==
  /\ Begin(c, b, TRUE)
  /\ \E mask \in SUBSET Bits : \E data \in SUBSET mask :
       tags' = [tags EXCEPT ![b] = (@ \ mask) \cup data]

Closed(o) == IF o.ack \/ o.busy THEN o ELSE None

\* The tags have been read or written.
Settle(c) ==
  /\ open[c].busy
  /\ open' = [open EXCEPT ![c] =
               Closed([open[c] EXCEPT
                 !.busy = FALSE,
                 !.val  = IF open[c].rw THEN {} ELSE tags[open[c].blk]])]
  /\ UNCHANGED tags

Acknowledge(c) ==
  /\ open[c].ack
  /\ ~ open[c].rw => ~ open[c].busy
  /\ open' = [open EXCEPT ![c] = Closed([open[c] EXCEPT !.ack = FALSE])]
  /\ UNCHANGED tags

Next == \E c \in Clients :
          \/ \E b \in Blocks : Read(c, b) \/ Write(c, b)
          \/ Settle(c) \/ Acknowledge(c)

Spec == Init /\ [][Next]_vars
=============================================================================
