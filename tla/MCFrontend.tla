----------------------------- MODULE MCFrontend -----------------------------
(* Guests of the Frontend instances.                                        *)
EXTENDS Frontend, TLC

R(b, n) == [kind |-> "read", block |-> b, bytes |-> n]
W(b, n) == [kind |-> "write", block |-> b, bytes |-> n]
F == [kind |-> "flush", block |-> 0, bytes |-> 1]
P == [kind |-> "protocol", block |-> 0, bytes |-> 1]

Credits == [p \in Pools |-> 1]

\* Two images.  No read that an older write holds back is ahead of another
\* read in its queue; Overlap has one.
Mixed ==
  { 0 :> (0 :> <<W(1, 2), R(2, 2)>>) @@ 1 :> (0 :> <<W(1, 1)>>),
    0 :> (0 :> <<W(1, 2), W(2, 1)>>) @@ 1 :> (0 :> <<R(1, 1)>>),
    0 :> (0 :> <<W(1, 2)>> @@ 1 :> <<R(1, 1)>>) @@ 1 :> (0 :> <<F>>),
    0 :> (0 :> <<W(1, 1), F>>) @@ 1 :> (0 :> <<P>>) }

\* Two writes, a read of the block of the second and a read of another block.
Overlap == { 0 :> (0 :> <<W(3, 1), W(1, 1), R(1, 1), R(2, 1)>>) }
=============================================================================
