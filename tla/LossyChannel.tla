----------------------------- MODULE LossyChannel -----------------------------
(***************************************************************************)
(* What the receive path of CanBus promises the rest of the firmware       *)
(* ("called on the worker task for every received frame, in arrival        *)
(* order"): a channel that may refuse an item, but delivers every item it  *)
(* took, once, and in the order it took them.                              *)
(***************************************************************************)
EXTENDS Sequences, Naturals

CONSTANT Items

VARIABLES
    sent,   \* the items the channel took
    got     \* the items it has delivered

cvars == <<sent, got>>

ChannelInit == sent = <<>> /\ got = <<>>

Take == \E i \in Items : sent' = Append(sent, i) /\ got' = got

Deliver ==
    /\ Len(got) < Len(sent)
    /\ got' = Append(got, sent[Len(got) + 1])
    /\ sent' = sent

ChannelSafe == ChannelInit /\ [][Take \/ Deliver]_cvars

ChannelSpec == ChannelSafe /\ WF_cvars(Deliver)
===============================================================================
