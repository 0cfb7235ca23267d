----------------------------- MODULE MCDelivery -----------------------------
(* Small instances of Delivery for TLC.                                    *)
EXTENDS Delivery, TLC
CONSTANTS a, h1
OrderedOnly == a :> {"SessionBoundOrdered"}
OrderedTraffic == [ch : {a}, seq : 0 .. MaxSequence, pol : {"SessionBoundOrdered"}, size : Sizes]
=============================================================================
