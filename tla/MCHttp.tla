-------------------------------- MODULE MCHttp --------------------------------
(* Instances of Http for TLC: each task that downloads has an HttpDownload of *)
(* its own, or they share one.                                                *)
EXTENDS Http

OwnObject == [d \in Downloaders |-> d]
SharedObject == [d \in Downloaders |-> CHOOSE o \in Objects : TRUE]
=============================================================================
