------------------------------ MODULE KeyCustody ------------------------------
(***************************************************************************)
(* What the platform promises about the key of an uploaded channel,         *)
(* whatever handlers, goroutines, retries and crashes do in between         *)
(* (the "destroy-by-default" contract of model/channel.go and the README):  *)
(* a key is held from its upload until it is destroyed; it is destroyed     *)
(* only once AGT has the channel; a rotation may put a new key in the place *)
(* of the old one; and when the supplier deletes the channel its custody    *)
(* freezes as it is.                                                        *)
(***************************************************************************)
CONSTANT Channels

VARIABLES
    custody,    \* "none", "held" or "destroyed", per channel
    published,  \* the channels AGT has accepted a key of
    closed      \* the channels that are deleted

cvars == <<custody, published, closed>>

CInit ==
    /\ custody = [c \in Channels |-> "none"]
    /\ published = {}
    /\ closed = {}

Upload(c) ==
    /\ custody[c] = "none"
    /\ custody' = [custody EXCEPT ![c] = "held"]
    /\ UNCHANGED <<published, closed>>

Publish(c) ==
    /\ custody[c] # "none"
    /\ published' = published \cup {c}
    /\ UNCHANGED <<custody, closed>>

Destroy(c) ==
    /\ custody[c] = "held"
    /\ c \in published
    /\ c \notin closed
    /\ custody' = [custody EXCEPT ![c] = "destroyed"]
    /\ UNCHANGED <<published, closed>>

Rearm(c) ==
    /\ custody[c] = "destroyed"
    /\ c \notin closed
    /\ custody' = [custody EXCEPT ![c] = "held"]
    /\ UNCHANGED <<published, closed>>

Close(c) ==
    /\ custody[c] # "none"
    /\ closed' = closed \cup {c}
    /\ UNCHANGED <<custody, published>>

CNext ==
    \E c \in Channels :
        Upload(c) \/ Publish(c) \/ Destroy(c) \/ Rearm(c) \/ Close(c)

CSpec == CInit /\ [][CNext]_cvars
===============================================================================
