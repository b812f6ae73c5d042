----------------------------- MODULE MountTable -----------------------------
(***************************************************************************)
(* What the agent promises about its mounts, whoever asks and however the  *)
(* callers interleave: a share is attached only for a caller that asked    *)
(* when the share was configured and its peer present at that endpoint,    *)
(* one mount per share; and a mount that still serves goes only when the   *)
(* share is unwanted at that very moment, when the daemon stops, or when a *)
(* caller asks for another endpoint.  AgentMounts implements it.           *)
(***************************************************************************)
CONSTANTS Key, Endpoint, None

VARIABLES
    table,       \* the endpoint each share is mounted from, or None
    serving,     \* the mounted shares whose file system is still there
    configured,  \* the shares the configuration lists
    at,          \* where the peer of each share is, None: offline, unpaired
    offered,     \* the shares that their peers export
    asking,      \* the <<share, endpoint>> that some caller wants mounted
    stopping     \* the daemon was told to stop

vars == <<table, serving, configured, at, offered, asking, stopping>>

Wanted(k) == k \in configured /\ at[k] # None /\ k \in offered
Justified == {<<k, at[k]>> : k \in {j \in configured : at[j] # None}}

Init ==
    /\ table = [k \in Key |-> None]
    /\ serving = {} /\ asking = {} /\ stopping = FALSE
    /\ configured \subseteq Key
    /\ at = [k \in Key |-> None]
    /\ offered = {}

Learn ==
    /\ configured' \subseteq Key
    /\ at' \in [Key -> Endpoint \cup {None}]
    /\ offered' \subseteq Key
    /\ stopping => stopping'
    /\ UNCHANGED <<table, serving>>

Attach(k) ==
    /\ table[k] = None
    /\ \E e \in Endpoint :
          <<k, e>> \in asking /\ table' = [table EXCEPT ![k] = e]
    /\ serving' = serving \cup {k}
    /\ UNCHANGED <<configured, at, offered, stopping>>

Release(k) ==
    /\ table[k] # None
    /\ k \in serving => ~ Wanted(k) \/ stopping
    /\ table' = [table EXCEPT ![k] = None]
    /\ serving' = serving \ {k}
    /\ UNCHANGED <<configured, at, offered, stopping>>

\* The new attempt may fail, and then nothing is mounted.
Replace(k) ==
    /\ table[k] # None
    /\ \E e \in Endpoint :
          /\ <<k, e>> \in asking
          /\ k \in serving => e # table[k]
          /\ \/ /\ table' = [table EXCEPT ![k] = e]
                /\ serving' = serving \cup {k}
             \/ /\ table' = [table EXCEPT ![k] = None]
                /\ serving' = serving \ {k}
    /\ UNCHANGED <<configured, at, offered, stopping>>

Fail(k) ==
    /\ serving' = serving \ {k}
    /\ UNCHANGED <<table, configured, at, offered, stopping>>

Next ==
    /\ Learn \/ \E k \in Key : Attach(k) \/ Release(k) \/ Replace(k) \/ Fail(k)
    /\ asking' \subseteq asking \cup Justified'

Spec == Init /\ [][Next]_vars
=============================================================================
