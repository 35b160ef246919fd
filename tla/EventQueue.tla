----------------------------- MODULE EventQueue -----------------------------
(***************************************************************************)
(* What the event log promises: the last Capacity events in the order they *)
(* happened, a saved copy that is some earlier state of it, and for every  *)
(* client that has asked for the log a list of events still to be sent,    *)
(* which it is handed oldest first, without gap or repetition, unless it   *)
(* lags behind by the whole log.                                           *)
(***************************************************************************)
EXTENDS Integers, Sequences

CONSTANTS
    Conns,      \* the connection slots of the Modbus server
    Capacity,   \* how many events the log holds
    BatchMax,   \* how many events go into one message
    MaxEvent    \* bound on the events of a behaviour, numbered from 1

VARIABLES
    log,        \* the events, oldest first
    next,       \* the number of the next event
    staged,     \* the copy that is being written to flash
    written,    \* the last copy that was written
    saved,      \* the one a restart will find
    following,  \* the connections whose client has asked for the log
    pending,    \* for each of them, the events still to be sent
    batch       \* for each connection, the events in the message being sent to it

qvars == <<log, next, staged, written, saved, following, pending, batch>>
flashVars == <<staged, written, saved>>
Nobody == [c \in Conns |-> <<>>]

Init ==
    /\ log = <<>> /\ staged = <<>> /\ written = <<>> /\ saved = <<>>
    /\ next = 1
    /\ following = {}
    /\ pending = Nobody
    /\ batch = Nobody

\* The last n elements of s, and s without its first n.
LastOf(s, n) == IF Len(s) <= n THEN s ELSE SubSeq(s, Len(s) - n + 1, Len(s))
Without(s, n) == SubSeq(s, n + 1, Len(s))

AddEvent ==
    /\ next <= MaxEvent
    /\ log' = LastOf(Append(log, next), Capacity)
    /\ pending' = [c \in Conns |->
                     IF c \in following THEN LastOf(Append(pending[c], next), Capacity)
                     ELSE <<>>]
    /\ next' = next + 1
    /\ UNCHANGED <<flashVars, following, batch>>

Clear ==
    /\ log' = <<>>
    /\ pending' = Nobody
    /\ UNCHANGED <<next, flashVars, following, batch>>

memoryVars == <<log, next, following, pending, batch>>

Stage == staged' = log /\ UNCHANGED <<memoryVars, written, saved>>

Write == written' = staged /\ UNCHANGED <<memoryVars, staged, saved>>

Save == saved' = written /\ UNCHANGED <<memoryVars, staged, written>>

Follow(c) ==
    /\ following' = following \cup {c}
    /\ pending' = [pending EXCEPT ![c] = log]
    /\ UNCHANGED <<log, next, flashVars, batch>>

\* A client leaves; a message that is not yet ready for it may never be.
Unfollow(c) ==
    /\ following' = following \ {c}
    /\ pending' = [pending EXCEPT ![c] = <<>>]
    /\ batch' \in {batch, [batch EXCEPT ![c] = <<>>]}
    /\ UNCHANGED <<log, next, flashVars>>

\* An event is added at the moment a client leaves.
AddAndUnfollow(c) ==
    /\ next <= MaxEvent
    /\ log' = LastOf(Append(log, next), Capacity)
    /\ following' = following \ {c}
    /\ pending' = [d \in Conns |->
                     IF d \in following' THEN LastOf(Append(pending[d], next), Capacity)
                     ELSE <<>>]
    /\ next' = next + 1
    /\ UNCHANGED <<flashVars, batch>>

\* One message at a time is handed over.
Take(c) ==
    /\ c \in following
    /\ batch = Nobody
    /\ pending[c] # <<>>
    /\ LET n == IF Len(pending[c]) > BatchMax THEN BatchMax ELSE Len(pending[c])
       IN  /\ batch' = [batch EXCEPT ![c] = SubSeq(pending[c], 1, n)]
           /\ pending' = [pending EXCEPT ![c] = Without(pending[c], n)]
    /\ UNCHANGED <<log, next, flashVars, following>>

Send == batch' = Nobody /\ UNCHANGED <<log, next, flashVars, following, pending>>

\* A restart brings back the saved log, or an empty one if the file is bad.
Restart ==
    /\ log' \in {saved, <<>>}
    /\ staged' = saved /\ written' = saved
    /\ following' = {}
    /\ pending' = Nobody
    /\ batch' = Nobody
    /\ UNCHANGED <<next, saved>>

Next ==
    \/ AddEvent \/ Clear \/ Stage \/ Write \/ Save \/ Send \/ Restart
    \/ \E c \in Conns : Follow(c) \/ Unfollow(c) \/ AddAndUnfollow(c) \/ Take(c)

Spec == Init /\ [][Next]_qvars
=============================================================================
