------------------------------- MODULE Session -------------------------------
(***************************************************************************)
(* What package cubesql promises about one connection, without counts,     *)
(* mutexes or goroutines: native objects live only inside an open          *)
(* connection, and the connection is closed, switched to another database, *)
(* or moved into or out of a transaction only while none is alive.         *)
(***************************************************************************)
CONSTANTS Handles, Names, NoName

VARIABLES
    up,      \* the native connection exists
    live,    \* native statements and cursors
    inTx,    \* a Tx is live
    selected \* the selected database

sessionVars == <<up, live, inTx, selected>>

Init == up = TRUE /\ live = {} /\ inTx = FALSE /\ selected = NoName

Connect ==
    /\ ~up
    /\ up' = TRUE /\ selected' = NoName
    /\ UNCHANGED <<live, inTx>>

Acquire(h) ==
    /\ up /\ h \notin live
    /\ live' = live \union {h}
    /\ UNCHANGED <<up, inTx, selected>>

\* Needs the connection too: closing a statement talks to the server.
Discard(h) ==
    /\ up /\ h \in live
    /\ live' = live \ {h}
    /\ UNCHANGED <<up, inTx, selected>>

Unused == up /\ live = {}

Disconnect ==
    /\ Unused /\ ~inTx
    /\ up' = FALSE
    /\ UNCHANGED <<live, inTx, selected>>

Select(name) ==
    /\ Unused /\ ~inTx
    /\ selected' = name
    /\ UNCHANGED <<up, live, inTx>>

\* Begin, and the end of the transaction.
Toggle ==
    /\ Unused
    /\ inTx' = ~inTx
    /\ UNCHANGED <<up, live, selected>>

Next ==
    \/ Connect \/ Disconnect \/ Toggle
    \/ \E h \in Handles : Acquire(h) \/ Discard(h)
    \/ \E name \in Names : Select(name)

Spec == Init /\ [][Next]_sessionVars
=============================================================================
