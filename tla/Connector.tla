------------------------------ MODULE Connector ------------------------------
(***************************************************************************)
(* From a DSN or a Config to an open connection: ParseDSN, Validate and    *)
(* Connector.Connect of database/cubesql, Options.native of package        *)
(* cubesql, and the defaults of internal/csdk and the SDK.                 *)
(*                                                                         *)
(* A duration is a number of ticks, Tick to the second, and the largest    *)
(* number of seconds a C int holds is a parameter.  Of the strings only    *)
(* what the code looks at is kept.                                         *)
(***************************************************************************)
EXTENDS Integers

CONSTANTS
    Tick, MaxSeconds, DefaultTimeout,
    Ports, Timeouts \* the values that applications try, besides -1

ASSUME ConnectorAssumption ==
    /\ Tick \in Nat \ {0}
    /\ MaxSeconds \in Nat /\ DefaultTimeout \in 1..MaxSeconds
    /\ Ports \subseteq Nat /\ Timeouts \subseteq Nat

VARIABLES
    stage,     \* see Stages
    config,    \* what the application configures
    effective, \* the port and the timeout in seconds the SDK connects with
    session    \* a native connection exists

vars == <<stage, config, effective, session>>

Configs == [named : BOOLEAN,     \* Username is not empty
            nul : {"none", "options", "database"}, \* where a NUL byte is
            port : Ports \union {-1}, timeout : Timeouts \union {-1},
            encryption : {"clear", "aes256", "other"},
            database : BOOLEAN]  \* Database is not empty
\* "rejected": no connector.  "refused": the connector exists and its own
\* options are not accepted.  "failed": the connection could not be made.
Stages == {"start", "connector", "connected", "rejected", "refused", "failed"}
DefaultPort == 4430
MaxPort == 65535
Nowhere == [port |-> 0, timeout |-> 0]

(***************************************************************************)
(* Options.                                                                *)
(***************************************************************************)
\* Fault: a fraction of a second is cut off.
SecondsDown(timeout) == timeout \div Tick

\* A positive duration in seconds, rounded up.
Seconds(timeout) ==
    timeout \div Tick + (IF timeout % Tick # 0 THEN 1 ELSE 0)

\* Fault: the number of seconds is not compared with the range of an int.
InRangeUnbounded(o) ==
    /\ o.named /\ o.nul # "options"
    /\ o.timeout >= 0 /\ o.port \in 0..MaxPort
    /\ o.encryption \in {"clear", "aes256"}

\* The range checks of Options.native.
InRange(o) ==
    /\ o.named /\ o.nul # "options"
    /\ o.timeout >= 0 /\ o.port \in 0..MaxPort
    /\ o.encryption \in {"clear", "aes256"}
    /\ o.timeout > 0 => Seconds(o.timeout) <= MaxSeconds

Native(o) ==
    [port |-> o.port,
     timeout |-> IF o.timeout > 0 THEN Seconds(o.timeout) ELSE 0]

\* csdk.Open: zero means the default.
WithDefaults(n) ==
    [port |-> IF n.port = 0 THEN DefaultPort ELSE n.port,
     timeout |-> IF n.timeout = 0 THEN DefaultTimeout ELSE n.timeout]

\* The checks of csdk.Open.
CsdkAccepts(o) ==
    o.named /\ Native(o).port >= 0 /\ Native(o).timeout >= 0
    /\ o.encryption \in {"clear", "aes256"}

\* Fault: the options are not validated.
ValidDatabase(c) == c.nul # "database"

\* Config.Validate.
Valid(c) == InRange(c) /\ c.nul # "database"

Init ==
    /\ stage = "start" /\ config \in Configs
    /\ effective = Nowhere /\ session = FALSE

\* NewConnector, also the one of OpenDB.
NewConnector ==
    /\ stage = "start"
    /\ stage' = IF Valid(config) THEN "connector" ELSE "rejected"
    /\ UNCHANGED <<config, effective, session>>

\* ParseDSN and then NewConnector.  wellFormed stands for what it asks of
\* the other parts: scheme, explicit password, host, one path segment, known
\* and single query keys.
ParseDSN(hasPort, wellFormed) ==
    /\ stage = "start"
    /\ config' = [config EXCEPT !.port = IF hasPort THEN @ ELSE DefaultPort]
    /\ stage' = IF /\ wellFormed /\ config.named
                   /\ hasPort => config.port \in 1..MaxPort
                   /\ config.timeout >= 0
                   /\ config.encryption # "other"
                   /\ Valid(config')
                THEN "connector" ELSE "rejected"
    /\ UNCHANGED <<effective, session>>

\* Fault: the connection stays when its database cannot be selected.
AbandonKeeps == TRUE

\* native.Close() when the database cannot be selected; the connection has
\* no child or transaction that could refuse it.
AbandonCloses == FALSE

\* Connector.Connect: the context, OpenContext, SetDatabaseContext.
Connect ==
    /\ stage = "connector"
    /\ \/ stage' = "failed" /\ UNCHANGED <<effective, session>>
       \/ IF InRange(config) /\ CsdkAccepts(config)
          THEN /\ effective' = WithDefaults(Native(config))
               /\ \/ stage' = "connected" /\ session' = TRUE
                  \/ /\ config.database
                     /\ stage' = "failed" /\ session' = AbandonCloses
          ELSE stage' = "refused" /\ UNCHANGED <<effective, session>>
    /\ UNCHANGED config

\* The connection is closed, and the pool asks the connector again.
Again ==
    /\ stage \in {"connected", "failed", "refused"}
    /\ stage' = "connector" /\ effective' = Nowhere
    /\ session' = (session /\ stage # "connected")
    /\ UNCHANGED config

\* The application corrects its configuration.
Reconfigure ==
    /\ stage = "rejected"
    /\ stage' = "start" /\ config' \in Configs
    /\ UNCHANGED <<effective, session>>

Next ==
    \/ NewConnector \/ (\E p, w \in BOOLEAN : ParseDSN(p, w))
    \/ Connect \/ Again \/ Reconfigure

Spec == Init /\ [][Next]_vars

(***************************************************************************)
(* Properties.                                                             *)
(***************************************************************************)
\* Every variable has its type.
TypeOK ==
    /\ stage \in Stages /\ session \in BOOLEAN
    /\ config \in [named : BOOLEAN, nul : {"none", "options", "database"},
                   port : Ports \union {-1, DefaultPort},
                   timeout : Timeouts \union {-1},
                   encryption : {"clear", "aes256", "other"}, database : BOOLEAN]
    /\ effective.port \in 0..MaxPort /\ effective.timeout \in 0..MaxSeconds

\* The SDK waits at least as long as the application asked and less than a
\* second longer, for the default time if it asked for nothing, and never
\* for a number of seconds that does not fit its int; it connects to the
\* port asked for, or the default one.
EffectiveIsAsked ==
    stage = "connected" =>
        /\ IF config.timeout = 0 THEN effective.timeout = DefaultTimeout
           ELSE /\ effective.timeout * Tick >= config.timeout
                /\ (effective.timeout - 1) * Tick < config.timeout
        /\ effective.timeout \in 1..MaxSeconds
        /\ effective.port = (IF config.port = 0 THEN DefaultPort ELSE config.port)

\* A connector never fails on its own configuration: what cannot be opened
\* is rejected when the connector is made.
ConnectorsAreOpenable == stage # "refused"

\* A connection is left open only by a Connect that has returned it.
NoOrphanSession == session => stage = "connected"

\* A connector exists only for a configuration that Config.Validate accepts.
OnlyValid == stage \in {"connector", "connected", "failed", "refused"} => Valid(config)

\* The conjunction that every step preserves.
ConnectorInv ==
    /\ TypeOK /\ OnlyValid
    /\ EffectiveIsAsked /\ ConnectorsAreOpenable /\ NoOrphanSession
=============================================================================
