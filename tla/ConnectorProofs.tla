-------------------------- MODULE ConnectorProofs --------------------------
(***************************************************************************)
(* Proofs about Connector, for every tick, limit, default and set of ports *)
(* and timeouts.                                                           *)
(***************************************************************************)
EXTENDS Connector, TLAPS

(***************************************************************************)
(* Arithmetic of Options.native.                                           *)
(***************************************************************************)
\* The quotient and the remainder of a duration.
LEMMA Division ==
    ASSUME NEW t \in Nat, NEW d \in Nat \ {0}
    PROVE  /\ t \div d \in Nat /\ t % d \in 0..(d - 1)
           /\ t = d * (t \div d) + (t % d)
  OBVIOUS

\* Options.native rounds a positive timeout up to whole seconds: at least one,
\* enough for the timeout, and not one more than needed.
LEMMA RoundsUp ==
    ASSUME NEW t \in Nat \ {0}
    PROVE  /\ Seconds(t) \in Nat \ {0}
           /\ Seconds(t) * Tick >= t
           /\ (Seconds(t) - 1) * Tick < t
<1> DEFINE q == t \div Tick
           r == t % Tick
<1>1. q \in Nat /\ r \in 0..(Tick - 1) /\ t = Tick * q + r /\ Tick \in Nat \ {0}
  BY Division, ConnectorAssumption
<1>2. Seconds(t) = q + (IF r # 0 THEN 1 ELSE 0)
  BY DEF Seconds
<1> HIDE DEF q, r
<1>3. CASE r = 0
  <2>1. Seconds(t) = q /\ t = Tick * q
    BY <1>1, <1>2, <1>3
  <2>2. q # 0
    BY <1>1, <2>1
  <2> QED BY <1>1, <2>1, <2>2
<1>4. CASE r # 0
  <2>1. Seconds(t) = q + 1
    BY <1>1, <1>2, <1>4
  <2>2. (q + 1) * Tick = Tick * q + Tick /\ (Seconds(t) - 1) * Tick = Tick * q
    BY <1>1, <2>1
  <2> QED BY <1>1, <1>4, <2>1, <2>2
<1> QED BY <1>3, <1>4

(***************************************************************************)
(* The inductive invariant of Connector.                                   *)
(***************************************************************************)
\* The port numbers of Options.native and csdk.Open.
LEMMA PortNumbers == MaxPort \in Nat /\ DefaultPort \in Nat /\ DefaultPort \in 0..MaxPort
<1>1. MaxPort \in Nat
  BY DEF MaxPort
<1>2. DefaultPort \in Nat
  BY DEF DefaultPort
<1>3. DefaultPort \in 0..MaxPort
  BY DEF DefaultPort, MaxPort
<1> QED BY <1>1, <1>2, <1>3

\* The values a configuration can have, before and after ParseDSN.
LEMMA ConfigTypes ==
    ASSUME TypeOK
    PROVE  /\ config.port \in Int /\ config.timeout \in Int
           /\ config.timeout >= 0 => config.timeout \in Nat
<1>1. /\ config.port \in Ports \union {-1, DefaultPort}
      /\ config.timeout \in Timeouts \union {-1}
  BY DEF TypeOK
<1>2. config.timeout \in Nat \/ config.timeout = -1
  BY <1>1, ConnectorAssumption
<1>3. config.port \in Nat \/ config.port = -1
  BY <1>1, PortNumbers, ConnectorAssumption
<1>4. config.timeout \in Int /\ config.port \in Int
  BY <1>2, <1>3
<1> QED BY <1>2, <1>4

\* What Config.Validate accepts, csdk.Open accepts too.
LEMMA ValidIsOpenable ==
    ASSUME TypeOK, Valid(config)
    PROVE  InRange(config) /\ CsdkAccepts(config)
<1>1. config.timeout \in Nat
  BY ConfigTypes DEF Valid, InRange
<1>2. config.timeout > 0 => Seconds(config.timeout) \in Nat
  BY <1>1, RoundsUp
<1>3. Native(config).timeout >= 0
  BY <1>1, <1>2 DEF Native
<1>4. Native(config).port >= 0
  <2>1. config.port \in 0..MaxPort
    BY DEF Valid, InRange
  <2>2. Native(config).port = config.port
    BY DEF Native
  <2> QED BY <2>1, <2>2, PortNumbers
<1> QED BY <1>3, <1>4 DEF Valid, InRange, CsdkAccepts

\* The port and the timeout that csdk.Open passes to the SDK for a valid
\* configuration.
LEMMA OpensAsAsked ==
    ASSUME TypeOK, Valid(config), effective' = WithDefaults(Native(config)),
           config' = config
    PROVE  /\ effective'.port \in 0..MaxPort /\ effective'.timeout \in 0..MaxSeconds
           /\ EffectiveIsAsked'
<1> DEFINE t == config.timeout
           e == effective'.timeout
           s == Seconds(t)
<1>1. t \in Nat
  BY ConfigTypes DEF Valid, InRange
<1>2. config.port \in 0..MaxPort
  BY DEF Valid, InRange
<1>3. effective'.port = IF config.port = 0 THEN DefaultPort ELSE config.port
  BY DEF WithDefaults, Native
<1>4. effective'.port \in 0..MaxPort
  BY <1>2, <1>3, PortNumbers
<1>5. t # 0 => s \in Nat \ {0} /\ s * Tick >= t /\ (s - 1) * Tick < t
  BY <1>1, RoundsUp
<1>6. t # 0 => s <= MaxSeconds
  BY <1>1 DEF Valid, InRange
<1>7. e = IF t = 0 THEN DefaultTimeout ELSE s
  BY <1>1, <1>5 DEF WithDefaults, Native
<1>8. config'.timeout = t /\ config'.port = config.port
  OBVIOUS
<1> HIDE DEF t, e, s
<1>9. e \in 1..MaxSeconds
  BY <1>1, <1>5, <1>6, <1>7, ConnectorAssumption
<1>10. IF t = 0 THEN e = DefaultTimeout ELSE e * Tick >= t /\ (e - 1) * Tick < t
  BY <1>5, <1>7
<1>11. EffectiveIsAsked'
  BY <1>3, <1>8, <1>9, <1>10 DEF EffectiveIsAsked, e
<1>12. e \in 0..MaxSeconds
  BY <1>9, ConnectorAssumption
<1> QED BY <1>4, <1>11, <1>12 DEF e

\* Connector.Connect preserves ConnectorInv.
LEMMA ConnectStep ==
    ASSUME ConnectorInv, Connect
    PROVE  ConnectorInv'
<1>1. TypeOK /\ Valid(config) /\ config' = config /\ stage = "connector" /\ ~session
  BY DEF ConnectorInv, OnlyValid, NoOrphanSession, Connect, TypeOK
<1>2. InRange(config) /\ CsdkAccepts(config)
  BY <1>1, ValidIsOpenable
<1>3. OnlyValid'
  BY <1>1 DEF OnlyValid
<1>4. /\ stage' \in {"failed", "connected"}
      /\ session' \in BOOLEAN /\ (session' => stage' = "connected")
      /\ \/ stage' = "failed" /\ effective' = effective
         \/ effective' = WithDefaults(Native(config))
  <2>1. session = FALSE
    BY <1>1 DEF ConnectorInv, TypeOK
  <2>2. CASE stage' = "failed" /\ UNCHANGED <<effective, session>>
    BY <2>1, <2>2
  <2>3. CASE /\ effective' = WithDefaults(Native(config))
             /\ stage' = "connected" /\ session' = TRUE
    BY <2>3
  <2>4. CASE /\ effective' = WithDefaults(Native(config))
             /\ stage' = "failed" /\ session' = AbandonCloses
    BY <2>4 DEF AbandonCloses
  <2> QED BY <1>2, <2>2, <2>3, <2>4 DEF Connect
<1>5. ConnectorsAreOpenable' /\ NoOrphanSession'
  BY <1>4 DEF ConnectorsAreOpenable, NoOrphanSession
<1>6. /\ effective'.port \in 0..MaxPort /\ effective'.timeout \in 0..MaxSeconds
      /\ EffectiveIsAsked'
  <2>1. CASE stage' = "failed" /\ effective' = effective
    BY <1>1, <2>1 DEF TypeOK, EffectiveIsAsked
  <2>2. CASE effective' = WithDefaults(Native(config))
    BY <1>1, <2>2, OpensAsAsked
  <2> QED BY <1>4, <2>1, <2>2
<1>7. TypeOK'
  BY <1>1, <1>4, <1>6 DEF TypeOK, Stages
<1> QED BY <1>3, <1>5, <1>6, <1>7 DEF ConnectorInv

\* Every step preserves ConnectorInv.
LEMMA ConnectorStep ==
    ASSUME ConnectorInv, [Next]_vars
    PROVE  ConnectorInv'
\* a step that ends where nothing is connected, and keeps effective
<1>1. ASSUME stage' \in {"start", "connector", "rejected"}, ~session',
             effective' = effective \/ effective' = Nowhere,
             config' \in [named : BOOLEAN, nul : {"none", "options", "database"},
                   port : Ports \union {-1, DefaultPort}, timeout : Timeouts \union {-1},
                   encryption : {"clear", "aes256", "other"}, database : BOOLEAN],
             stage' = "connector" => Valid(config'),
             session' \in BOOLEAN
      PROVE  ConnectorInv'
  <2>1. effective'.port \in 0..MaxPort /\ effective'.timeout \in 0..MaxSeconds
    <3>1. /\ Nowhere.port = 0 /\ Nowhere.timeout = 0
          /\ 0 \in 0..MaxPort /\ 0 \in 0..MaxSeconds
      BY PortNumbers, ConnectorAssumption DEF Nowhere
    <3>2. effective.port \in 0..MaxPort /\ effective.timeout \in 0..MaxSeconds
      BY DEF ConnectorInv, TypeOK
    <3> QED BY <1>1, <3>1, <3>2
  <2>2. TypeOK'
    BY <1>1, <2>1 DEF TypeOK, Stages
  <2>3. OnlyValid'
    BY <1>1 DEF OnlyValid
  <2>4. EffectiveIsAsked' /\ ConnectorsAreOpenable' /\ NoOrphanSession'
    BY <1>1 DEF EffectiveIsAsked, ConnectorsAreOpenable, NoOrphanSession
  <2> QED BY <2>2, <2>3, <2>4 DEF ConnectorInv
<1>2. CASE NewConnector
  BY <1>1, <1>2 DEF NewConnector, ConnectorInv, TypeOK, NoOrphanSession
<1>3. ASSUME NEW p \in BOOLEAN, NEW w \in BOOLEAN, ParseDSN(p, w)
      PROVE  ConnectorInv'
  <2>1. config' \in [named : BOOLEAN, nul : {"none", "options", "database"},
                   port : Ports \union {-1, DefaultPort}, timeout : Timeouts \union {-1},
                   encryption : {"clear", "aes256", "other"}, database : BOOLEAN]
    BY <1>3 DEF ParseDSN, ConnectorInv, TypeOK
  <2>2. stage' \in {"connector", "rejected"} /\ (stage' = "connector" => Valid(config'))
    BY <1>3 DEF ParseDSN
  <2> QED BY <1>1, <1>3, <2>1, <2>2 DEF ParseDSN, ConnectorInv, TypeOK, NoOrphanSession
<1>4. CASE Connect
  BY <1>4, ConnectStep
<1>5. CASE Again
  <2>1. Valid(config')
    BY <1>5 DEF Again, ConnectorInv, OnlyValid
  <2> QED BY <1>1, <1>5, <2>1 DEF Again, ConnectorInv, TypeOK, NoOrphanSession
<1>6. CASE Reconfigure
  BY <1>1, <1>6 DEF Reconfigure, Configs, ConnectorInv, TypeOK, NoOrphanSession
<1>7. CASE UNCHANGED vars
  <2>1. TypeOK'
    BY <1>7 DEF vars, ConnectorInv, TypeOK
  <2>2. OnlyValid'
    BY <1>7 DEF vars, ConnectorInv, OnlyValid
  <2>3. EffectiveIsAsked' /\ ConnectorsAreOpenable' /\ NoOrphanSession'
    BY <1>7 DEF vars, ConnectorInv, EffectiveIsAsked, ConnectorsAreOpenable, NoOrphanSession
  <2> QED BY <2>1, <2>2, <2>3 DEF ConnectorInv
<1> QED BY <1>2, <1>3, <1>4, <1>5, <1>6, <1>7 DEF Next

(***************************************************************************)
(* Theorems.                                                               *)
(***************************************************************************)
\* Whatever a DSN or a Config says, a connector exists only for what it can
\* open, and opens it as asked.
THEOREM ConnectorInvariant == Spec => []ConnectorInv
<1>1. Init => ConnectorInv
  <2> SUFFICES ASSUME Init PROVE ConnectorInv
    OBVIOUS
  <2>1. effective.port \in 0..MaxPort /\ effective.timeout \in 0..MaxSeconds
    BY PortNumbers, ConnectorAssumption DEF Init, Nowhere
  <2>2. TypeOK
    BY <2>1 DEF Init, Configs, TypeOK, Stages
  <2> QED BY <2>2 DEF Init, ConnectorInv, OnlyValid, EffectiveIsAsked,
                   ConnectorsAreOpenable, NoOrphanSession
<1>2. ConnectorInv /\ [Next]_vars => ConnectorInv'
  BY ConnectorStep
<1> QED BY <1>1, <1>2, PTL DEF Spec

\* The values of Connector keep their types: no port or timeout leaves the
\* range of the SDK's fields.
THEOREM ConnectorTypes == Spec => []TypeOK
  BY ConnectorInvariant, PTL DEF ConnectorInv

\* Options.native and csdk.Open: the SDK waits as long as asked and less than
\* a second longer, whatever the tick, the limit and the default are.
THEOREM TimeoutIsAsked == Spec => []EffectiveIsAsked
  BY ConnectorInvariant, PTL DEF ConnectorInv

\* Config.Validate accepts nothing that Connect would refuse.
THEOREM NoUnusableConnector == Spec => []ConnectorsAreOpenable
  BY ConnectorInvariant, PTL DEF ConnectorInv

\* Connector.Connect leaves no connection behind when it fails.
THEOREM FailedConnectLeavesNothing == Spec => []NoOrphanSession
  BY ConnectorInvariant, PTL DEF ConnectorInv
=============================================================================
