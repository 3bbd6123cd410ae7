--------------------------- MODULE AdapterProofs ---------------------------
(***************************************************************************)
(* Proofs about Adapter, for every set of statements: its inductive        *)
(* invariant, the properties that follow from it, and that the adapter     *)
(* implements Outcomes.                                                    *)
(***************************************************************************)
EXTENDS Adapter, TLAPS

(***************************************************************************)
(* What a native exchange can leave of the server's session.  A call that  *)
(* fails has changed nothing, or the session is gone; only a commit can    *)
(* have had its effect all the same.                                       *)
(***************************************************************************)
Kept(s, t) == t = s \/ t = Dropped(s)

Committed(s) ==
    [s EXCEPT
        !.commits = [w \in Work |-> IF w \in s.pending THEN @[w] + 1 ELSE @[w]],
        !.pending = {}, !.tx = FALSE]

\* The five ends of Exchange.
LEMMA ExchangeOutcomes ==
    ASSUME NEW s, NEW done, NEW o \in Exchange(s, done)
    PROVE  \/ s.link /\ o.res = "ok" /\ o.srv = done
           \/ s.link /\ o.res = "server" /\ o.srv = s
           \/ s.link /\ o.res = "network" /\ o.srv = Dropped(s)
           \/ s.link /\ o.res = "network" /\ o.srv = Dropped(done)
           \/ ~s.link /\ o.res = "network" /\ o.srv = s
  BY DEF Exchange, Outcome

\* The same of a request that needs a database, under a caller's context or
\* not.
LEMMA DatabaseOutcomes ==
    ASSUME NEW s, NEW done, NEW o \in UnderContext(s, InDatabase(s, done))
    PROVE  \/ s.link /\ s.db # "none" /\ o.res = "ok" /\ o.srv = done
           \/ o.res = "noDatabase" /\ s.db = "none" /\ o.srv = s
           \/ o.res \in {"server", "network", "canceled"} /\ Kept(s, o.srv)
           \/ s.link /\ o.res = "network" /\ o.srv = Dropped(done)
<1>1. CASE o = Outcome("canceled", s)
  BY <1>1 DEF Outcome, Kept
<1>2. CASE o = Outcome("noDatabase", s) /\ s.db = "none"
  BY <1>2 DEF Outcome
<1>3. CASE o \in Exchange(s, done) /\ ~(s.link /\ s.db = "none")
  BY <1>3, ExchangeOutcomes DEF Kept
<1> QED BY <1>1, <1>2, <1>3 DEF UnderContext, InDatabase

\* A session that is gone is gone with what was sent to it.
LEMMA DroppedIsDropped ==
    ASSUME NEW s \in SrvType
    PROVE  /\ Dropped(s) \in SrvType
           /\ ~Dropped(s).link /\ Dropped(s).pending = {} /\ ~Dropped(s).tx
           /\ Dropped(s).db = s.db /\ Dropped(s).commits = s.commits
           /\ \A w \in Work : Dropped([s EXCEPT !.pending = @ \union {w}]) = Dropped(s)
           /\ Dropped([s EXCEPT !.pending = {}, !.tx = FALSE]) = Dropped(s)
           /\ Dropped([s EXCEPT !.tx = TRUE]) = Dropped(s)
  BY DEF Dropped, SrvType

\* Execution of a statement.
LEMMA ExecuteOutcomes ==
    ASSUME NEW s \in SrvType, NEW w \in Work,
           NEW o \in UnderContext(s, Execute(s, w))
    PROVE  \/ o.res # "ok" /\ Kept(s, o.srv)
           \/ /\ s.link /\ s.db # "none" /\ o.res = "ok"
              /\ o.srv = [s EXCEPT !.pending = @ \union {w}]
<1> DEFINE done == [s EXCEPT !.pending = @ \union {w}]
<1>1. Dropped(done) = Dropped(s)
  BY DroppedIsDropped
<1>2. o \in UnderContext(s, InDatabase(s, done))
  BY DEF Execute
<1> HIDE DEF done
<1>3. \/ s.link /\ s.db # "none" /\ o.res = "ok" /\ o.srv = done
      \/ o.res = "noDatabase" /\ s.db = "none" /\ o.srv = s
      \/ o.res \in {"server", "network", "canceled"} /\ Kept(s, o.srv)
      \/ s.link /\ o.res = "network" /\ o.srv = Dropped(done)
  BY <1>2, DatabaseOutcomes
<1> QED BY <1>1, <1>3 DEF Kept, done

\* COMMIT.  It can have been done although the reply was lost.
LEMMA CommitOutcomes ==
    ASSUME NEW s \in SrvType, NEW o \in Commit(s)
    PROVE  \/ o.res # "ok" /\ Kept(s, o.srv)
           \/ s.link /\ o.res = "network" /\ o.srv = Dropped(Committed(s))
           \/ s.link /\ s.db # "none" /\ o.res = "ok" /\ o.srv = Committed(s)
<1>1. o \in UnderContext(s, InDatabase(s, Committed(s)))
  BY DEF Commit, UnderContext, Committed
<1> QED BY <1>1, DatabaseOutcomes DEF Kept

\* ROLLBACK.
LEMMA RollbackOutcomes ==
    ASSUME NEW s \in SrvType, NEW o \in UnderContext(s, Rollback(s))
    PROVE  \/ o.res \notin {"ok", "noDatabase"} /\ Kept(s, o.srv)
           \/ o.res = "noDatabase" /\ s.db = "none" /\ o.srv = s
           \/ s.link /\ o.res = "ok" /\ o.srv = [s EXCEPT !.pending = {}, !.tx = FALSE]
<1> DEFINE done == [s EXCEPT !.pending = {}, !.tx = FALSE]
<1>1. Dropped(done) = Dropped(s)
  BY DroppedIsDropped
<1>2. o \in UnderContext(s, InDatabase(s, done))
  BY DEF Rollback
<1> HIDE DEF done
<1>3. \/ s.link /\ s.db # "none" /\ o.res = "ok" /\ o.srv = done
      \/ o.res = "noDatabase" /\ s.db = "none" /\ o.srv = s
      \/ o.res \in {"server", "network", "canceled"} /\ Kept(s, o.srv)
      \/ s.link /\ o.res = "network" /\ o.srv = Dropped(done)
  BY <1>2, DatabaseOutcomes
<1> QED BY <1>1, <1>3 DEF Kept, done

\* BEGIN.
LEMMA BeginOutcomes ==
    ASSUME NEW s \in SrvType, NEW o \in UnderContext(s, BeginTransaction(s))
    PROVE  \/ o.res # "ok" /\ Kept(s, o.srv)
           \/ s.link /\ s.db # "none" /\ o.res = "ok" /\ o.srv = [s EXCEPT !.tx = TRUE]
<1> DEFINE done == [s EXCEPT !.tx = TRUE]
<1>1. Dropped(done) = Dropped(s)
  BY DroppedIsDropped
<1>2. o \in UnderContext(s, InDatabase(s, done))
  BY DEF BeginTransaction
<1> HIDE DEF done
<1>3. \/ s.link /\ s.db # "none" /\ o.res = "ok" /\ o.srv = done
      \/ o.res = "noDatabase" /\ s.db = "none" /\ o.srv = s
      \/ o.res \in {"server", "network", "canceled"} /\ Kept(s, o.srv)
      \/ s.link /\ o.res = "network" /\ o.srv = Dropped(done)
  BY <1>2, DatabaseOutcomes
<1> QED BY <1>1, <1>3 DEF Kept, done

\* A ping, the preparation of a statement and a query have no effect.
LEMMA ProbeOutcomes ==
    ASSUME NEW s \in SrvType, NEW o \in UnderContext(s, Exchange(s, s))
    PROVE  Kept(s, o.srv)
  BY ExchangeOutcomes DEF UnderContext, Outcome, Kept

\* USE DATABASE and UNSET CURRENT DATABASE.
Used(s, name) ==
    [s EXCEPT !.db = name, !.pending = IF name = "none" THEN {} ELSE @]

\* Selecting a database succeeds, is refused, or fails with the link, before or after
\* the server acted.
LEMMA UseOutcomes ==
    ASSUME NEW s \in SrvType, NEW name,
           NEW o \in UnderContext(s, UseDatabase(s, name))
    PROVE  \/ o.res # "ok" /\ (Kept(s, o.srv) \/ o.srv = Dropped(Used(s, name)))
           \/ s.link /\ o.res = "ok" /\ o.srv = Used(s, name)
<1>1. CASE o = Outcome("canceled", s)
  BY <1>1 DEF Outcome, Kept
<1>2. CASE o \in Exchange(s, Used(s, name))
  BY <1>2, ExchangeOutcomes DEF Kept
<1> QED BY <1>1, <1>2 DEF UnderContext, UseDatabase, Used

(***************************************************************************)
(* The sessions that those exchanges leave.                                *)
(***************************************************************************)
\* A call that failed.
LEMMA KeptSession ==
    ASSUME NEW s \in SrvType, NEW t, Kept(s, t)
    PROVE  /\ t \in SrvType /\ t.commits = s.commits /\ t.db = s.db
           /\ t.pending \subseteq s.pending /\ (t.tx => s.tx)
           /\ t = s \/ (~t.link /\ t.pending = {} /\ ~t.tx)
  BY DroppedIsDropped DEF Kept

\* A commit that was done, whether or not the adapter learns of it.
LEMMA CommittedSession ==
    ASSUME NEW s \in SrvType
    PROVE  /\ Committed(s) \in SrvType
           /\ Committed(s).link = s.link /\ Committed(s).db = s.db
           /\ Committed(s).pending = {} /\ ~Committed(s).tx
           /\ \A w \in Work : Committed(s).commits[w] =
                  IF w \in s.pending THEN s.commits[w] + 1 ELSE s.commits[w]
<1>1. [w \in Work |-> IF w \in s.pending THEN s.commits[w] + 1 ELSE s.commits[w]]
          \in [Work -> Nat]
  BY DEF SrvType
<1> QED BY <1>1 DEF Committed, SrvType

\* An execution, a rollback and a BEGIN that succeeded.
LEMMA ExecutedSession ==
    ASSUME NEW s \in SrvType, NEW w \in Work
    PROVE  /\ LET t == [s EXCEPT !.pending = @ \union {w}]
              IN  /\ t \in SrvType /\ t.commits = s.commits /\ t.db = s.db
                  /\ t.link = s.link /\ t.tx = s.tx /\ t.pending = s.pending \union {w}
  BY DEF SrvType

\* A session whose transaction was rolled back.
LEMMA RolledBackSession ==
    ASSUME NEW s \in SrvType
    PROVE  LET t == [s EXCEPT !.pending = {}, !.tx = FALSE]
           IN  /\ t \in SrvType /\ t.commits = s.commits /\ t.db = s.db
               /\ t.link = s.link /\ ~t.tx /\ t.pending = {}
  BY DEF SrvType

\* A session in which a transaction was begun.
LEMMA BegunSession ==
    ASSUME NEW s \in SrvType
    PROVE  LET t == [s EXCEPT !.tx = TRUE]
           IN  /\ t \in SrvType /\ t.commits = s.commits /\ t.db = s.db
               /\ t.link = s.link /\ t.tx /\ t.pending = s.pending
  BY DEF SrvType

\* A session in which a database was selected.
LEMMA UsedSession ==
    ASSUME NEW s \in SrvType, NEW name \in {"configured", "other", "none"}
    PROVE  /\ Used(s, name) \in SrvType /\ Used(s, name).commits = s.commits
           /\ Used(s, name).db = name /\ Used(s, name).link = s.link
           /\ Used(s, name).tx = s.tx /\ Used(s, name).pending \subseteq s.pending
           /\ Used(s, name).pending = IF name = "none" THEN {} ELSE s.pending
  BY DEF SrvType, Used

(***************************************************************************)
(* What a step may do to the statements.                                   *)
(***************************************************************************)
\* A statement is committed once and by the borrower that has it executed,
\* not after it was reported committed or rolled back, and a final answer
\* stays.
Progress ==
    \A w \in Work :
       /\ \/ srv'.commits[w] = srv.commits[w]
          \/ /\ srv.commits[w] = 0 /\ srv'.commits[w] = 1
             /\ status[w] \notin {"ok", "rolledBack"} /\ w \in mine'
       /\ status[w] \in {"ok", "failed", "rolledBack"} => status'[w] = status[w]
       /\ status[w] = "inTx" => status'[w] # "submitted"

\* A step that commits nothing and answers nobody.
LEMMA QuietStep ==
    ASSUME AdapterInv, TypeOK', srv'.commits = srv.commits,
           srv'.pending \subseteq srv.pending, srv'.link => txWork \subseteq srv'.pending,
           status' = status, txWork' = txWork, txWork # {} => InTx'
    PROVE  WorkAccounted' /\ Progress
<1>1. WorkAccounted
  BY DEF AdapterInv
<1>2. WorkAccounted'
  BY <1>1 DEF WorkAccounted
<1>3. Progress
  BY DEF Progress
<1> QED BY <1>2, <1>3

\* A step that leaves the session and the transaction of the adapter as they
\* are, or loses the session.
LEMMA KeptStep ==
    ASSUME AdapterInv, TypeOK', Kept(srv, srv'), UNCHANGED <<coreOpen, coreTx, activeTx, closed>>,
           status' = status, txWork' = txWork, mine' = mine, broken => broken',
           mode # "none", mode' # "none", InTx <=> InTx'
    PROVE  /\ WorkAccounted' /\ Progress /\ TxKnown' /\ PendingIsMine'
           /\ coreOpen' /\ ~closed'
<1>1. srv \in SrvType /\ txWork \subseteq Work
  BY DEF AdapterInv, TypeOK
<1>2. /\ srv'.commits = srv.commits /\ srv'.db = srv.db
      /\ srv'.pending \subseteq srv.pending /\ (srv'.tx => srv.tx)
      /\ srv' = srv \/ (~srv'.link /\ srv'.pending = {} /\ ~srv'.tx)
  BY <1>1, KeptSession
<1>3. srv'.link => txWork \subseteq srv'.pending
  BY <1>2 DEF AdapterInv, WorkAccounted
<1>4. txWork # {} => InTx'
  BY DEF AdapterInv, WorkAccounted
<1>5. WorkAccounted' /\ Progress
  BY <1>2, <1>3, <1>4, QuietStep
<1>6. TxKnown'
  BY <1>2 DEF AdapterInv, TxKnown
<1>7. PendingIsMine'
  BY <1>2 DEF AdapterInv, PendingIsMine
<1>8. coreOpen' /\ ~closed'
  BY DEF AdapterInv, Held
<1> QED BY <1>5, <1>6, <1>7, <1>8

(***************************************************************************)
(* Calls without a side effect, and the pool.                              *)
(***************************************************************************)
\* Connector.Connect gives the borrower a new session.
LEMMA ConnectStep ==
    ASSUME AdapterInv, Connect
    PROVE  AdapterInv' /\ Progress
<1> DEFINE t == FreshSession(srv)
<1>1. /\ t \in SrvType /\ t.link /\ t.pending = {} /\ ~t.tx
      /\ t.db = "configured" /\ t.commits = srv.commits
  BY DEF AdapterInv, TypeOK, SrvType, FreshSession
<1>2. srv' = t
  BY DEF Connect
<1> HIDE DEF t
<1>3. TypeOK'
  BY <1>1, <1>2 DEF AdapterInv, TypeOK, Connect, Modes, Replies
<1>4. txWork = {}
  BY DEF AdapterInv, WorkAccounted, InTx, Connect
<1>5. WorkAccounted' /\ Progress
  BY <1>1, <1>2, <1>3, <1>4, QuietStep DEF Connect
<1>6. Held' /\ TxKnown' /\ PendingIsMine' /\ CleanBorrow'
  BY <1>1, <1>2 DEF Connect, Held, TxKnown, PendingIsMine, CleanBorrow, InTx
<1> QED BY <1>3, <1>5, <1>6 DEF AdapterInv

\* Hold, GiveBack and PutConn pass the connection on as it is.
LEMMA HandOverStep ==
    ASSUME AdapterInv, Hold \/ GiveBack \/ PutConn
    PROVE  AdapterInv' /\ Progress
<1>1. /\ UNCHANGED <<srv, coreVars, connVars, txWork, mine, status, reply, leaked>>
      /\ \/ mode = "lent" /\ mode' = "conn"
         \/ mode = "conn" /\ children = 0 /\ mode' = "returned"
         \/ mode = "returned" /\ Usable /\ mode' = "pooled"
  BY DEF Hold, GiveBack, PutConn
<1> USE <1>1 DEF coreVars, connVars
<1>2. TypeOK'
  BY DEF AdapterInv, TypeOK, Modes
<1>3. WorkAccounted' /\ Progress
  BY <1>2, QuietStep DEF AdapterInv, WorkAccounted, InTx
<1>4. Held'
  BY DEF AdapterInv, TypeOK, Held, Usable
<1>5. TxKnown'
  BY DEF AdapterInv, TxKnown, CleanBorrow, InTx
<1>6. PendingIsMine' /\ CleanBorrow'
  BY DEF AdapterInv, PendingIsMine, CleanBorrow
<1> QED BY <1>2, <1>3, <1>4, <1>5, <1>6 DEF AdapterInv

\* The link goes down between two calls.
LEMMA LinkDownStep ==
    ASSUME AdapterInv, LinkDown
    PROVE  AdapterInv' /\ Progress
<1> USE DEF coreVars, connVars
<1>1. Kept(srv, srv') /\ srv \in SrvType
  BY DEF LinkDown, Kept, AdapterInv, TypeOK
<1>2. /\ srv' \in SrvType /\ srv'.commits = srv.commits /\ srv'.db = srv.db
      /\ ~srv'.link /\ srv'.pending = {} /\ ~srv'.tx
  BY <1>1, DroppedIsDropped DEF LinkDown
<1>3. TypeOK'
  BY <1>2 DEF LinkDown, AdapterInv, TypeOK
<1>4. WorkAccounted' /\ Progress
  BY <1>2, <1>3, QuietStep DEF LinkDown, AdapterInv, WorkAccounted, InTx
<1>5. Held' /\ TxKnown' /\ PendingIsMine' /\ CleanBorrow'
  BY <1>2 DEF LinkDown, AdapterInv, Held, TxKnown, PendingIsMine, CleanBorrow, InTx
<1> QED BY <1>3, <1>4, <1>5 DEF AdapterInv

\* What Ping and PrepareContext leave of the session.
LEMMA ProbeKeeps ==
    ASSUME AdapterInv, Probe
    PROVE  /\ Kept(srv, srv') /\ reply' \in {"ok", "error", "badConn"}
           /\ broken' \in BOOLEAN /\ (broken => broken')
           /\ reply' = "badConn" => broken' \/ ~Usable
<1>1. CASE ~Usable
  BY <1>1 DEF Probe, AdapterInv, TypeOK, Kept
<1>2. CASE Usable
  <2>1. PICK a \in UnderContext(srv, Exchange(srv, srv)) :
            srv' = a.srv /\ Observed(a.res) /\ SafeRetry(a.res)
    BY <1>2 DEF Probe
  <2>2. Kept(srv, srv')
    BY <2>1, ProbeOutcomes DEF AdapterInv, TypeOK
  <2>3. broken' = (broken \/ a.res = "network")
    BY <2>1 DEF Observed
  <2> QED BY <2>1, <2>2, <2>3 DEF SafeRetry, AdapterInv, TypeOK
<1> QED BY <1>1, <1>2

\* Ping and PrepareContext.
LEMMA ProbeStep ==
    ASSUME AdapterInv, Ping \/ PrepareContext
    PROVE  AdapterInv' /\ Progress
<1>1. /\ Probe
      /\ mode \in {"lent", "conn", "tx", "connTx"} /\ (mode = "lent" => children = 0)
      /\ mode' = IF mode = "lent" THEN "returned" ELSE mode
      /\ UNCHANGED <<coreVars, activeTx, closed, txWork, mine, status, leaked>>
  BY DEF Ping, PrepareContext, AdapterInv, CleanBorrow
<1> USE DEF coreVars
<1>2. /\ Kept(srv, srv') /\ reply' \in {"ok", "error", "badConn"}
      /\ broken' \in BOOLEAN /\ (broken => broken')
  BY <1>1, ProbeKeeps
<1>3. srv' \in SrvType
  BY <1>2, KeptSession DEF AdapterInv, TypeOK
<1>4. TypeOK'
  BY <1>1, <1>2, <1>3 DEF AdapterInv, TypeOK, Modes, Replies
<1>5. /\ WorkAccounted' /\ Progress /\ TxKnown' /\ PendingIsMine'
      /\ coreOpen' /\ ~closed'
  BY <1>1, <1>2, <1>4, KeptStep DEF InTx
<1>6. Held' /\ CleanBorrow'
  BY <1>1, <1>5 DEF AdapterInv, TypeOK, Held, CleanBorrow
<1> QED BY <1>4, <1>5, <1>6 DEF AdapterInv

\* QueryContext holds the connection for its rows, and RowsClose ends that.
LEMMA QueryStep ==
    ASSUME AdapterInv, QueryContext
    PROVE  AdapterInv' /\ Progress
<1>1. /\ Kept(srv, srv') /\ reply' \in {"ok", "error", "badConn"} /\ children' \in {0, 1}
      /\ broken' \in BOOLEAN /\ (broken => broken')
  <2>1. CASE ~Usable
    BY <2>1 DEF QueryContext, AdapterInv, TypeOK, Kept
  <2>2. CASE Usable
    <3>1. PICK a \in UnderContext(srv, Exchange(srv, srv)) :
              /\ srv' = a.srv /\ Observed(a.res)
              /\ reply' = IF a.res = "ok" THEN "ok" ELSE "error"
              /\ children' = IF a.res = "ok" THEN 1 ELSE 0
      BY <2>2 DEF QueryContext
    <3>2. Kept(srv, srv')
      BY <3>1, ProbeOutcomes DEF AdapterInv, TypeOK
    <3> QED BY <3>1, <3>2 DEF Observed, AdapterInv, TypeOK
  <2> QED BY <2>1, <2>2
<1>2. /\ mode \in {"lent", "conn", "tx", "connTx"}
      /\ mode' = IF mode # "lent" THEN mode
                 ELSE IF children' = 1 THEN "rows" ELSE "returned"
      /\ UNCHANGED <<coreOpen, coreTx, activeTx, closed, txWork, mine, status, leaked>>
  BY DEF QueryContext
<1>3. srv' \in SrvType
  BY <1>1, KeptSession DEF AdapterInv, TypeOK
<1>4. TypeOK'
  BY <1>1, <1>2, <1>3 DEF AdapterInv, TypeOK, Modes, Replies
<1>5. /\ WorkAccounted' /\ Progress /\ TxKnown' /\ PendingIsMine'
      /\ coreOpen' /\ ~closed'
  BY <1>1, <1>2, <1>4, KeptStep DEF InTx
<1>6. Held' /\ CleanBorrow'
  BY <1>1, <1>2, <1>5 DEF AdapterInv, Held, CleanBorrow
<1> QED BY <1>4, <1>5, <1>6 DEF AdapterInv

\* Rows.Close disturbs nothing but the rows.
LEMMA RowsCloseStep ==
    ASSUME AdapterInv, RowsClose
    PROVE  AdapterInv' /\ Progress
<1> USE DEF connVars
<1>1. /\ Kept(srv, srv') /\ children' = 0
      /\ mode \in {"conn", "tx", "connTx", "rows"}
  BY DEF RowsClose, Kept, AdapterInv, Held
<1>2. TypeOK'
  BY <1>1 DEF RowsClose, AdapterInv, TypeOK, Modes, Replies
<1>3. /\ WorkAccounted' /\ Progress /\ TxKnown' /\ PendingIsMine'
      /\ coreOpen' /\ ~closed'
  BY <1>1, <1>2, KeptStep DEF RowsClose, InTx
<1>4. Held' /\ CleanBorrow'
  BY <1>1, <1>3 DEF RowsClose, AdapterInv, Held, CleanBorrow
<1> QED BY <1>2, <1>3, <1>4 DEF AdapterInv

(***************************************************************************)
(* Transactions.                                                           *)
(***************************************************************************)
\* What core.Tx.Rollback can leave: refused or failed, nothing; otherwise
\* neither work nor transaction.
LEMMA FinishByRollback ==
    ASSUME srv \in SrvType, NEW o \in UnderContext(srv, CoreFinish(Rollback(srv)))
    PROVE  /\ o.srv \in SrvType /\ o.srv.commits = srv.commits /\ o.srv.db = srv.db
           /\ o.srv.pending \subseteq srv.pending /\ (o.srv.tx => srv.tx)
           /\ \/ o.res = "ok" /\ o.srv.pending = {} /\ ~o.srv.tx /\ coreTx
              \/ o.res # "ok" /\ Kept(srv, o.srv)
<1>1. CASE o.res # "ok" /\ Kept(srv, o.srv)
  BY <1>1, KeptSession
<1>2. CASE /\ o.res = "ok" /\ coreTx
           /\ o.srv = [srv EXCEPT !.pending = {}, !.tx = FALSE]
  BY <1>2, RolledBackSession
<1>3. CASE o = Outcome("refused", srv) \/ o = Outcome("canceled", srv)
  BY <1>1, <1>3 DEF Outcome, Kept
<1>4. CASE o \in Rollback(srv) /\ coreTx
  <2>1. o \in UnderContext(srv, Rollback(srv))
    BY <1>4 DEF UnderContext
  <2>2. \/ o.res # "ok" /\ Kept(srv, o.srv)
        \/ o.res = "ok" /\ o.srv = [srv EXCEPT !.pending = {}, !.tx = FALSE]
    BY <2>1, RollbackOutcomes DEF Kept
  <2> QED BY <1>1, <1>2, <1>4, <2>2
<1> QED BY <1>3, <1>4 DEF UnderContext, CoreFinish

\* BEGIN starts the transaction everywhere or nowhere.
LEMMA BeginStep ==
    ASSUME AdapterInv, BeginTx
    PROVE  AdapterInv' /\ Progress
<1>1. /\ mode \in {"lent", "conn"} /\ txWork' = {}
      /\ mode' = IF mode = "conn" THEN (IF reply' = "ok" THEN "connTx" ELSE "conn")
                 ELSE IF reply' = "ok" THEN "tx" ELSE "returned"
      /\ UNCHANGED <<coreOpen, children, closed, mine, status, leaked>>
  BY DEF BeginTx
<1>2. srv \in SrvType /\ txWork = {}
  BY <1>1 DEF AdapterInv, TypeOK, WorkAccounted, InTx
<1>3. CASE /\ Kept(srv, srv') /\ UNCHANGED <<activeTx, coreTx>>
           /\ broken' \in BOOLEAN /\ (broken => broken') /\ reply' \in {"error", "badConn"}
  <2>1. srv' \in SrvType
    BY <1>2, <1>3, KeptSession
  <2>2. TypeOK'
    BY <1>1, <1>3, <2>1 DEF AdapterInv, TypeOK, Modes, Replies
  <2>3. /\ WorkAccounted' /\ Progress /\ TxKnown' /\ PendingIsMine'
        /\ coreOpen' /\ ~closed'
    BY <1>1, <1>2, <1>3, <2>2, KeptStep DEF InTx
  <2>4. Held' /\ CleanBorrow'
    BY <1>1, <1>3, <2>3 DEF AdapterInv, Held, CleanBorrow
  <2> QED BY <2>2, <2>3, <2>4 DEF AdapterInv
<1>4. CASE /\ srv' = [srv EXCEPT !.tx = TRUE] /\ activeTx' /\ coreTx' /\ reply' = "ok"
           /\ activeTx' \in BOOLEAN /\ coreTx' \in BOOLEAN /\ broken' \in BOOLEAN
           /\ srv.link /\ srv.db # "none"
  <2>1. /\ srv' \in SrvType /\ srv'.commits = srv.commits /\ srv'.db = srv.db
        /\ srv'.link = srv.link /\ srv'.tx /\ srv'.pending = srv.pending
    BY <1>2, <1>4, BegunSession
  <2>2. TypeOK'
    BY <1>1, <1>4, <2>1 DEF AdapterInv, TypeOK, Modes, Replies
  <2>3. WorkAccounted' /\ Progress
    BY <1>1, <1>2, <2>1, <2>2, QuietStep
  <2>4. Held' /\ CleanBorrow'
    BY <1>1, <1>4 DEF AdapterInv, Held, CleanBorrow
  <2>5. TxKnown' /\ PendingIsMine'
    BY <1>1, <1>4, <2>1 DEF AdapterInv, TxKnown, PendingIsMine, InTx
  <2> QED BY <2>2, <2>3, <2>4, <2>5 DEF AdapterInv
<1>5. CASE ~Usable \/ activeTx \/ coreTx \/ children # 0
  BY <1>3, <1>5 DEF BeginTx, Kept, AdapterInv, TypeOK
<1>6. CASE Usable /\ ~(activeTx \/ coreTx \/ children # 0)
  <2>1. PICK a \in UnderContext(srv, BeginTransaction(srv)) :
          /\ srv' = a.srv /\ Observed(a.res)
          /\ activeTx' = (a.res = "ok")
          /\ coreTx' = (a.res = "ok")
          /\ reply' = IF a.res = "ok" THEN "ok" ELSE "error"
    BY <1>6 DEF BeginTx
  <2>2. \/ a.res # "ok" /\ Kept(srv, a.srv)
        \/ srv.link /\ srv.db # "none" /\ a.res = "ok" /\ a.srv = [srv EXCEPT !.tx = TRUE]
    BY <1>2, BeginOutcomes
  <2>3. broken' = (broken \/ a.res = "network")
    BY <2>1 DEF Observed
  <2>4. ~activeTx /\ ~coreTx /\ activeTx \in BOOLEAN /\ coreTx \in BOOLEAN /\ broken \in BOOLEAN
    BY <1>6 DEF AdapterInv, TypeOK
  <2>5. CASE a.res # "ok"
    BY <1>3, <2>1, <2>2, <2>3, <2>4, <2>5
  <2>6. CASE a.res = "ok"
    BY <1>4, <2>1, <2>2, <2>3, <2>4, <2>6
  <2> QED BY <2>5, <2>6
<1> QED BY <1>5, <1>6

\* An answer for the statements of a sql.Tx that is over.
LEMMA AnsweredStep ==
    ASSUME AdapterInv, TypeOK', NEW verdict \in {"ok", "failed", "rolledBack"},
           EndTx(verdict), mine' = mine,
           srv'.pending \subseteq srv.pending,
           \A w \in Work :
              \/ srv'.commits[w] = srv.commits[w]
              \/ w \in srv.pending /\ w \notin srv'.pending /\ srv'.commits[w] = srv.commits[w] + 1,
           verdict = "ok" => \A w \in txWork : srv'.commits[w] = 1,
           verdict = "rolledBack" => srv'.pending = {} /\ srv'.commits = srv.commits,
           verdict = "ok" => srv'.pending = {}
    PROVE  WorkAccounted' /\ Progress
<1>1. /\ srv \in SrvType /\ status \in [Work -> Statuses] /\ txWork \subseteq Work
      /\ WorkAccounted /\ srv.pending \subseteq mine
  BY DEF AdapterInv, TypeOK, PendingIsMine
<1>2. \A w \in Work : srv.commits[w] \in Nat
  BY <1>1 DEF SrvType
<1>3. /\ \A w \in Work : status'[w] = IF w \in txWork THEN verdict ELSE status[w]
      /\ txWork' = {}
  BY DEF EndTx
<1>4. ASSUME NEW w \in Work
      PROVE  /\ \/ srv'.commits[w] = srv.commits[w]
                \/ /\ srv.commits[w] = 0 /\ srv'.commits[w] = 1
                   /\ status[w] \in {"inTx", "failed"} /\ w \in mine'
             /\ status[w] = "inTx" <=> w \in txWork
             /\ w \in srv.pending => srv.commits[w] = 0 /\ status[w] \in {"inTx", "failed"}
             /\ srv.commits[w] = 1 => status[w] \in {"ok", "failed"}
             /\ status[w] = "ok" => srv.commits[w] = 1
             /\ srv.commits[w] = 0 \/ srv.commits[w] = 1
  <2>1. /\ status[w] = "inTx" <=> w \in txWork
        /\ w \in srv.pending => srv.commits[w] = 0 /\ status[w] \in {"inTx", "failed"}
        /\ srv.commits[w] = 1 => status[w] \in {"ok", "failed"}
        /\ status[w] = "ok" => srv.commits[w] = 1
        /\ srv.commits[w] = 0 \/ srv.commits[w] = 1
    BY <1>1, <1>2 DEF WorkAccounted
  <2> QED BY <2>1, <1>1
<1>5. Progress
  <2> SUFFICES ASSUME NEW w \in Work
               PROVE  /\ \/ srv'.commits[w] = srv.commits[w]
                         \/ /\ srv.commits[w] = 0 /\ srv'.commits[w] = 1
                            /\ status[w] \notin {"ok", "rolledBack"} /\ w \in mine'
                      /\ status[w] \in {"ok", "failed", "rolledBack"} => status'[w] = status[w]
                      /\ status[w] = "inTx" => status'[w] # "submitted"
    BY DEF Progress
  <2> QED BY <1>3, <1>4
<1>6. WorkAccounted'
  <2>1. ASSUME NEW w \in Work
        PROVE  /\ status'[w] = "inTx" <=> w \in txWork'
               /\ w \in srv'.pending => srv'.commits[w] = 0 /\ status'[w] \in {"inTx", "failed"}
               /\ srv'.commits[w] <= 1
               /\ srv'.commits[w] = 1 => status'[w] \in {"ok", "failed"}
               /\ status'[w] = "ok" => srv'.commits[w] = 1
    <3>1. status'[w] = "inTx" <=> w \in txWork'
      BY <1>3, <1>4
    <3>2. w \in srv'.pending => srv'.commits[w] = 0 /\ status'[w] \in {"inTx", "failed"}
      BY <1>3, <1>4
    <3>3. srv'.commits[w] <= 1
      BY <1>4
    <3>4. srv'.commits[w] = 1 => status'[w] \in {"ok", "failed"}
      BY <1>3, <1>4
    <3>5. status'[w] = "ok" => srv'.commits[w] = 1
      BY <1>3, <1>4
    <3> QED BY <3>1, <3>2, <3>3, <3>4, <3>5
  <2> QED BY <1>3, <2>1 DEF WorkAccounted
<1> QED BY <1>5, <1>6

\* What an sql.Tx leaves when it is over: the adapter and the core have
\* cleared it together, or it has broken the connection.
LEMMA FinishedStep ==
    ASSUME AdapterInv, InTx, children = 0,
           NEW verdict \in {"ok", "failed", "rolledBack"}, EndTx(verdict),
           UNCHANGED <<coreOpen, children, closed, mine, leaked>>,
           reply' \in Replies, srv' \in SrvType,
           activeTx' \in BOOLEAN, coreTx' \in BOOLEAN, broken' \in BOOLEAN,
           activeTx' <=> coreTx', activeTx' => broken', srv'.tx => activeTx',
           srv'.pending \subseteq srv.pending, srv'.db = srv.db,
           ~srv'.link => srv'.pending = {} /\ ~srv'.tx
    PROVE  TypeOK' /\ Held' /\ TxKnown' /\ PendingIsMine' /\ CleanBorrow'
<1>1. /\ mode' = IF mode = "connTx" THEN "conn" ELSE "returned"
      /\ status' = [w \in Work |-> IF w \in txWork THEN verdict ELSE status[w]]
      /\ txWork' = {} /\ mode \in {"tx", "connTx"}
  BY DEF EndTx, InTx
<1>2. status' \in [Work -> Statuses]
  BY <1>1 DEF AdapterInv, TypeOK, Statuses
<1>3. TypeOK'
  BY <1>1, <1>2 DEF AdapterInv, TypeOK, Modes
<1>4. Held' /\ TxKnown'
  BY <1>1 DEF AdapterInv, Held, TxKnown, InTx
<1>5. PendingIsMine' /\ CleanBorrow'
  BY <1>1 DEF AdapterInv, PendingIsMine, CleanBorrow
<1> QED BY <1>3, <1>4, <1>5

\* transaction.Rollback.
LEMMA TxRollbackStep ==
    ASSUME AdapterInv, TxRollback
    PROVE  AdapterInv' /\ Progress
<1>1. PICK a \in CoreFinish(Rollback(srv)) :
          /\ srv' = a.srv
          /\ coreTx' = (coreTx /\ a.res # "ok")
          /\ FinishTransaction(a.res # "ok", a.res = "ok")
          /\ reply' = IF a.res = "ok" THEN "ok" ELSE "error"
          /\ EndTx(IF a.res = "ok" THEN "rolledBack" ELSE "failed")
  BY DEF TxRollback
<1> DEFINE verdict == IF a.res = "ok" THEN "rolledBack" ELSE "failed"
<1>2. /\ InTx /\ children = 0
      /\ UNCHANGED <<coreOpen, children, closed, mine, leaked>>
  BY DEF TxRollback
<1>3. /\ srv \in SrvType /\ activeTx \in BOOLEAN /\ coreTx \in BOOLEAN
      /\ broken \in BOOLEAN /\ activeTx /\ coreTx /\ PendingIsMine
  BY <1>2 DEF AdapterInv, TypeOK, TxKnown, InTx
<1>4. /\ srv' \in SrvType /\ srv'.commits = srv.commits /\ srv'.db = srv.db
      /\ srv'.pending \subseteq srv.pending /\ (srv'.tx => srv.tx)
      /\ \/ a.res = "ok" /\ srv'.pending = {} /\ ~srv'.tx
         \/ a.res # "ok" /\ Kept(srv, srv')
  BY <1>1, <1>3, FinishByRollback DEF UnderContext
<1>5. ~srv'.link => srv'.pending = {} /\ ~srv'.tx
  BY <1>3, <1>4, KeptSession DEF PendingIsMine
<1>6. /\ activeTx' = (activeTx /\ a.res # "ok")
      /\ broken' = (broken \/ a.res # "ok")
  BY <1>1 DEF FinishTransaction
<1>7. verdict \in {"ok", "failed", "rolledBack"} /\ EndTx(verdict)
      /\ (verdict = "rolledBack" => srv'.pending = {}) /\ verdict # "ok"
  BY <1>1, <1>4
<1> HIDE DEF verdict
<1>8. reply' \in Replies
  BY <1>1 DEF Replies
<1>9. TypeOK' /\ Held' /\ TxKnown' /\ PendingIsMine' /\ CleanBorrow'
  <2>1. /\ activeTx' \in BOOLEAN /\ coreTx' \in BOOLEAN /\ broken' \in BOOLEAN
        /\ (activeTx' <=> coreTx') /\ (activeTx' => broken') /\ (srv'.tx => activeTx')
    BY <1>1, <1>3, <1>4, <1>6
  <2> QED BY <1>2, <1>4, <1>5, <1>7, <1>8, <2>1, FinishedStep
<1>10. WorkAccounted' /\ Progress
  BY <1>2, <1>4, <1>7, <1>9, AnsweredStep
<1> QED BY <1>9, <1>10 DEF AdapterInv

\* What a commit does to statements that were accounted for: each is
\* committed for the first time or not at all.
LEMMA CommitCounts ==
    ASSUME NEW s \in SrvType, NEW t, t = Committed(s) \/ t = Dropped(Committed(s))
    PROVE  /\ t \in SrvType /\ t.db = s.db /\ t.pending = {} /\ ~t.tx
           /\ t.link => s.link
           /\ \A w \in Work : t.commits[w] =
                  IF w \in s.pending THEN s.commits[w] + 1 ELSE s.commits[w]
<1>1. CASE t = Committed(s)
  BY <1>1, CommittedSession
<1>2. CASE t = Dropped(Committed(s))
  <2>1. PICK u \in SrvType : u = Committed(s)
    BY CommittedSession
  <2>2. t = Dropped(u)
    BY <1>2, <2>1
  <2>3. /\ t \in SrvType /\ ~t.link /\ t.pending = {} /\ ~t.tx
        /\ t.db = u.db /\ t.commits = u.commits
    BY <2>2, DroppedIsDropped
  <2> QED BY <2>1, <2>3, CommittedSession
<1> QED BY <1>1, <1>2

\* transaction.Commit: a commit that fails is rolled back.
LEMMA TxCommitStep ==
    ASSUME AdapterInv, TxCommit
    PROVE  AdapterInv' /\ Progress
<1>1. /\ InTx /\ children = 0
      /\ UNCHANGED <<coreOpen, children, closed, mine, leaked>>
  BY DEF TxCommit
<1>2. /\ srv \in SrvType /\ activeTx \in BOOLEAN /\ coreTx \in BOOLEAN
      /\ broken \in BOOLEAN /\ activeTx /\ coreTx /\ coreOpen /\ PendingIsMine
      /\ (srv.link => txWork \subseteq srv.pending) /\ txWork \subseteq Work
      /\ \A w \in Work : w \in srv.pending => srv.commits[w] = 0
  BY <1>1 DEF AdapterInv, TypeOK, TxKnown, InTx, Held, WorkAccounted
<1>3. PICK a \in Commit(srv) :
          IF a.res = "ok"
          THEN /\ srv' = a.srv /\ coreTx' = FALSE
               /\ FinishTransaction(FALSE, TRUE)
               /\ reply' = "ok" /\ EndTx("ok")
          ELSE CommitFailed(a)
  BY <1>1, <1>2 DEF TxCommit, CoreFinish
<1>4. \/ a.res # "ok" /\ Kept(srv, a.srv)
      \/ a.res = "network" /\ a.srv = Dropped(Committed(srv))
      \/ srv.link /\ a.res = "ok" /\ a.srv = Committed(srv)
  BY <1>2, CommitOutcomes
<1>5. CASE a.res = "ok"
  <2>1. srv.link /\ srv' = Committed(srv)
    BY <1>3, <1>4, <1>5
  <2>2. /\ srv' \in SrvType /\ srv'.db = srv.db /\ srv'.pending = {} /\ ~srv'.tx
        /\ \A w \in Work : srv'.commits[w] =
               IF w \in srv.pending THEN srv.commits[w] + 1 ELSE srv.commits[w]
    BY <1>2, <2>1, CommittedSession
  <2>3. activeTx' = FALSE /\ coreTx' = FALSE /\ broken' = broken
        /\ reply' = "ok" /\ EndTx("ok")
    BY <1>2, <1>3, <1>5 DEF FinishTransaction
  <2>4. TypeOK' /\ Held' /\ TxKnown' /\ PendingIsMine' /\ CleanBorrow'
    BY <1>1, <1>2, <2>2, <2>3, FinishedStep DEF Replies
  <2>5. \A w \in txWork : srv'.commits[w] = 1
    BY <1>2, <2>1, <2>2
  <2>6. WorkAccounted' /\ Progress
    BY <1>1, <2>2, <2>3, <2>4, <2>5, AnsweredStep
  <2> QED BY <2>4, <2>6 DEF AdapterInv
<1>6. CASE a.res # "ok"
  <2>1. PICK b \in CoreFinish(Rollback(a.srv)) :
          /\ srv' = b.srv
          /\ coreTx' = (coreTx /\ b.res # "ok")
          /\ FinishTransaction(TRUE, b.res = "ok")
          /\ reply' = "error" /\ EndTx("failed")
    BY <1>3, <1>6 DEF CommitFailed
  <2>2. b \in Rollback(a.srv)
    BY <1>1, <1>2, <2>1 DEF CoreFinish
  <2>3. /\ a.srv \in SrvType /\ a.srv.db = srv.db /\ (a.srv.tx => srv.tx)
        /\ a.srv.pending \subseteq srv.pending
        /\ (~a.srv.link => a.srv.pending = {} /\ ~a.srv.tx)
        /\ \A w \in Work :
              \/ a.srv.commits[w] = srv.commits[w]
              \/ w \in srv.pending /\ a.srv.commits[w] = srv.commits[w] + 1 /\ a.srv.pending = {}
    <3>1. CASE Kept(srv, a.srv)
      BY <1>2, <3>1, KeptSession DEF PendingIsMine
    <3>2. CASE a.srv = Dropped(Committed(srv))
      BY <1>2, <3>2, CommitCounts
    <3> QED BY <1>4, <1>6, <3>1, <3>2
  <2>4. \/ b.res # "ok" /\ Kept(a.srv, srv')
        \/ b.res = "ok" /\ srv' = [a.srv EXCEPT !.pending = {}, !.tx = FALSE]
    BY <2>1, <2>2, <2>3, RollbackOutcomes DEF UnderContext, Kept
  <2>5. /\ srv' \in SrvType /\ srv'.db = srv.db /\ (srv'.tx => srv.tx /\ b.res # "ok")
        /\ srv'.pending \subseteq a.srv.pending
        /\ (~srv'.link => srv'.pending = {} /\ ~srv'.tx)
        /\ srv'.commits = a.srv.commits
    <3>1. CASE b.res # "ok" /\ Kept(a.srv, srv')
      BY <2>3, <3>1, KeptSession
    <3>2. CASE b.res = "ok" /\ srv' = [a.srv EXCEPT !.pending = {}, !.tx = FALSE]
      BY <2>3, <3>2, RolledBackSession
    <3> QED BY <2>4, <3>1, <3>2
  <2>6. /\ activeTx' = (b.res # "ok") /\ coreTx' = (b.res # "ok") /\ broken' = TRUE
        /\ reply' = "error" /\ EndTx("failed")
    BY <1>2, <2>1 DEF FinishTransaction
  <2>7. srv'.tx => activeTx'
    BY <2>5, <2>6
  <2>8. TypeOK' /\ Held' /\ TxKnown' /\ PendingIsMine' /\ CleanBorrow'
    <3>1. /\ activeTx' \in BOOLEAN /\ coreTx' \in BOOLEAN /\ broken' \in BOOLEAN
          /\ (activeTx' <=> coreTx') /\ (activeTx' => broken') /\ reply' \in Replies
      BY <2>6 DEF Replies
    <3> QED BY <1>1, <2>3, <2>5, <2>6, <2>7, <3>1, FinishedStep
  <2>9. \A w \in Work :
              \/ srv'.commits[w] = srv.commits[w]
              \/ w \in srv.pending /\ w \notin srv'.pending /\ srv'.commits[w] = srv.commits[w] + 1
    BY <2>3, <2>5
  <2>10. WorkAccounted' /\ Progress
    BY <1>1, <2>3, <2>5, <2>6, <2>8, <2>9, AnsweredStep
  <2> QED BY <2>8, <2>10 DEF AdapterInv
<1> QED BY <1>5, <1>6

(***************************************************************************)
(* The pool.                                                               *)
(***************************************************************************)
\* Close ends the work of the borrowers, and may leave the connection behind.
LEMMA PoolCloseStep ==
    ASSUME AdapterInv, PoolClose
    PROVE  AdapterInv' /\ Progress
<1>1. /\ mode \in {"pooled", "returned"} /\ ConnClose
      /\ UNCHANGED <<children, broken, txWork, mine, status, reply>>
  BY DEF PoolClose
<1>2. /\ srv \in SrvType /\ coreTx \in BOOLEAN /\ txWork = {} /\ children = 0
      /\ PendingIsMine
  BY <1>1 DEF AdapterInv, TypeOK, Held, WorkAccounted, InTx
<1>3. PICK a \in IF activeTx THEN CoreFinish(Rollback(srv)) ELSE {Outcome("ok", srv)} :
          /\ coreTx' = (coreTx /\ a.res # "ok")
          /\ IF coreTx' \/ children # 0
             THEN srv' = a.srv /\ UNCHANGED <<coreOpen, closed>>
             ELSE srv' = Dropped(a.srv) /\ coreOpen' = FALSE /\ closed' = TRUE
  BY <1>1 DEF ConnClose
<1>4. /\ a.srv \in SrvType /\ a.srv.commits = srv.commits /\ a.srv.db = srv.db
      /\ a.srv.pending \subseteq srv.pending
      /\ (~a.srv.link => a.srv.pending = {} /\ ~a.srv.tx)
  <2>1. CASE activeTx
    <3>1. /\ a.srv \in SrvType /\ a.srv.commits = srv.commits /\ a.srv.db = srv.db
          /\ a.srv.pending \subseteq srv.pending
          /\ \/ a.srv.pending = {} /\ ~a.srv.tx
             \/ Kept(srv, a.srv)
      BY <1>2, <1>3, <2>1, FinishByRollback DEF UnderContext
    <3> QED BY <1>2, <3>1, KeptSession DEF PendingIsMine
  <2>2. CASE ~activeTx
    BY <1>2, <1>3, <2>2 DEF Outcome, PendingIsMine
  <2> QED BY <2>1, <2>2
<1>5. /\ srv' \in SrvType /\ srv'.commits = srv.commits /\ srv'.db = srv.db
      /\ srv'.pending \subseteq srv.pending
      /\ (~srv'.link => srv'.pending = {} /\ ~srv'.tx)
  <2>1. CASE srv' = a.srv
    BY <1>4, <2>1
  <2>2. CASE srv' = Dropped(a.srv)
    BY <1>4, <2>2, DroppedIsDropped
  <2> QED BY <1>3, <2>1, <2>2
<1>6. /\ activeTx' = FALSE /\ leaked' = (leaked \/ coreOpen') /\ mode' = "none"
      /\ coreTx' \in BOOLEAN /\ coreOpen' \in BOOLEAN /\ closed' \in BOOLEAN
  BY <1>1, <1>3 DEF ConnClose, AdapterInv, TypeOK
<1>7. TypeOK'
  BY <1>1, <1>2, <1>5, <1>6 DEF AdapterInv, TypeOK, Modes
<1>8. WorkAccounted' /\ Progress
  BY <1>1, <1>2, <1>5, <1>7, QuietStep
<1>9. Held' /\ TxKnown' /\ PendingIsMine' /\ CleanBorrow'
  BY <1>1, <1>2, <1>5, <1>6 DEF Held, TxKnown, PendingIsMine, CleanBorrow, InTx
<1> QED BY <1>7, <1>8, <1>9 DEF AdapterInv

\* ResetSession succeeds only when the session is as a new one.
LEMMA ResetStep ==
    ASSUME AdapterInv, ResetSession
    PROVE  AdapterInv' /\ Progress
<1>1. /\ mode = "pooled"
      /\ mine' = IF mode' = "lent" THEN {} ELSE mine
      /\ UNCHANGED <<coreOpen, children, closed, txWork, status, leaked>>
  BY DEF ResetSession
<1>2. /\ srv \in SrvType /\ coreTx \in BOOLEAN /\ activeTx \in BOOLEAN
      /\ txWork = {} /\ children = 0 /\ coreOpen /\ Usable
      /\ ~activeTx /\ ~coreTx /\ ~srv.tx /\ PendingIsMine
  BY <1>1 DEF AdapterInv, TypeOK, Held, TxKnown, WorkAccounted, InTx, Usable
\* what any of its ends leaves
<1>3. ASSUME NEW o, ResetDone(o, FALSE), o.srv \in SrvType,
             o.srv.commits = srv.commits, o.srv.pending \subseteq srv.pending, ~o.srv.tx,
             o.srv.db = "none" => o.srv.pending = {},
             ~o.srv.link => o.srv.pending = {},
             o.res = "ok" => o.srv.pending = {} /\ o.srv.db = "configured"
      PROVE  AdapterInv' /\ Progress
  <2>1. /\ srv' = o.srv /\ activeTx' = FALSE /\ coreTx' = FALSE
        /\ broken' = (o.res # "ok") /\ reply' \in Replies
        /\ mode' = IF o.res = "ok" THEN "lent" ELSE "returned"
    BY <1>2, <1>3 DEF ResetDone, Replies
  <2>2. TypeOK'
    BY <1>1, <1>3, <2>1 DEF AdapterInv, TypeOK, Modes
  <2>3. WorkAccounted' /\ Progress
    BY <1>1, <1>2, <1>3, <2>1, <2>2, QuietStep
  <2>4. Held' /\ TxKnown' /\ CleanBorrow'
    BY <1>1, <1>2, <1>3, <2>1 DEF AdapterInv, Held, TxKnown, CleanBorrow, InTx
  <2>5. PendingIsMine'
    BY <1>1, <1>2, <1>3, <2>1 DEF PendingIsMine
  <2> QED BY <2>2, <2>3, <2>4, <2>5 DEF AdapterInv
<1>4. PICK b \in UnderContext(srv, Rollback(srv)) :
          IF ~Ignorable(b.res) THEN ResetDone(b, FALSE)
          ELSE \E c \in UnderContext(b.srv, UseDatabase(b.srv, "configured")) :
                  ResetDone(c, FALSE)
  <2>1. PICK a \in {Outcome("ok", srv)} :
            IF a.res # "ok" THEN ResetDone(a, FALSE)
            ELSE \E b \in UnderContext(a.srv, Rollback(a.srv)) :
                IF ~Ignorable(b.res) THEN ResetDone(b, activeTx)
                ELSE \E c \in UnderContext(b.srv, UseDatabase(b.srv, "configured")) :
                       ResetDone(c, activeTx)
    BY <1>1, <1>2 DEF ResetSession
  <2>2. a.res = "ok" /\ a.srv = srv /\ activeTx = FALSE
    BY <1>2, <2>1 DEF Outcome
  <2> QED BY <2>1, <2>2
<1>5. /\ b.srv \in SrvType /\ b.srv.commits = srv.commits
      /\ b.srv.pending \subseteq srv.pending /\ ~b.srv.tx
      /\ (b.srv.db = "none" => b.srv.pending = {})
      /\ (~b.srv.link => b.srv.pending = {})
      /\ (Ignorable(b.res) => b.srv.pending = {})
  <2>1. CASE b.res \notin {"ok", "noDatabase"} /\ Kept(srv, b.srv)
    BY <1>2, <2>1, KeptSession DEF PendingIsMine, Ignorable
  <2>2. CASE b.res = "noDatabase" /\ srv.db = "none" /\ b.srv = srv
    BY <1>2, <2>2 DEF PendingIsMine
  <2>3. CASE b.srv = [srv EXCEPT !.pending = {}, !.tx = FALSE]
    BY <1>2, <2>3, RolledBackSession
  <2> QED BY <1>2, <2>1, <2>2, <2>3, RollbackOutcomes
<1>6. CASE ~Ignorable(b.res)
  BY <1>3, <1>4, <1>5, <1>6 DEF Ignorable
<1>7. CASE Ignorable(b.res)
  <2>1. PICK c \in UnderContext(b.srv, UseDatabase(b.srv, "configured")) : ResetDone(c, FALSE)
    BY <1>4, <1>7
  <2>2. \/ c.res # "ok" /\ (Kept(b.srv, c.srv) \/ c.srv = Dropped(Used(b.srv, "configured")))
        \/ c.res = "ok" /\ c.srv = Used(b.srv, "configured")
    BY <1>5, UseOutcomes
  <2>3. LET u == Used(b.srv, "configured")
        IN  /\ u \in SrvType /\ u.commits = srv.commits /\ u.db = "configured"
            /\ ~u.tx /\ u.pending = {}
    BY <1>5, <1>7, UsedSession
  <2>4. /\ c.srv \in SrvType /\ c.srv.commits = srv.commits /\ c.srv.pending = {}
        /\ ~c.srv.tx /\ (c.res = "ok" => c.srv.db = "configured")
    <3>1. CASE c.res # "ok" /\ Kept(b.srv, c.srv)
      BY <1>5, <1>7, <3>1, KeptSession
    <3>2. CASE c.res # "ok" /\ c.srv = Dropped(Used(b.srv, "configured"))
      BY <2>3, <3>2, DroppedIsDropped
    <3>3. CASE c.srv = Used(b.srv, "configured")
      BY <2>3, <3>3
    <3> QED BY <2>2, <3>1, <3>2, <3>3
  <2> QED BY <1>3, <2>1, <2>4
<1> QED BY <1>6, <1>7

(***************************************************************************)
(* Execution.                                                              *)
(***************************************************************************)
\* What is known of a statement that has not been answered, or of one that
\* the server still holds.
LEMMA StatementFacts ==
    ASSUME AdapterInv, NEW v \in Work
    PROVE  /\ srv.commits[v] = 0 \/ srv.commits[v] = 1
           /\ status[v] = "inTx" <=> v \in txWork
           /\ v \in srv.pending => srv.commits[v] = 0 /\ status[v] \in {"inTx", "failed"}
           /\ srv.commits[v] = 1 => status[v] \in {"ok", "failed"}
           /\ status[v] = "ok" => srv.commits[v] = 1
           /\ status[v] \in Statuses
           /\ v \in srv.pending => v \in mine
<1>1. srv.commits[v] \in Nat /\ status[v] \in Statuses
  BY DEF AdapterInv, TypeOK, SrvType
<1> QED BY <1>1 DEF AdapterInv, WorkAccounted, PendingIsMine

\* A step outside a sql.Tx: what it commits was pending or is answered now.
LEMMA AutocommitStep ==
    ASSUME AdapterInv, TypeOK', txWork = {}, txWork' = {}, mine \subseteq mine',
           \A v \in Work : \/ status'[v] = status[v]
                           \/ status[v] = "submitted" /\ status'[v] \in {"ok", "failed"},
           \A v \in srv'.pending :
              /\ srv'.commits[v] = srv.commits[v]
              /\ v \in srv.pending \/ (status[v] = "submitted" /\ status'[v] = "failed"),
           \A v \in Work :
              \/ srv'.commits[v] = srv.commits[v]
              \/ /\ srv'.commits[v] = srv.commits[v] + 1 /\ v \notin srv'.pending
                 /\ \/ v \in srv.pending
                    \/ status[v] = "submitted" /\ status'[v] # "submitted" /\ v \in mine',
           \A v \in Work : status[v] = "submitted" /\ status'[v] = "ok" =>
              srv'.commits[v] = srv.commits[v] + 1
    PROVE  WorkAccounted' /\ Progress
<1>1. srv'.pending \subseteq Work
  BY DEF TypeOK, SrvType
<1>2. ASSUME NEW v \in Work
      PROVE  /\ \/ srv'.commits[v] = srv.commits[v]
                \/ /\ srv.commits[v] = 0 /\ srv'.commits[v] = 1
                   /\ status[v] \notin {"ok", "rolledBack"} /\ v \in mine'
             /\ status[v] \in {"ok", "failed", "rolledBack"} => status'[v] = status[v]
             /\ status[v] # "inTx" /\ status'[v] # "inTx"
             /\ v \in srv'.pending => srv'.commits[v] = 0 /\ status'[v] = "failed"
             /\ srv'.commits[v] = 0 \/ srv'.commits[v] = 1
             /\ srv'.commits[v] = 1 => status'[v] \in {"ok", "failed"}
             /\ status'[v] = "ok" => srv'.commits[v] = 1
  <2>1. /\ srv.commits[v] = 0 \/ srv.commits[v] = 1
        /\ status[v] # "inTx"
        /\ v \in srv.pending => srv.commits[v] = 0 /\ status[v] = "failed" /\ v \in mine
        /\ srv.commits[v] = 1 => status[v] \in {"ok", "failed"}
        /\ status[v] = "ok" => srv.commits[v] = 1
        /\ status[v] \in Statuses
    BY <1>2, StatementFacts
  <2>2. \/ srv'.commits[v] = srv.commits[v]
        \/ /\ srv.commits[v] = 0 /\ srv'.commits[v] = 1
           /\ status[v] \in {"failed", "submitted"} /\ v \in mine' /\ status'[v] # "submitted"
    BY <1>2, <2>1
  <2>3. \/ status'[v] = status[v]
        \/ status[v] = "submitted" /\ status'[v] \in {"ok", "failed"}
    BY <1>2
  <2>4. v \in srv'.pending => srv'.commits[v] = 0 /\ status'[v] = "failed"
    BY <1>2, <2>1, <2>3
  <2>5. status'[v] = "ok" => srv'.commits[v] = 1
    BY <1>2, <2>1, <2>2, <2>3
  <2> QED BY <2>1, <2>2, <2>3, <2>4, <2>5
<1>3. Progress
  BY <1>2 DEF Progress
<1>4. WorkAccounted'
  BY <1>1, <1>2 DEF WorkAccounted
<1> QED BY <1>3, <1>4

\* An execution that failed without an effect.
LEMMA FailedExecStep ==
    ASSUME AdapterInv, TypeOK', Kept(srv, srv'), NEW w \in Work, status[w] = "submitted",
           status' = status \/ status' = [status EXCEPT ![w] = "failed"],
           txWork' = txWork, InTx <=> InTx'
    PROVE  WorkAccounted' /\ Progress
<1>1. srv \in SrvType /\ status \in [Work -> Statuses]
  BY DEF AdapterInv, TypeOK
<1>2. /\ srv'.commits = srv.commits /\ srv'.pending \subseteq srv.pending
      /\ srv' = srv \/ (~srv'.link /\ srv'.pending = {})
  BY <1>1, KeptSession
<1>3. ASSUME NEW v \in Work
      PROVE  /\ status'[v] = status[v] \/ (status[v] = "submitted" /\ status'[v] = "failed")
             /\ status'[v] = "inTx" <=> v \in txWork'
             /\ v \in srv'.pending => srv'.commits[v] = 0 /\ status'[v] \in {"inTx", "failed"}
             /\ srv'.commits[v] <= 1
             /\ srv'.commits[v] = 1 => status'[v] \in {"ok", "failed"}
             /\ status'[v] = "ok" => srv'.commits[v] = 1
  <2>1. status'[v] = status[v] \/ (status[v] = "submitted" /\ status'[v] = "failed")
    BY <1>1, <1>3
  <2> QED BY <1>2, <1>3, <2>1, StatementFacts
<1>4. Progress
  BY <1>2, <1>3 DEF Progress
<1>5. (txWork' # {} => InTx') /\ (srv'.link => txWork' \subseteq srv'.pending)
  BY <1>2 DEF AdapterInv, WorkAccounted
<1>6. WorkAccounted'
  BY <1>3, <1>5 DEF WorkAccounted
<1> QED BY <1>4, <1>6

\* An execution inside a sql.Tx.
LEMMA ExecInTxStep ==
    ASSUME AdapterInv, TypeOK', NEW w \in Work, status[w] = "submitted", InTx, InTx',
           srv.link, srv' = [srv EXCEPT !.pending = @ \union {w}],
           status' = [status EXCEPT ![w] = "inTx"], txWork' = txWork \union {w}
    PROVE  WorkAccounted' /\ Progress
<1>1. srv \in SrvType /\ status \in [Work -> Statuses]
  BY DEF AdapterInv, TypeOK
<1>2. srv'.commits = srv.commits /\ srv'.pending = srv.pending \union {w}
  BY <1>1, ExecutedSession
<1>3. ASSUME NEW v \in Work
      PROVE  /\ status'[v] = IF v = w THEN "inTx" ELSE status[v]
             /\ status'[v] = "inTx" <=> v \in txWork'
             /\ v \in srv'.pending => srv'.commits[v] = 0 /\ status'[v] \in {"inTx", "failed"}
             /\ srv'.commits[v] <= 1
             /\ srv'.commits[v] = 1 => status'[v] \in {"ok", "failed"}
             /\ status'[v] = "ok" => srv'.commits[v] = 1
  <2>1. status'[v] = IF v = w THEN "inTx" ELSE status[v]
    BY <1>1, <1>3
  <2> QED BY <1>2, <1>3, <2>1, StatementFacts
<1>4. Progress
  BY <1>2, <1>3 DEF Progress
<1>5. srv'.link => txWork' \subseteq srv'.pending
  BY <1>2 DEF AdapterInv, WorkAccounted
<1>6. WorkAccounted'
  BY <1>3, <1>5 DEF WorkAccounted
<1> QED BY <1>4, <1>6

\* A call of a borrower that leaves the transaction alone.
LEMMA CallEnds ==
    ASSUME AdapterInv, mode \in {"lent", "conn", "tx", "connTx"},
           mode' = IF mode = "lent" THEN "returned" ELSE mode,
           UNCHANGED <<coreVars, activeTx, closed, leaked>>,
           srv' \in SrvType, srv'.pending \subseteq mine', mine' \subseteq Work,
           srv'.tx => srv.tx, srv'.db = "none" => srv'.pending = {},
           ~srv'.link => srv'.pending = {} /\ ~srv'.tx,
           broken' \in BOOLEAN, broken => broken', reply' \in Replies,
           status' \in [Work -> Statuses], txWork' \subseteq Work
    PROVE  TypeOK' /\ Held' /\ TxKnown' /\ PendingIsMine' /\ CleanBorrow'
<1> USE DEF coreVars
<1>1. TypeOK'
  BY DEF AdapterInv, TypeOK, Modes
<1>2. Held'
  BY DEF AdapterInv, Held, TypeOK, CleanBorrow
<1>3. TxKnown'
  BY DEF AdapterInv, TxKnown, CleanBorrow, InTx
<1>4. PendingIsMine' /\ CleanBorrow'
  BY DEF PendingIsMine, CleanBorrow
<1> QED BY <1>1, <1>2, <1>3, <1>4

\* Every path of ExecContext.
LEMMA ExecContextStep ==
    ASSUME AdapterInv, NEW w \in Work, status[w] = "submitted",
           mode \in {"lent", "conn", "tx", "connTx"}, ExecContext(w),
           mine' = mine \union {w}, mode' = IF mode = "lent" THEN "returned" ELSE mode,
           UNCHANGED <<coreVars, activeTx, closed, leaked>>
    PROVE  AdapterInv' /\ Progress
<1> DEFINE failedOr == status' = status \/ status' = [status EXCEPT ![w] = "failed"]
<1>1. /\ srv \in SrvType /\ status \in [Work -> Statuses] /\ txWork \subseteq Work
      /\ mine \subseteq Work /\ broken \in BOOLEAN /\ activeTx \in BOOLEAN
      /\ srv.pending \subseteq mine /\ (srv.db = "none" => srv.pending = {})
      /\ (~srv.link => srv.pending = {} /\ ~srv.tx)
      /\ w \notin srv.pending /\ w \notin txWork
  <2>1. w \notin srv.pending /\ w \notin txWork
    BY StatementFacts
  <2> QED BY <2>1 DEF AdapterInv, TypeOK, PendingIsMine
<1>2. /\ [status EXCEPT ![w] = "failed"] \in [Work -> Statuses]
      /\ [status EXCEPT ![w] = "ok"] \in [Work -> Statuses]
      /\ [status EXCEPT ![w] = "inTx"] \in [Work -> Statuses]
  BY <1>1 DEF Statuses
<1>3. (InTx <=> InTx') /\ (InTx => activeTx) /\ (activeTx /\ Usable => InTx)
      /\ (~InTx => txWork = {})
  BY DEF InTx, AdapterInv, TxKnown, Usable, WorkAccounted
\* the paths without an effect
<1>4. ASSUME Kept(srv, srv'), failedOr, txWork' = txWork, reply' \in Replies,
             broken' \in BOOLEAN, broken => broken'
      PROVE  AdapterInv' /\ Progress
  <2>1. /\ srv' \in SrvType /\ srv'.db = srv.db
        /\ srv'.pending \subseteq srv.pending /\ (srv'.tx => srv.tx)
        /\ srv' = srv \/ (~srv'.link /\ srv'.pending = {} /\ ~srv'.tx)
    BY <1>1, <1>4, KeptSession
  <2>2. TypeOK' /\ Held' /\ TxKnown' /\ PendingIsMine' /\ CleanBorrow'
    <3>1. /\ srv'.pending \subseteq mine' /\ mine' \subseteq Work
          /\ (srv'.db = "none" => srv'.pending = {})
          /\ (~srv'.link => srv'.pending = {} /\ ~srv'.tx)
          /\ status' \in [Work -> Statuses] /\ txWork' \subseteq Work
      BY <1>1, <1>2, <1>4, <2>1
    <3> QED BY <1>4, <2>1, <3>1, CallEnds
  <2>3. WorkAccounted' /\ Progress
    BY <1>3, <1>4, <2>2, FailedExecStep
  <2> QED BY <2>2, <2>3 DEF AdapterInv
<1>5. CASE ~Usable \/ children # 0
  <2>1. /\ UNCHANGED <<srv, broken>>
        /\ \/ ExecFails(w, "badConn")
           \/ ExecFails(w, "error")
    BY <1>5 DEF ExecContext
  <2> QED BY <1>1, <1>4, <2>1 DEF ExecFails, Replies, Kept
<1>6. CASE Usable /\ children = 0
  <2>1. PICK a \in UnderContext(srv, Execute(srv, w)) :
           IF a.res # "ok"
           THEN srv' = a.srv /\ Observed(a.res) /\ ExecFails(w, "error")
           ELSE IF activeTx
           THEN /\ srv' = a.srv /\ reply' = "ok"
                /\ status' = [status EXCEPT ![w] = "inTx"]
                /\ txWork' = txWork \union {w}
                /\ UNCHANGED broken
           ELSE \E b \in Commit(a.srv) :
                  /\ srv' = b.srv /\ Observed(b.res)
                  /\ IF b.res = "ok"
                     THEN /\ reply' = "ok"
                          /\ status' = [status EXCEPT ![w] = "ok"]
                          /\ UNCHANGED txWork
                     ELSE ExecFails(w, "error")
    BY <1>6 DEF ExecContext
  <2>2. \/ a.res # "ok" /\ Kept(srv, a.srv)
        \/ /\ srv.link /\ srv.db # "none" /\ a.res = "ok"
           /\ a.srv = [srv EXCEPT !.pending = @ \union {w}]
    BY <1>1, ExecuteOutcomes
  <2>3. CASE a.res # "ok"
    <3>1. /\ Kept(srv, srv') /\ broken' = (broken \/ a.res = "network")
          /\ reply' = "error" /\ failedOr /\ txWork' = txWork
      BY <2>1, <2>2, <2>3 DEF Observed, ExecFails
    <3> QED BY <1>1, <1>4, <3>1 DEF Replies
  <2> DEFINE s == a.srv
  <2>4. CASE a.res = "ok"
    <3>1. /\ s \in SrvType /\ s.commits = srv.commits /\ s.db = srv.db /\ s.link = srv.link
          /\ s.tx = srv.tx /\ s.pending = srv.pending \union {w}
          /\ srv.link /\ srv.db # "none"
      <4>1. /\ srv.link /\ srv.db # "none"
            /\ s = [srv EXCEPT !.pending = @ \union {w}]
        BY <2>2, <2>4
      <4> HIDE DEF s
      <4> QED BY <1>1, <4>1, ExecutedSession
    <3>2. CASE activeTx
      <4>1. /\ srv' = s /\ reply' = "ok" /\ broken' = broken
            /\ status' = [status EXCEPT ![w] = "inTx"] /\ txWork' = txWork \union {w}
        BY <2>1, <2>4, <3>2
      <4>2. TypeOK' /\ Held' /\ TxKnown' /\ PendingIsMine' /\ CleanBorrow'
        <5>1. /\ srv'.pending \subseteq mine' /\ mine' \subseteq Work
              /\ status' \in [Work -> Statuses] /\ txWork' \subseteq Work
              /\ broken' \in BOOLEAN /\ reply' \in Replies
          BY <1>1, <1>2, <3>1, <4>1 DEF Replies
        <5> QED BY <3>1, <4>1, <5>1, CallEnds
      <4>3. WorkAccounted' /\ Progress
        BY <1>3, <1>6, <2>2, <2>4, <3>1, <3>2, <4>1, <4>2, ExecInTxStep
      <4> QED BY <4>2, <4>3 DEF AdapterInv
    <3>3. CASE ~activeTx
      <4> HIDE DEF s
      <4>1. PICK b \in Commit(s) :
                /\ srv' = b.srv /\ Observed(b.res)
                /\ IF b.res = "ok"
                   THEN /\ reply' = "ok"
                        /\ status' = [status EXCEPT ![w] = "ok"]
                        /\ UNCHANGED txWork
                   ELSE ExecFails(w, "error")
        BY <2>1, <2>4, <3>3 DEF s
      <4>2. /\ broken' = (broken \/ b.res = "network") /\ txWork' = txWork
            /\ reply' \in Replies
            /\ status' = [status EXCEPT ![w] = IF b.res = "ok" THEN "ok" ELSE "failed"]
        BY <4>1 DEF Observed, ExecFails, Replies
      <4>3. \/ b.res # "ok" /\ Kept(s, srv')
            \/ b.res # "ok" /\ srv' = Dropped(Committed(s))
            \/ b.res = "ok" /\ srv' = Committed(s)
        BY <3>1, <4>1, CommitOutcomes
      <4>4. /\ srv' \in SrvType /\ srv'.db = srv.db /\ (srv'.tx => srv.tx)
            /\ srv'.pending \subseteq srv.pending \union {w}
            /\ (~srv'.link => srv'.pending = {} /\ ~srv'.tx)
            /\ \/ b.res # "ok" /\ srv'.commits = srv.commits
               \/ /\ srv'.pending = {}
                  /\ \A v \in Work : srv'.commits[v] =
                        IF v \in srv.pending \union {w} THEN srv.commits[v] + 1
                        ELSE srv.commits[v]
        <5>1. CASE b.res # "ok" /\ Kept(s, srv')
          BY <3>1, <5>1, KeptSession
        <5>2. CASE srv' = Dropped(Committed(s)) \/ srv' = Committed(s)
          <6>1. /\ srv' \in SrvType /\ srv'.db = s.db /\ srv'.pending = {} /\ ~srv'.tx
                /\ \A v \in Work : srv'.commits[v] =
                      IF v \in s.pending THEN s.commits[v] + 1 ELSE s.commits[v]
            BY <3>1, <5>2, CommitCounts
          <6> QED BY <3>1, <6>1
        <5> QED BY <4>3, <5>1, <5>2
      <4>5. TypeOK' /\ Held' /\ TxKnown' /\ PendingIsMine' /\ CleanBorrow'
        <5>1. /\ srv'.pending \subseteq mine' /\ mine' \subseteq Work
              /\ status' \in [Work -> Statuses] /\ txWork' \subseteq Work
              /\ broken' \in BOOLEAN /\ (broken => broken')
              /\ srv'.db # "none"
          BY <1>1, <1>2, <3>1, <4>2, <4>4
        <5> QED BY <4>2, <4>4, <5>1, CallEnds
      <4>6. txWork = {}
        BY <1>3, <3>3
      <4>7. ASSUME NEW v \in Work
            PROVE  status'[v] = IF v = w THEN (IF b.res = "ok" THEN "ok" ELSE "failed")
                                ELSE status[v]
        BY <1>1, <4>2
      <4>8. \A v \in Work : \/ status'[v] = status[v]
                            \/ status[v] = "submitted" /\ status'[v] \in {"ok", "failed"}
        BY <4>7
      <4>9. \A v \in srv'.pending :
              /\ srv'.commits[v] = srv.commits[v]
              /\ v \in srv.pending \/ (status[v] = "submitted" /\ status'[v] = "failed")
        BY <1>1, <4>4, <4>7
      <4>10. \A v \in Work :
              \/ srv'.commits[v] = srv.commits[v]
              \/ /\ srv'.commits[v] = srv.commits[v] + 1 /\ v \notin srv'.pending
                 /\ \/ v \in srv.pending
                    \/ status[v] = "submitted" /\ status'[v] # "submitted" /\ v \in mine'
        BY <4>4, <4>7
      <4>11. \A v \in Work : status[v] = "submitted" /\ status'[v] = "ok" =>
              srv'.commits[v] = srv.commits[v] + 1
        BY <4>4, <4>7
      <4>12. WorkAccounted' /\ Progress
        BY <4>2, <4>5, <4>6, <4>8, <4>9, <4>10, <4>11, AutocommitStep
      <4> QED BY <4>5, <4>12 DEF AdapterInv
    <3> QED BY <3>2, <3>3
  <2> QED BY <2>3, <2>4
<1> QED BY <1>5, <1>6 DEF AdapterInv, TypeOK

\* DB.Exec, Tx.Exec, Conn.Exec and the same through a sql.Stmt.
LEMMA ExecStep ==
    ASSUME AdapterInv, NEW w \in Work, Exec(w)
    PROVE  AdapterInv' /\ Progress
  BY ExecContextStep DEF Exec

\* sql.Stmt.Exec: PrepareContext, then ExecContext.
LEMMA StmtExecStep ==
    ASSUME AdapterInv, NEW w \in Work, StmtExec(w)
    PROVE  AdapterInv' /\ Progress
<1>1. /\ mode \in {"lent", "tx", "conn", "connTx"} /\ status[w] = "submitted"
      /\ mode' = IF mode = "lent" THEN "returned" ELSE mode
      /\ UNCHANGED <<coreVars, activeTx, closed, leaked>>
  BY DEF StmtExec
<1>2. CASE ExecContext(w) /\ mine' = mine \union {w}
  BY <1>1, <1>2, ExecContextStep
<1>3. CASE /\ Probe /\ UNCHANGED <<txWork, mine>>
           /\ status' = IF reply' = "badConn" /\ mode = "lent" THEN status
                        ELSE [status EXCEPT ![w] = "failed"]
  <2>1. /\ Kept(srv, srv') /\ reply' \in Replies
        /\ broken' \in BOOLEAN /\ (broken => broken')
    BY <1>3, ProbeKeeps DEF Replies
  <2>2. /\ srv \in SrvType /\ PendingIsMine /\ status \in [Work -> Statuses]
        /\ txWork \subseteq Work /\ mine \subseteq Work
    BY DEF AdapterInv, TypeOK
  <2>3. /\ srv' \in SrvType /\ srv'.db = srv.db
        /\ srv'.pending \subseteq srv.pending /\ (srv'.tx => srv.tx)
        /\ srv' = srv \/ (~srv'.link /\ srv'.pending = {} /\ ~srv'.tx)
    BY <2>1, <2>2, KeptSession
  <2>4. /\ srv'.pending \subseteq mine' /\ mine' \subseteq Work
        /\ (srv'.db = "none" => srv'.pending = {})
        /\ (~srv'.link => srv'.pending = {} /\ ~srv'.tx)
        /\ status' \in [Work -> Statuses] /\ txWork' \subseteq Work
    <3>1. [status EXCEPT ![w] = "failed"] \in [Work -> Statuses]
      BY <2>2 DEF Statuses
    <3>2. status' \in [Work -> Statuses]
      BY <1>3, <2>2, <3>1
    <3> QED BY <1>3, <2>2, <2>3, <3>2 DEF PendingIsMine
  <2>5. TypeOK' /\ Held' /\ TxKnown' /\ PendingIsMine' /\ CleanBorrow'
    BY <1>1, <2>1, <2>3, <2>4, CallEnds
  <2>6. WorkAccounted' /\ Progress
    <3>1. InTx <=> InTx'
      BY <1>1 DEF InTx
    <3> QED BY <1>1, <1>3, <2>1, <2>5, <3>1, FailedExecStep
  <2> QED BY <2>5, <2>6 DEF AdapterInv
<1> QED BY <1>2, <1>3 DEF StmtExec

\* A statement that selects another database is committed like any other.
LEMMA SwitchDatabaseStep ==
    ASSUME AdapterInv, NEW name \in {"other", "none"}, SwitchDatabase(name)
    PROVE  AdapterInv' /\ Progress
<1>1. /\ mode \in {"lent", "conn"}
      /\ mode' = IF mode = "lent" THEN "returned" ELSE mode
      /\ UNCHANGED <<coreVars, activeTx, closed, txWork, mine, status, leaked>>
  BY DEF SwitchDatabase
<1>2. /\ srv \in SrvType /\ PendingIsMine /\ status \in [Work -> Statuses]
      /\ txWork = {} /\ mine \subseteq Work /\ broken \in BOOLEAN
  BY <1>1 DEF AdapterInv, TypeOK, WorkAccounted, InTx
\* what the statement itself leaves
<1>3. ASSUME NEW s, Kept(srv, s) \/ s = Dropped(Used(srv, name)) \/ s = Used(srv, name)
      PROVE  /\ s \in SrvType /\ s.commits = srv.commits /\ (s.tx => srv.tx)
             /\ s.pending \subseteq srv.pending /\ (s.db = "none" => s.pending = {})
             /\ (~s.link => s.pending = {} /\ ~s.tx)
  <2>1. CASE Kept(srv, s)
    BY <1>2, <2>1, KeptSession DEF PendingIsMine
  <2>2. CASE s = Used(srv, name)
    <3>1. /\ s \in SrvType /\ s.commits = srv.commits /\ s.db = name /\ s.link = srv.link
          /\ s.tx = srv.tx /\ s.pending \subseteq srv.pending
          /\ (name = "none" => s.pending = {})
      BY <1>2, <2>2, UsedSession
    <3> QED BY <1>2, <3>1 DEF PendingIsMine
  <2>3. CASE s = Dropped(Used(srv, name))
    <3>1. PICK u \in SrvType : u = Used(srv, name) /\ u.commits = srv.commits
      BY <1>2, UsedSession
    <3>2. s = Dropped(u)
      BY <2>3, <3>1
    <3> QED BY <3>1, <3>2, DroppedIsDropped
  <2> QED BY <1>3, <2>1, <2>2, <2>3
\* what the whole call leaves
<1>4. ASSUME srv' \in SrvType, srv'.pending \subseteq srv.pending, srv'.tx => srv.tx,
             srv'.db = "none" => srv'.pending = {},
             ~srv'.link => srv'.pending = {} /\ ~srv'.tx,
             reply' \in {"ok", "error"}, NEW r, Observed(r),
             \/ srv'.commits = srv.commits
             \/ /\ srv'.pending = {}
                /\ \A v \in Work : \/ srv'.commits[v] = srv.commits[v]
                                   \/ v \in srv.pending /\ srv'.commits[v] = srv.commits[v] + 1
      PROVE  AdapterInv' /\ Progress
  <2>1. TypeOK' /\ Held' /\ TxKnown' /\ PendingIsMine' /\ CleanBorrow'
    <3>1. /\ srv'.pending \subseteq mine' /\ mine' \subseteq Work
          /\ broken' \in BOOLEAN /\ (broken => broken') /\ reply' \in Replies
          /\ status' \in [Work -> Statuses] /\ txWork' \subseteq Work
      BY <1>1, <1>2, <1>4 DEF PendingIsMine, Observed, Replies
    <3> QED BY <1>1, <1>4, <3>1, CallEnds
  <2>2. \A v \in srv'.pending : srv'.commits[v] = srv.commits[v] /\ v \in srv.pending
    BY <1>4
  <2>3. \A v \in Work :
          \/ srv'.commits[v] = srv.commits[v]
          \/ srv'.commits[v] = srv.commits[v] + 1 /\ v \notin srv'.pending /\ v \in srv.pending
    BY <1>4
  <2>4. WorkAccounted' /\ Progress
    BY <1>1, <1>2, <2>1, <2>2, <2>3, AutocommitStep
  <2> QED BY <2>1, <2>4 DEF AdapterInv
<1>5. PICK a \in UnderContext(srv, UseDatabase(srv, name)) :
          IF a.res # "ok"
          THEN srv' = a.srv /\ Observed(a.res) /\ reply' = "error"
          ELSE \E b \in Commit(a.srv) :
                  /\ srv' = b.srv /\ Observed(b.res)
                  /\ reply' = IF b.res = "ok" THEN "ok" ELSE "error"
  BY DEF SwitchDatabase
<1>6. Kept(srv, a.srv) \/ a.srv = Dropped(Used(srv, name)) \/ a.srv = Used(srv, name)
  BY <1>2, UseOutcomes
<1>7. CASE a.res # "ok"
  BY <1>3, <1>4, <1>5, <1>6, <1>7
<1>8. CASE a.res = "ok"
  <2>1. PICK b \in Commit(a.srv) :
            /\ srv' = b.srv /\ Observed(b.res)
            /\ reply' = IF b.res = "ok" THEN "ok" ELSE "error"
    BY <1>5, <1>8
  <2>2. PICK s \in SrvType : /\ s = a.srv /\ s.commits = srv.commits /\ (s.tx => srv.tx)
                             /\ s.pending \subseteq srv.pending
                             /\ (s.db = "none" => s.pending = {})
                             /\ (~s.link => s.pending = {} /\ ~s.tx)
    BY <1>3, <1>6
  <2>3. Kept(s, srv') \/ srv' = Dropped(Committed(s)) \/ srv' = Committed(s)
    BY <2>1, <2>2, CommitOutcomes
  <2>4. CASE Kept(s, srv')
    <3>1. /\ srv' \in SrvType /\ srv'.commits = s.commits /\ srv'.db = s.db
          /\ srv'.pending \subseteq s.pending /\ (srv'.tx => s.tx)
          /\ srv' = s \/ (~srv'.link /\ srv'.pending = {} /\ ~srv'.tx)
      BY <2>2, <2>4, KeptSession
    <3> QED BY <1>4, <2>1, <2>2, <3>1
  <2>5. CASE srv' = Dropped(Committed(s)) \/ srv' = Committed(s)
    <3>1. /\ srv' \in SrvType /\ srv'.pending = {} /\ ~srv'.tx
          /\ \A v \in Work : srv'.commits[v] =
                IF v \in s.pending THEN s.commits[v] + 1 ELSE s.commits[v]
      BY <2>2, <2>5, CommitCounts
    <3>2. \A v \in Work : \/ srv'.commits[v] = srv.commits[v]
                          \/ v \in srv.pending /\ srv'.commits[v] = srv.commits[v] + 1
      BY <2>2, <3>1
    <3> QED BY <1>4, <2>1, <3>1, <3>2
  <2> QED BY <2>3, <2>4, <2>5
<1> QED BY <1>7, <1>8

(***************************************************************************)
(* Theorems.                                                               *)
(***************************************************************************)
\* No step of any call, of the pool or of the network leaves AdapterInv.
LEMMA AdapterStep ==
    ASSUME AdapterInv, Next
    PROVE  AdapterInv' /\ Progress
<1>1. CASE Connect
  BY <1>1, ConnectStep
<1>2. CASE ResetSession
  BY <1>2, ResetStep
<1>3. CASE PoolClose
  BY <1>3, PoolCloseStep
<1>4. CASE Hold \/ GiveBack \/ PutConn
  BY <1>4, HandOverStep
<1>5. CASE \E w \in Work : Exec(w) \/ StmtExec(w)
  BY <1>5, ExecStep, StmtExecStep
<1>6. CASE \E name \in {"other", "none"} : SwitchDatabase(name)
  BY <1>6, SwitchDatabaseStep
<1>7. CASE Ping \/ PrepareContext
  BY <1>7, ProbeStep
<1>8. CASE QueryContext
  BY <1>8, QueryStep
<1>9. CASE RowsClose
  BY <1>9, RowsCloseStep
<1>10. CASE BeginTx
  BY <1>10, BeginStep
<1>11. CASE TxCommit
  BY <1>11, TxCommitStep
<1>12. CASE TxRollback
  BY <1>12, TxRollbackStep
<1>13. CASE LinkDown
  BY <1>13, LinkDownStep
<1> QED
  BY <1>1, <1>2, <1>3, <1>4, <1>5, <1>6, <1>7, <1>8, <1>9, <1>10, <1>11, <1>12, <1>13
  DEF Next

\* No connection and no statement executed is a state of AdapterInv.
LEMMA AdapterStart == Init => AdapterInv
<1> SUFFICES ASSUME Init PROVE AdapterInv
  OBVIOUS
<1>1. TypeOK
  BY DEF Init, TypeOK, SrvType, Modes, Statuses, Replies
<1>2. Held /\ TxKnown /\ PendingIsMine /\ CleanBorrow
  BY DEF Init, Held, TxKnown, PendingIsMine, CleanBorrow, InTx
<1>3. WorkAccounted
  BY DEF Init, WorkAccounted
<1> QED BY <1>1, <1>2, <1>3 DEF AdapterInv

\* The adapter, the pool and the server stay in agreement, however many
\* statements are executed and wherever calls fail.
THEOREM AdapterInvariant == Spec => []AdapterInv
<1>1. AdapterInv /\ [Next]_vars => AdapterInv'
  <2> SUFFICES ASSUME AdapterInv, [Next]_vars PROVE AdapterInv'
    OBVIOUS
  <2>1. CASE Next
    BY <2>1, AdapterStep
  <2>2. CASE UNCHANGED vars
    BY <2>2 DEF vars, coreVars, connVars, AdapterInv, TypeOK, Held, TxKnown, PendingIsMine,
                CleanBorrow, WorkAccounted, InTx
  <2> QED BY <2>1, <2>2
<1> QED BY <1>1, AdapterStart, PTL DEF Spec

\* The values of conn and of the pool keep their types.
THEOREM AdapterTypes == Spec => []TypeOK
  BY AdapterInvariant, PTL DEF AdapterInv

\* ExecContext never asks database/sql to retry what may have been executed:
\* no statement is committed twice.
THEOREM CommittedAtMostOnce == Spec => []AtMostOnce
<1>1. AdapterInv => AtMostOnce
  BY DEF AdapterInv, WorkAccounted, AtMostOnce
<1> QED BY <1>1, AdapterInvariant, PTL

\* ExecContext, transaction.Commit and transaction.Rollback report success
\* only of what the server has done.
THEOREM ReportsAreTrue == Spec => []AnswersAreTrue
<1>1. AdapterInv => AnswersAreTrue
  <2> SUFFICES ASSUME AdapterInv, NEW w \in Work
               PROVE  /\ status[w] = "ok" => srv.commits[w] = 1
                      /\ status[w] = "rolledBack" => srv.commits[w] = 0
    BY DEF AnswersAreTrue
  <2> QED BY StatementFacts
<1> QED BY <1>1, AdapterInvariant, PTL

\* ResetSession hands a connection out only when nothing of the earlier
\* borrower is left in it.
THEOREM BorrowsAreClean == Spec => []CleanBorrow
  BY AdapterInvariant, PTL DEF AdapterInv

\* activeTx of the adapter and txActive of the core never part while the pool
\* has the connection, and nothing of an open sql.Tx is committed.
THEOREM TransactionsAgree == Spec => []TxAgreement
<1>1. AdapterInv => TxAgreement
  <2> SUFFICES ASSUME AdapterInv PROVE TxAgreement
    OBVIOUS
  <2>1. \A w \in txWork : srv.commits[w] = 0
    <3> SUFFICES ASSUME NEW w \in txWork PROVE srv.commits[w] = 0
      OBVIOUS
    <3>1. w \in Work
      BY DEF AdapterInv, TypeOK
    <3> QED BY <3>1, StatementFacts
  <2>2. InTx => mode # "none"
    BY DEF InTx
  <2> QED BY <2>1, <2>2 DEF AdapterInv, TxKnown, TxAgreement
<1> QED BY <1>1, AdapterInvariant, PTL

\* What a commit makes durable was executed by the borrower that commits.
THEOREM NobodyCommitsForOthers == Spec => OnlyOwnWorkCommitted
<1>1. ASSUME AdapterInv, [Next]_vars
      PROVE  [\A w \in Work : srv'.commits[w] > srv.commits[w] => w \in mine']_vars
  <2>1. CASE Next
    <3> SUFFICES ASSUME NEW w \in Work, srv'.commits[w] > srv.commits[w]
                 PROVE  w \in mine'
      OBVIOUS
    <3>1. Progress /\ srv.commits[w] \in Nat
      BY <1>1, <2>1, AdapterStep DEF AdapterInv, TypeOK, SrvType
    <3>2. srv'.commits[w] # srv.commits[w]
      BY <3>1
    <3> QED BY <3>1, <3>2 DEF Progress
  <2>2. CASE UNCHANGED vars
    BY <2>2
  <2> QED BY <1>1, <2>1, <2>2
<1> QED BY <1>1, AdapterInvariant, PTL DEF Spec, OnlyOwnWorkCommitted

\* One step of the adapter is one step of Outcomes: the statements it commits
\* were neither committed nor reported committed or rolled back before.
LEMMA StepIsAbstract ==
    ASSUME AdapterInv, Next
    PROVE  Abstract!Next
<1>1. AdapterInv' /\ Progress
  BY AdapterStep
<1>2. /\ srv.commits \in [Work -> Nat] /\ srv'.commits \in [Work -> Nat]
      /\ status' \in [Work -> Statuses]
  BY <1>1 DEF AdapterInv, TypeOK, SrvType
<1> DEFINE now == {w \in Work : srv'.commits[w] # srv.commits[w]}
<1>3. now \in SUBSET {w \in Work : srv.commits[w] = 0 /\ status[w] \notin {"ok", "rolledBack"}}
  BY <1>1 DEF Progress
<1>4. srv'.commits = [w \in Work |-> IF w \in now THEN 1 ELSE srv.commits[w]]
  BY <1>1, <1>2 DEF Progress
<1> HIDE DEF now
<1>5. status' \in [Work -> {"ok", "failed", "rolledBack"} \union {"submitted", "inTx"}]
  BY <1>2 DEF Statuses
<1>6. ASSUME NEW w \in Work
      PROVE  /\ status[w] \in {"ok", "failed", "rolledBack"} => status'[w] = status[w]
             /\ status[w] = "inTx" => status'[w] # "submitted"
             /\ status'[w] = "ok" => srv'.commits[w] = 1
             /\ status'[w] = "rolledBack" => srv'.commits[w] = 0
  <2>1. /\ status[w] \in {"ok", "failed", "rolledBack"} => status'[w] = status[w]
        /\ status[w] = "inTx" => status'[w] # "submitted"
    BY <1>1, <1>6 DEF Progress
  <2>2. /\ srv'.commits[w] <= 1 /\ srv'.commits[w] \in Nat
        /\ srv'.commits[w] = 1 => status'[w] \in {"ok", "failed"}
        /\ status'[w] = "ok" => srv'.commits[w] = 1
    BY <1>1, <1>2, <1>6 DEF AdapterInv, WorkAccounted
  <2> QED BY <2>1, <2>2
<1> QED BY <1>3, <1>4, <1>5, <1>6 DEF Abstract!Next, Abstract!Final

\* The adapter and the pool implement Outcomes, what applications rely on.
THEOREM AdapterImplementsOutcomes == Spec => ImplementsOutcomes
<1>1. Init => Abstract!Init
  BY DEF Init, Abstract!Init
<1>2. AdapterInv /\ [Next]_vars => [Abstract!Next]_(Abstract!vars)
  <2> SUFFICES ASSUME AdapterInv, [Next]_vars PROVE [Abstract!Next]_(Abstract!vars)
    OBVIOUS
  <2>1. CASE Next
    BY <2>1, StepIsAbstract
  <2>2. CASE UNCHANGED vars
    BY <2>2 DEF vars, Abstract!vars
  <2> QED BY <2>1, <2>2
<1> QED BY <1>1, <1>2, AdapterInvariant, PTL DEF Spec, Abstract!Spec, ImplementsOutcomes
=============================================================================
