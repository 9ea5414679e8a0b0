-------------------------- MODULE MigrationProofs --------------------------
(***************************************************************************)
(* Proofs about Migration, for any shards, documents, migrations and       *)
(* failovers: a coordinator document says what the config server did, the  *)
(* owner of the chunk has no range deletion that may run, it has every     *)
(* acknowledged document, and no orphan is left without a task.            *)
(*                                                                         *)
(* What a shard may fail over to matters only as a set of states, of which *)
(* one is the primary's; a migration matters to the others only for as     *)
(* long as the config server may still commit it.                          *)
(***************************************************************************)
EXTENDS Migration, TLAPS

(* The states of a shard that a new primary may start from. *)
States(s) == {log[s][i] : i \in DOMAIN log[s]}

Begun(m) == from(m) # None

(* Where the thread that began a migration may still send its commit, and  *)
(* where a thread knows no outcome and where it has made one durable.      *)
Starting == {"persistCoordinator", "persistTask"}
Cloning == {"cloning", "critical", "cloneCompleted"}
Before == Starting \cup Cloning
Undecided == Before \cup {"committing", "confirm", "ensure", "refresh"}
Completing == {"persistDecision", "advance", "recipientTask", "donorTask", "forget"}
Pc == Undecided \cup Completing \cup {"idle", "recover", "decide", "done"}

Request == {"recvChunkStart", "recvChunkCommit", "received", "commit", "advanceTransaction",
            "deleteTask", "readyTask"}

(* The config server may still commit the migration. *)
Live(m) == /\ Begun(m)
           /\ config.version = mig[m].version
           /\ \/ sent("commit", m)
              \/ \E t \in 0 .. MaxTerm : thr[m][t].pc \in Before

Aborted(m) == m \notin committed /\ ~Live(m)

(* The recipient takes part in the migration no more, whoever is primary. *)
Closed(m) == \A st \in States(to(m)) : st.txn[m]

(* Every primary of the donor knows of the migration. *)
Bound(m) == \A st \in States(from(m)) : st.coord[m] # "none"

-----------------------------------------------------------------------------
(* Types, by the parts of the state that actions leave alone together. *)

Thread == [pc : Pc, decision : {"none", "committed", "aborted"}, critSec : BOOLEAN]
Receive == [m : 0 .. MaxMigrations,
            state : {"none", "ready", "clone", "steady", "commitStart"},
            batch : SUBSET Doc, empty : BOOLEAN, after : BOOLEAN]
Deletion == [step : {"none", "submitted", "scheduled", "replicate"}, again : BOOLEAN]

ConfigType ==
    /\ config \in [owner : Shard, version : Version]
    /\ committed \subseteq Migrations
    /\ mig \in [Migrations -> [from : Shard \cup {None}, to : Shard \cup {None},
                               version : Version]]
LogType ==
    /\ log \in [Shard -> Seq(State)]
    /\ \A s \in Shard : Len(log[s]) \in 1 .. MaxUncommitted + 1
MetaType == meta \in [Shard -> Metadata]
RecvType == recv \in [Shard -> Receive]
DelType == del \in [Shard -> [Migrations -> Deletion]]
ThrType == thr \in [Migrations -> [0 .. MaxTerm -> Thread]]
MsgType == msgs \subseteq [type : Request, m : Migrations]

TypeInv ==
    /\ ConfigType /\ LogType /\ MetaType /\ RecvType /\ DelType /\ ThrType /\ MsgType
    /\ term \in [Shard -> 0 .. MaxTerm]
    /\ acked \subseteq Doc

(* Versions: each is one more than what some migration found, and the      *)
(* chunk has not moved while its version is what a migration found.        *)
MigrationOK(m) ==
    /\ ~Begun(m) => mig[m] = NoMigration
    /\ Begun(m) => /\ from(m) \in Shard /\ to(m) \in Shard /\ to(m) # from(m)
                   /\ mig[m].version \in 1 .. config.version
                   /\ mig[m].version <= m
                   /\ \A k \in Migrations : k < m => Begun(k)
                   /\ mig[m].version = config.version => config.owner = from(m)

VersionInv ==
    /\ config.version >= 1
    /\ config.version = 1 \/ \E k \in Migrations : /\ Begun(k)
                                                  /\ config.version = mig[k].version + 1
    /\ \A m \in Migrations : MigrationOK(m)

(* Nothing is known of a migration before it begins. *)
UnknownOK(m) ==
    ~Begun(m) =>
        /\ \A t \in 0 .. MaxTerm : thr[m][t] = NoThread
        /\ \A type \in Request : ~sent(type, m)
        /\ m \notin committed
        /\ \A s \in Shard : /\ recv[s].m # m
                            /\ \A st \in States(s) : st.coord[m] = "none" /\ st.task[m] = "none"

(* What a message says. *)
MessageOK(m) ==
    /\ recv[to(m)].m = m => ~sent("recvChunkStart", m)
    /\ sent("received", m) => ~sent("recvChunkStart", m) /\ recv[to(m)].m # m
    /\ sent("commit", m) => sent("received", m)
    /\ m \in committed => sent("commit", m) /\ mig[m].version < config.version
    /\ sent("deleteTask", m) => m \in committed /\ Closed(m)
    /\ sent("readyTask", m) => Aborted(m) /\ Closed(m)
    /\ sent("recvChunkStart", m) \/ recv[to(m)].m = m => Bound(m) \/ Closed(m)

Correct(m, decision) == \/ decision = "committed" /\ m \in committed
                        \/ decision = "aborted" /\ Aborted(m)

(* What a thread of the donor knows, deposed or not. *)
ThreadOK(m, t) ==
    /\ t > term[from(m)] => thr[m][t] = NoThread
    /\ thr[m][t].pc \in Before =>
         /\ ~sent("commit", m)
         /\ \A u \in 0 .. MaxTerm : thr[m][u].pc \in Before => u = t
    /\ thr[m][t].pc \in Starting =>
         /\ ~sent("recvChunkStart", m)
         /\ recv[to(m)].m # m
    /\ thr[m][t].pc = "persistTask" => Bound(m) \/ Closed(m)
    /\ thr[m][t].pc \in Starting \cup {"cloning"} =>
         /\ ~sent("recvChunkCommit", m) /\ ~sent("received", m)
         /\ recv[to(m)].m = m => recv[to(m)].state # "commitStart"
    /\ thr[m][t].pc = "cloneCompleted" => sent("received", m)
    /\ thr[m][t].pc \in {"critical", "cloneCompleted", "committing", "confirm"} => thr[m][t].critSec
    /\ thr[m][t].pc = "confirm" => m \in committed
    /\ thr[m][t].pc = "refresh" => mig[m].version < config.version
    /\ thr[m][t].pc \in Completing => Correct(m, thr[m][t].decision)
    /\ thr[m][t].pc \in {"recipientTask", "donorTask", "forget"} => Closed(m)

(* The thread of the current primary and its coordinator document. *)
Agree(m, thread, coord) ==
    /\ thread.pc \in {"idle", "done"} <=> coord = "none"
    /\ thread.pc \in Undecided => coord = "unknown"
    /\ thread.pc = "decide" => /\ coord = "unknown" \/ coord = thread.decision
                               /\ Correct(m, thread.decision)
    /\ thread.pc \in Completing => coord = thread.decision

DocumentOK(m) == Agree(m, thr[m][term[from(m)]], primary(from(m)).coord[m])

(* A coordinator document, wherever it may survive: there is one at most,  *)
(* and the chunk has left the shard exactly if its migration committed.    *)
CoordOK(s, st, m) ==
    st.coord[m] # "none" =>
        /\ from(m) = s
        /\ \A k \in Migrations : st.coord[k] # "none" => k = m
        /\ st.coord[m] # "unknown" => Correct(m, st.coord[m])
        /\ m \in committed <=> config.owner # s

(* A range deletion task, wherever it may survive. *)
TaskOK(s, st, m) ==
    st.task[m] # "none" =>
        /\ s \in {from(m), to(m)}
        /\ st.task[m] = "ready" /\ from(m) = s => m \in committed /\ config.owner # s
        /\ st.task[m] = "ready" /\ to(m) = s => Aborted(m)
        /\ to(m) = s /\ m \notin committed => config.owner # s

(* While the config server may still commit a migration, both sides keep   *)
(* what it needs, and the recipient has nothing else to do with the chunk. *)
Reserved(m, st) ==
    st.task[m] # "none" =>
        /\ st.task[m] = "pending"
        /\ \A k \in Migrations : st.coord[k] = "none" /\ (k # m => st.task[k] = "none")

LiveOK(m) ==
    Live(m) =>
        /\ \/ sent("commit", m)
           \/ \E t \in 0 .. MaxTerm : thr[m][t].pc \in Before \ {"persistCoordinator"}
           => \A st \in States(from(m)) : st.coord[m] = "unknown"
        /\ sent("commit", m) \/ (\E t \in 0 .. MaxTerm : thr[m][t].pc \in Cloning)
           => \A st \in States(from(m)) : st.task[m] = "pending"
        /\ sent("received", m) => \A st \in States(to(m)) : st.task[m] = "pending"
        /\ \A st \in States(to(m)) : Reserved(m, st)

(* The migrate thread of a recipient. *)
ReceiveOK(s, r, st) ==
    /\ r.m = 0 => r = NoReceive
    /\ r.m # 0 =>
         /\ to(r.m) = s
         /\ r.state # "none"
         /\ ~st.txn[r.m]
         /\ \A k \in Migrations : st.coord[k] = "none"
         /\ r.state # "ready" => /\ st.task[r.m] = "pending"
                                 /\ \A k \in Migrations : k # r.m => st.task[k] = "none"
         /\ r.empty => \A u \in States(s) : u.task[r.m] = "pending"
         /\ r.after => r.state = "commitStart"
         /\ r.empty \/ r.batch # {} => r.state # "ready"

ControlInv ==
    /\ TypeInv
    /\ VersionInv
    /\ \A m \in Migrations : UnknownOK(m)
    /\ \A m \in Migrations : Begun(m) => MessageOK(m)
    /\ \A m \in Migrations : Begun(m) => \A t \in 0 .. MaxTerm : ThreadOK(m, t)
    /\ \A m \in Migrations : Begun(m) => DocumentOK(m)
    /\ \A s \in Shard : \A st \in States(s) : \A m \in Migrations : CoordOK(s, st, m)
    /\ \A s \in Shard : \A st \in States(s) : \A m \in Migrations : TaskOK(s, st, m)
    /\ \A m \in Migrations : LiveOK(m)
    /\ \A s \in Shard : ReceiveOK(s, recv[s], primary(s))
    /\ \A s \in Shard, m \in Migrations :
           del[s][m].step = "replicate" => primary(s).task[m] = "ready"

-----------------------------------------------------------------------------
(* The critical section, or a recovery that has not found out the outcome  *)
(* yet, keeps the primary from taking writes.                              *)
Blocking == {"critical", "cloneCompleted", "committing", "confirm", "ensure", "refresh"}

Blocks(m, s) ==
    /\ from(m) = s
    /\ \/ thr[m][term[s]].pc \in Blocking
       \/ thr[m][term[s]].pc = "recover" /\ primary(s).coord[m] = "unknown"

Blocked(s) == \E m \in Migrations : Blocks(m, s)

MetaInv == \A s \in Shard : meta[s].owner = s => config.owner = s \/ Blocked(s)

(* Where the acknowledged documents are. *)
HasAcked(s) == \A st \in States(s) : acked \subseteq st.docs

DocsInv ==
    /\ HasAcked(config.owner)
    /\ \A m \in Migrations : Live(m) =>
         /\ sent("received", m) => HasAcked(to(m))
         /\ recv[to(m)].m = m /\ recv[to(m)].after /\ recv[to(m)].empty
            => acked \subseteq primary(to(m)).docs

(* An orphan goes with a task that only its deletion ends. *)
OrphanInv ==
    /\ \A s \in Shard \ {config.owner} : \A st \in States(s) :
           st.docs # {} => \E m \in Migrations : /\ st.task[m] # "none"
                                                 /\ ~(m \in committed /\ to(m) = s)
    /\ \A s \in Shard, m \in Migrations :
           del[s][m].step = "replicate" => primary(s).docs = {}

DataInv == MetaInv /\ DocsInv /\ OrphanInv
-----------------------------------------------------------------------------
(* The initial state. *)

InitState(s) == [coord |-> [m \in Migrations |-> "none"],
                 task  |-> [m \in Migrations |-> "none"],
                 txn   |-> [m \in Migrations |-> FALSE],
                 docs  |-> IF s = FirstOwner THEN FirstDocs ELSE {}]

LEMMA InitStates ==
    ASSUME Init
    PROVE  \A s \in Shard : /\ log[s] = <<InitState(s)>> /\ InitState(s) \in State
                            /\ States(s) = {InitState(s)} /\ primary(s) = InitState(s)
  <1>1. \A s \in Shard : log[s] = <<InitState(s)>>
    BY DEF Init, InitState
  <1>2. \A s \in Shard : InitState(s) \in State
    BY DocAssumption DEF InitState, State
  <1> QED BY <1>1, <1>2 DEF States, primary

LEMMA InitControl == Init => ControlInv
  <1> SUFFICES ASSUME Init PROVE ControlInv
    OBVIOUS
  <1>1. \A s \in Shard : /\ log[s] = <<InitState(s)>> /\ InitState(s) \in State
                         /\ States(s) = {InitState(s)} /\ primary(s) = InitState(s)
    BY InitStates
  <1>2. \A m \in Migrations : mig[m] = NoMigration /\ ~Begun(m) /\ ~Live(m)
    BY DEF Init, Begun, from, Live, NoMigration
  <1>3. TypeInv
    <2>1. 1 \in Version /\ 0 \in Version
      BY BoundAssumption DEF Version
    <2>2. config \in [owner : Shard, version : Version] /\ meta \in [Shard -> Metadata]
      BY <2>1, ShardAssumption DEF Init, Metadata
    <2>3. mig \in [Migrations -> [from : Shard \cup {None}, to : Shard \cup {None},
                                  version : Version]]
      BY <2>1 DEF Init, NoMigration
    <2>4. log \in [Shard -> Seq(State)] /\ \A s \in Shard : Len(log[s]) \in 1 .. MaxUncommitted + 1
      <3>1. ASSUME NEW s \in Shard PROVE log[s] \in Seq(State) /\ Len(log[s]) = 1
        <4>1. log[s] = <<InitState(s)>> /\ InitState(s) \in State
          BY <1>1
        <4> HIDE DEF InitState
        <4> QED BY <4>1
      <3>2. log = [s \in Shard |-> log[s]]
        BY DEF Init
      <3>3. log \in [Shard -> Seq(State)]
        BY <3>1, <3>2
      <3>4. 1 \in 1 .. MaxUncommitted + 1
        BY BoundAssumption
      <3> QED BY <3>1, <3>3, <3>4
    <2>5. term \in [Shard -> 0 .. MaxTerm]
      BY BoundAssumption DEF Init
    <2>6. RecvType
      BY BoundAssumption DEF Init, NoReceive, RecvType, Receive
    <2>7. DelType
      BY DEF Init, NoDeletion, DelType, Deletion
    <2>8. ThrType
      BY DEF Init, NoThread, Pc, ThrType, Thread
    <2>9. committed \subseteq Migrations /\ msgs \subseteq [type : Request, m : Migrations]
          /\ acked \subseteq Doc
      BY DocAssumption DEF Init
    <2> QED BY <2>2, <2>3, <2>4, <2>5, <2>6, <2>7, <2>8, <2>9
            DEF TypeInv, ConfigType, LogType, MetaType, MsgType
  <1>4. VersionInv
    <2>1. config.version = 1
      BY DEF Init
    <2> QED BY <1>2, <2>1 DEF VersionInv, MigrationOK
  <1>5. \A m \in Migrations : UnknownOK(m)
    <2>1. \A m \in Migrations : \A t \in 0 .. MaxTerm : thr[m][t] = NoThread
      BY DEF Init
    <2>2. msgs = {} /\ committed = {} /\ \A s \in Shard : recv[s].m = 0
      BY DEF Init, NoReceive
    <2>3. \A s \in Shard : \A m \in Migrations : InitState(s).coord[m] = "none"
                                                 /\ InitState(s).task[m] = "none"
      BY DEF InitState
    <2>4. \A m \in Migrations : m # 0
      BY DEF Migrations
    <2> QED BY <1>1, <2>1, <2>2, <2>3, <2>4 DEF UnknownOK, sent
  <1>6. \A s \in Shard : \A st \in States(s) : \A m \in Migrations :
            CoordOK(s, st, m) /\ TaskOK(s, st, m)
    <2>1. \A s \in Shard : \A m \in Migrations : InitState(s).coord[m] = "none"
                                                 /\ InitState(s).task[m] = "none"
      BY DEF InitState
    <2> QED BY <1>1, <2>1 DEF CoordOK, TaskOK
  <1>7. \A m \in Migrations : LiveOK(m)
    BY <1>2 DEF LiveOK
  <1>8. \A s \in Shard : ReceiveOK(s, recv[s], primary(s))
    BY DEF Init, ReceiveOK, NoReceive
  <1>9. \A s \in Shard, m \in Migrations : del[s][m].step # "replicate"
    BY DEF Init, NoDeletion
  <1> QED BY <1>2, <1>3, <1>4, <1>5, <1>6, <1>7, <1>8, <1>9 DEF ControlInv

-----------------------------------------------------------------------------
(* What the parts of a step do to the states, threads and messages. *)

(* The primary of s writes st. *)
Writes(s, st) ==
    /\ States(s)' = States(s) \cup {st}
    /\ primary(s)' = st
    /\ \A r \in Shard \ {s} : States(r)' = States(r) /\ primary(r)' = primary(r)

(* The states of s that remain are among those it had. *)
Loses(s) ==
    /\ States(s)' \subseteq States(s)
    /\ primary(s)' \in States(s)'
    /\ \A r \in Shard \ {s} : States(r)' = States(r) /\ primary(r)' = primary(r)

LEMMA PrimaryIsState ==
    ASSUME LogType
    PROVE  \A s \in Shard : primary(s) \in States(s) /\ States(s) \subseteq State
  <1>1. \A s \in Shard : log[s] \in Seq(State) /\ Len(log[s]) \in DOMAIN log[s]
    BY DEF LogType
  <1> QED BY <1>1 DEF primary, States

LEMMA SameLog ==
    ASSUME UNCHANGED log
    PROVE  \A s \in Shard : States(s)' = States(s) /\ primary(s)' = primary(s)
  BY DEF States, primary

LEMMA WriteFacts ==
    ASSUME LogType, NEW s \in Shard, NEW st \in State, write(s, st)
    PROVE  Writes(s, st) /\ LogType'
  <1>1. /\ log[s] \in Seq(State) /\ Len(log[s]) \in 1 .. MaxUncommitted
        /\ log' = [log EXCEPT ![s] = written(s, st)]
        /\ MaxUncommitted \in Nat /\ DOMAIN log[s] = 1 .. Len(log[s])
    BY BoundAssumption DEF LogType, write
  <1>2. \A r \in Shard \ {s} : log'[r] = log[r]
    BY <1>1
  <1>3. \A r \in Shard \ {s} : States(r)' = States(r) /\ primary(r)' = primary(r)
    BY <1>2 DEF States, primary
  <1>4. log'[s] = written(s, st)
    BY <1>1 DEF LogType
  <1>5. CASE st = primary(s)
    <2>1. log'[s] = log[s]
      BY <1>4, <1>5 DEF written
    <2>2. States(s)' = States(s) /\ primary(s)' = primary(s)
      BY <2>1 DEF States, primary
    <2>3. LogType'
      BY <1>1, <1>2, <2>1 DEF LogType
    <2> QED BY <1>3, <1>5, <2>2, <2>3, PrimaryIsState DEF Writes
  <1>6. CASE st # primary(s)
    <2>1. log'[s] = Append(log[s], st)
      BY <1>4, <1>6 DEF written
    <2>2. /\ log'[s] \in Seq(State) /\ Len(log'[s]) = Len(log[s]) + 1
          /\ \A i \in 1 .. Len(log[s]) : log'[s][i] = log[s][i]
          /\ log'[s][Len(log[s]) + 1] = st
          /\ DOMAIN log'[s] = 1 .. Len(log[s]) + 1
      BY <1>1, <2>1
    <2>3. primary(s)' = st
      BY <2>2 DEF primary
    <2>4. States(s)' = States(s) \cup {st}
      <3>1. States(s)' = {log'[s][i] : i \in 1 .. Len(log[s]) + 1}
        BY <2>2 DEF States
      <3>2. States(s) = {log[s][i] : i \in 1 .. Len(log[s])}
        BY <1>1 DEF States
      <3>3. ASSUME NEW x \in States(s) PROVE x \in States(s)'
        <4>1. PICK i \in 1 .. Len(log[s]) : x = log[s][i]
          BY <3>2
        <4> QED BY <1>1, <2>2, <3>1, <4>1
      <3>4. st \in States(s)'
        BY <1>1, <2>2, <3>1
      <3>5. ASSUME NEW x \in States(s)' PROVE x \in States(s) \cup {st}
        <4>1. PICK i \in 1 .. Len(log[s]) + 1 : x = log'[s][i]
          BY <3>1
        <4>2. i \in 1 .. Len(log[s]) \/ i = Len(log[s]) + 1
          BY <1>1
        <4> QED BY <2>2, <3>2, <4>1, <4>2
      <3> QED BY <3>3, <3>4, <3>5
    <2>5. LogType'
      <3>1. Len(log'[s]) \in 1 .. MaxUncommitted + 1
        BY <1>1, <2>2
      <3>2. log' \in [Shard -> Seq(State)]
        BY <1>1, <2>1, <2>2, <1>4 DEF LogType
      <3> QED BY <1>2, <3>1, <3>2 DEF LogType
    <2> QED BY <1>3, <2>3, <2>4, <2>5 DEF Writes
  <1> QED BY <1>5, <1>6

LEMMA TailFacts ==
    ASSUME NEW S, NEW q \in Seq(S), Len(q) > 1
    PROVE  /\ Tail(q) \in Seq(S) /\ Len(Tail(q)) = Len(q) - 1
           /\ DOMAIN Tail(q) = 1 .. Len(q) - 1
           /\ \A i \in 1 .. Len(q) - 1 : Tail(q)[i] = q[i + 1]
  <1>1. Len(q) \in Nat /\ q # <<>>
    OBVIOUS
  <1>2. Tail(q) \in Seq(S) /\ Len(Tail(q)) = Len(q) - 1
    BY <1>1
  <1>3. \A i \in 1 .. Len(q) - 1 : Tail(q)[i] = q[i + 1]
    BY <1>1
  <1>4. DOMAIN Tail(q) = 1 .. Len(Tail(q))
    BY <1>2
  <1> QED BY <1>2, <1>3, <1>4

LEMMA ReplicateLog ==
    ASSUME LogType, NEW s \in Shard, Len(log[s]) > 1, log' = [log EXCEPT ![s] = Tail(@)]
    PROVE  Loses(s) /\ primary(s)' = primary(s) /\ LogType'
  <1> DEFINE n == Len(log[s])
  <1>1. /\ log[s] \in Seq(State) /\ n \in Nat /\ n > 1 /\ n <= MaxUncommitted + 1
        /\ MaxUncommitted \in Nat /\ DOMAIN log[s] = 1 .. n
    BY BoundAssumption DEF LogType
  <1>2. \A r \in Shard \ {s} : log'[r] = log[r]
    OBVIOUS
  <1>3. \A r \in Shard \ {s} : States(r)' = States(r) /\ primary(r)' = primary(r)
    BY <1>2 DEF States, primary
  <1>4. log'[s] = Tail(log[s])
    BY DEF LogType
  <1>5. /\ log'[s] \in Seq(State) /\ Len(log'[s]) = n - 1 /\ DOMAIN log'[s] = 1 .. n - 1
        /\ \A i \in 1 .. n - 1 : log'[s][i] = log[s][i + 1]
    BY <1>1, <1>4, TailFacts
  <1>6. primary(s)' = primary(s)
    <2>1. log'[s][n - 1] = log[s][n]
      BY <1>1, <1>5
    <2> QED BY <1>5, <2>1 DEF primary
  <1>7. States(s)' \subseteq States(s)
    <2>1. SUFFICES ASSUME NEW x \in States(s)' PROVE x \in States(s)
      OBVIOUS
    <2>2. PICK i \in 1 .. n - 1 : x = log'[s][i]
      BY <1>5 DEF States
    <2>3. i + 1 \in DOMAIN log[s] /\ x = log[s][i + 1]
      BY <1>1, <1>5, <2>2
    <2> QED BY <2>3 DEF States
  <1>8. LogType'
    <2>1. Len(log'[s]) \in 1 .. MaxUncommitted + 1
      BY <1>1, <1>5
    <2>2. log' \in [Shard -> Seq(State)]
      BY <1>4, <1>5 DEF LogType
    <2> QED BY <1>2, <2>1, <2>2 DEF LogType
  <1>9. primary(s)' \in States(s)'
    <2>1. n - 1 \in DOMAIN log'[s] /\ primary(s)' = log'[s][n - 1]
      BY <1>1, <1>5 DEF primary
    <2> QED BY <2>1 DEF States
  <1> QED BY <1>3, <1>6, <1>7, <1>8, <1>9 DEF Loses

LEMMA FailoverLog ==
    ASSUME LogType, NEW s \in Shard, NEW k \in DOMAIN log[s],
           log' = [log EXCEPT ![s] = SubSeq(@, 1, k)]
    PROVE  Loses(s) /\ primary(s)' = log[s][k] /\ log[s][k] \in States(s) /\ LogType'
  <1>1. /\ log[s] \in Seq(State) /\ Len(log[s]) \in Nat /\ k \in 1 .. Len(log[s])
        /\ Len(log[s]) <= MaxUncommitted + 1 /\ MaxUncommitted \in Nat
    BY BoundAssumption DEF LogType
  <1>2. \A r \in Shard \ {s} : log'[r] = log[r]
    OBVIOUS
  <1>3. \A r \in Shard \ {s} : States(r)' = States(r) /\ primary(r)' = primary(r)
    BY <1>2 DEF States, primary
  <1>4. log'[s] = SubSeq(log[s], 1, k)
    BY DEF LogType
  <1>5. /\ log'[s] \in Seq(State) /\ Len(log'[s]) = k /\ DOMAIN log'[s] = 1 .. k
        /\ \A i \in 1 .. k : log'[s][i] = log[s][i]
    BY <1>1, <1>4
  <1>6. primary(s)' = log[s][k]
    BY <1>1, <1>5 DEF primary
  <1>7. States(s)' \subseteq States(s)
    <2>1. SUFFICES ASSUME NEW x \in States(s)' PROVE x \in States(s)
      OBVIOUS
    <2>2. PICK i \in 1 .. k : x = log'[s][i]
      BY <1>5 DEF States
    <2>3. i \in DOMAIN log[s] /\ x = log[s][i]
      BY <1>1, <1>5, <2>2
    <2> QED BY <2>3 DEF States
  <1>8. LogType'
    <2>1. Len(log'[s]) \in 1 .. MaxUncommitted + 1
      BY <1>1, <1>5
    <2>2. log' \in [Shard -> Seq(State)]
      BY <1>4, <1>5 DEF LogType
    <2> QED BY <1>2, <2>1, <2>2 DEF LogType
  <1>9. primary(s)' \in States(s)'
    <2>1. k \in DOMAIN log'[s] /\ primary(s)' = log'[s][k]
      BY <1>1, <1>5 DEF primary
    <2> QED BY <2>1 DEF States
  <1>10. log[s][k] \in States(s)
    BY DEF States
  <1> QED BY <1>3, <1>6, <1>7, <1>8, <1>9, <1>10 DEF Loses

LEMMA InsertLog ==
    ASSUME LogType, NEW s \in Shard, NEW st \in State, log' = [log EXCEPT ![s] = <<st>>]
    PROVE  /\ States(s)' = {st} /\ primary(s)' = st /\ LogType'
           /\ \A r \in Shard \ {s} : States(r)' = States(r) /\ primary(r)' = primary(r)
  <1>1. \A r \in Shard \ {s} : log'[r] = log[r]
    OBVIOUS
  <1>2. \A r \in Shard \ {s} : States(r)' = States(r) /\ primary(r)' = primary(r)
    BY <1>1 DEF States, primary
  <1>3. log'[s] = <<st>>
    BY DEF LogType
  <1>4. log'[s] \in Seq(State) /\ Len(log'[s]) = 1 /\ DOMAIN log'[s] = {1} /\ log'[s][1] = st
    <2>1. log'[s] \in Seq(State) /\ Len(log'[s]) = 1 /\ log'[s][1] = st
      <3>1. \A x \in State : <<x>> \in Seq(State) /\ Len(<<x>>) = 1 /\ <<x>>[1] = x
        OBVIOUS
      <3> QED BY <1>3, <3>1
    <2>2. DOMAIN log'[s] = 1 .. 1
      BY <2>1
    <2>3. 1 .. 1 = {1}
      OBVIOUS
    <2> QED BY <2>1, <2>2, <2>3
  <1>5. States(s)' = {st} /\ primary(s)' = st
    BY <1>4 DEF States, primary
  <1>6. LogType'
    <2>1. 1 \in 1 .. MaxUncommitted + 1
      BY BoundAssumption
    <2>2. log' \in [Shard -> Seq(State)]
      BY <1>3, <1>4 DEF LogType
    <2> QED BY <1>1, <1>4, <2>1, <2>2 DEF LogType
  <1> QED BY <1>2, <1>5, <1>6

(* The thread t of m goes to pc. *)
Goes(m, t, pc, decision, critSec) ==
    /\ thr'[m][t] = [pc |-> pc, decision |-> decision, critSec |-> critSec]
    /\ \A x \in Migrations, u \in 0 .. MaxTerm : x # m \/ u # t => thr'[x][u] = thr[x][u]

LEMMA SetFacts ==
    ASSUME ThrType, NEW m \in Migrations, NEW t \in 0 .. MaxTerm, NEW th \in Thread,
           thr' = [thr EXCEPT ![m][t] = th]
    PROVE  Goes(m, t, th.pc, th.decision, th.critSec) /\ ThrType'
  <1>1. thr'[m][t] = th /\ th = [pc |-> th.pc, decision |-> th.decision, critSec |-> th.critSec]
    BY DEF ThrType, Thread
  <1>2. \A x \in Migrations, u \in 0 .. MaxTerm : x # m \/ u # t => thr'[x][u] = thr[x][u]
    BY DEF ThrType
  <1>3. ThrType'
    BY DEF ThrType
  <1> QED BY <1>1, <1>2, <1>3 DEF Goes

LEMMA GotoFacts ==
    ASSUME ThrType, NEW m \in Migrations, NEW t \in 0 .. MaxTerm, NEW pc \in Pc, goto(m, t, pc)
    PROVE  Goes(m, t, pc, thr[m][t].decision, thr[m][t].critSec) /\ ThrType'
  <1> DEFINE th == [pc |-> pc, decision |-> thr[m][t].decision, critSec |-> thr[m][t].critSec]
  <1>1. thr[m][t] \in Thread
    BY DEF ThrType
  <1>2. th \in Thread /\ [thr[m][t] EXCEPT !.pc = pc] = th
    BY <1>1 DEF Thread
  <1>3. thr' = [thr EXCEPT ![m][t] = th]
    BY <1>2 DEF goto, ThrType
  <1>4. Goes(m, t, th.pc, th.decision, th.critSec) /\ ThrType'
    <2> HIDE DEF th
    <2> QED BY <1>2, <1>3, SetFacts
  <1> QED BY <1>4

(* A request or answer is sent; all others stay as they are. *)
Sends(type, m) == \A y, x : sent(y, x)' <=> sent(y, x) \/ (y = type /\ x = m)
Takes(type, m) == \A y, x : sent(y, x)' <=> sent(y, x) /\ ~(y = type /\ x = m)
SameMessages == \A y, x : sent(y, x)' <=> sent(y, x)
LEMMA SendFacts ==
    ASSUME MsgType, NEW m \in Migrations, NEW type \in Request, send(type, m)
    PROVE  Sends(type, m) /\ MsgType'
  <1>1. Sends(type, m)
    BY DEF send, sent, Sends
  <1> QED BY <1>1 DEF MsgType, send

LEMMA ReceiveFacts ==
    ASSUME MsgType, NEW m, NEW type, receiveOnce(type, m)
    PROVE  sent(type, m) /\ Takes(type, m) /\ MsgType'
  <1>1. Takes(type, m)
    BY DEF receiveOnce, sent, Takes
  <1> QED BY <1>1 DEF MsgType, receiveOnce

LEMMA NoMessageFacts ==
    ASSUME MsgType, UNCHANGED msgs
    PROVE  SameMessages /\ MsgType'
  BY DEF MsgType, SameMessages, sent

-----------------------------------------------------------------------------
(* What a step leaves alone. *)

(* The chunk has not moved, and its version at most makes commits fail. *)
Quiet ==
    /\ config'.owner = config.owner
    /\ UNCHANGED <<committed, mig>>
    /\ ConfigType' /\ VersionInv'
    /\ \A x \in Migrations : Begun(x) =>
         /\ config'.version = mig[x].version => config.version = mig[x].version
         /\ mig[x].version < config.version => mig[x].version < config'.version

LEMMA QuietFacts ==
    ASSUME ControlInv, UNCHANGED <<config, committed, mig>>
    PROVE  Quiet
  <1>1. \A x : (Begun(x)' <=> Begun(x)) /\ from(x)' = from(x) /\ to(x)' = to(x)
    BY DEF Begun, from, to
  <1>2. ConfigType /\ VersionInv
    BY DEF ControlInv, TypeInv
  <1>3. VersionInv'
    BY <1>1, <1>2 DEF VersionInv, MigrationOK
  <1> QED BY <1>2, <1>3 DEF ConfigType, Quiet

(* The states of donor and recipient say of x what they said. *)
Mirrors(x) ==
    \A s \in Shard :
        /\ s = from(x) => /\ \A st \in States(s)' : \E u \in States(s) :
                                 /\ u.coord[x] = st.coord[x]
                                 /\ Live(x) => u.task[x] = st.task[x]
                          /\ primary(s)'.coord[x] = primary(s).coord[x]
        /\ s = to(x) => /\ (\A u \in States(s) : u.txn[x]) => \A st \in States(s)' : st.txn[x]
                        /\ Live(x) => \A st \in States(s)' :
                                          /\ Reserved(x, st)
                                          /\ sent("received", x) => st.task[x] = "pending"

(* The migrate thread is on x or not as before, and not further with its commit. *)
SameReceive(x) ==
    /\ recv'[to(x)].m = x <=> recv[to(x)].m = x
    /\ recv'[to(x)].m = x /\ recv'[to(x)].state = "commitStart"
       => recv[to(x)].state = "commitStart"

(* The invariant for one migration. *)
MigrationInv(x) ==
    /\ MessageOK(x)
    /\ \A u \in 0 .. MaxTerm : ThreadOK(x, u)
    /\ DocumentOK(x)
    /\ LiveOK(x)

LEMMA Parts ==
    ASSUME ControlInv
    PROVE  /\ TypeInv /\ VersionInv
           /\ ConfigType /\ LogType /\ MetaType /\ RecvType /\ DelType /\ ThrType /\ MsgType
           /\ \A x \in Migrations : Begun(x) =>
                /\ MigrationInv(x)
                /\ from(x) \in Shard /\ to(x) \in Shard /\ from(x) # to(x)
                /\ term[from(x)] \in 0 .. MaxTerm
           /\ \A s \in Shard : primary(s) \in States(s) /\ States(s) \subseteq State
  BY PrimaryIsState DEF ControlInv, TypeInv, VersionInv, MigrationOK, MigrationInv, ConfigType

LEMMA KeptWhile ==
    ASSUME ControlInv, NEW x \in Migrations, Begun(x),
           mig'[x] = mig[x], UNCHANGED <<committed, term>>,
           config'.version = mig[x].version => config.version = mig[x].version,
           mig[x].version < config.version => mig[x].version < config'.version,
           \A u \in 0 .. MaxTerm : thr'[x][u] = thr[x][u],
           \A y : sent(y, x)' <=> sent(y, x),
           SameReceive(x), Mirrors(x)
    PROVE  MigrationInv(x)' /\ (Live(x)' => Live(x))
  <1>1. /\ from(x)' = from(x) /\ to(x)' = to(x) /\ mig'[x] = mig[x]
        /\ committed' = committed
        /\ config'.version = mig[x].version => config.version = mig[x].version
        /\ mig[x].version < config.version => mig[x].version < config'.version
    BY DEF from, to
  <1>2. /\ MigrationInv(x) /\ term[from(x)] \in 0 .. MaxTerm
        /\ from(x) \in Shard /\ to(x) \in Shard
    BY Parts
  <1>21. PICK f \in Shard, r \in Shard : f = from(x) /\ r = to(x)
    BY <1>2
  <1>22. /\ \A st \in States(f)' : \E u \in States(f) :
               u.coord[x] = st.coord[x] /\ (Live(x) => u.task[x] = st.task[x])
        /\ primary(f)'.coord[x] = primary(f).coord[x]
    BY <1>21 DEF Mirrors
  <1>23. (\A u \in States(r) : u.txn[x]) => \A st \in States(r)' : st.txn[x]
    BY <1>21, Zenon DEF Mirrors
  <1>25. Live(x) => \A st \in States(r)' :
             Reserved(x, st) /\ (sent("received", x) => st.task[x] = "pending")
    BY <1>21, Zenon DEF Mirrors
  <1>3. Live(x)' => Live(x)
    BY <1>1 DEF Live, Begun
  <1>4. Aborted(x) => Aborted(x)'
    BY <1>1, <1>3 DEF Aborted
  <1>5. \A d : Correct(x, d) => Correct(x, d)'
    BY <1>1, <1>4 DEF Correct
  <1>6. (Closed(x) => Closed(x)') /\ (Bound(x) => Bound(x)')
    <2>1. Bound(x) => Bound(x)'
      BY <1>1, <1>21, <1>22 DEF Bound
    <2>2. Closed(x) => Closed(x)'
      BY <1>1, <1>21, <1>23 DEF Closed
    <2> QED BY <2>1, <2>2
  <1>7. MessageOK(x)'
    BY <1>1, <1>2, <1>4, <1>6 DEF MigrationInv, MessageOK, SameReceive
  <1>8. ASSUME NEW u \in 0 .. MaxTerm PROVE ThreadOK(x, u)'
    <2>1. ThreadOK(x, u)
      BY <1>2 DEF MigrationInv
    <2> QED BY <1>1, <1>5, <1>6, <2>1 DEF ThreadOK, SameReceive
  <1>9. DocumentOK(x)'
    <2>1. DocumentOK(x)
      BY <1>2 DEF MigrationInv
    <2>2. thr'[x][term'[from(x)']] = thr[x][term[from(x)]]
      BY <1>1, <1>2
    <2>3. \A th, c : Agree(x, th, c) => Agree(x, th, c)'
      BY <1>5 DEF Agree
    <2> QED BY <1>1, <1>21, <1>22, <2>1, <2>2, <2>3 DEF DocumentOK
  <1>10. LiveOK(x)'
    <2>1. LiveOK(x)
      BY <1>2 DEF MigrationInv
    <2>2. SUFFICES ASSUME Live(x)' PROVE LiveOK(x)'
      BY DEF LiveOK
    <2>3. Live(x)
      BY <1>3, <2>2
    <2>4. (\/ sent("commit", x)'
           \/ \E t \in 0 .. MaxTerm : thr'[x][t].pc \in Before \ {"persistCoordinator"})
          => \A st \in States(f)' : st.coord[x] = "unknown"
      BY <1>21, <1>22, <2>1, <2>3 DEF LiveOK
    <2>5. sent("commit", x)' \/ (\E t \in 0 .. MaxTerm : thr'[x][t].pc \in Cloning)
          => \A st \in States(f)' : st.task[x] = "pending"
      BY <1>21, <1>22, <2>1, <2>3 DEF LiveOK
    <2>6. sent("received", x)' => \A st \in States(r)' : st.task[x] = "pending"
      BY <1>25, <2>3
    <2>7. \A st \in States(r)' : Reserved(x, st)
      BY <1>25, <2>3
    <2>8. \A st : Reserved(x, st)' <=> Reserved(x, st)
      BY DEF Reserved
    <2> QED BY <1>1, <1>21, <2>4, <2>5, <2>6, <2>7, <2>8 DEF LiveOK
  <1> QED BY <1>3, <1>7, <1>8, <1>9, <1>10 DEF MigrationInv

LEMMA KeptMigration ==
    ASSUME ControlInv, NEW x \in Migrations, Begun(x), Quiet, UNCHANGED term,
           \A u \in 0 .. MaxTerm : thr'[x][u] = thr[x][u],
           \A y : sent(y, x)' <=> sent(y, x),
           SameReceive(x), Mirrors(x)
    PROVE  MigrationInv(x)' /\ (Live(x)' => Live(x))
  BY KeptWhile DEF Quiet

(* What is left to show of a step that writes st, if anything, to s. *)
LEMMA Assemble ==
    ASSUME ControlInv, TypeInv', Quiet,
           \A x \in Migrations : Begun(x) => MigrationInv(x)' /\ (Live(x)' => Live(x)),
           \A x \in Migrations : ~Begun(x) =>
               /\ \A u \in 0 .. MaxTerm : thr'[x][u] = thr[x][u]
               /\ \A y : sent(y, x)' => sent(y, x)
               /\ \A r \in Shard : recv'[r].m = x => recv[r].m = x,
           NEW s \in Shard, NEW st,
           States(s)' \subseteq States(s) \cup {st},
           \A r \in Shard \ {s} : States(r)' = States(r),
           \A x \in Migrations : /\ CoordOK(s, st, x) /\ TaskOK(s, st, x)
                                 /\ ~Begun(x) => st.coord[x] = "none" /\ st.task[x] = "none",
           \A r \in Shard : ReceiveOK(r, recv[r], primary(r))',
           \A r \in Shard, x \in Migrations :
               del'[r][x].step = "replicate" => primary(r)'.task[x] = "ready"
    PROVE  ControlInv'
  <1>1. /\ \A x : from(x)' = from(x) /\ to(x)' = to(x)
        /\ mig' = mig /\ config'.owner = config.owner /\ committed' = committed
    BY DEF Quiet, from, to
  <1>2. \A x : Begun(x)' <=> Begun(x)
    BY <1>1 DEF Begun
  <1>3. VersionInv'
    BY DEF Quiet
  <1>4. \A r \in Shard : \A u \in States(r)' : u \in States(r) \/ (r = s /\ u = st)
    OBVIOUS
  <1>5. ASSUME NEW x \in Migrations PROVE UnknownOK(x)'
    <2>1. UnknownOK(x)
      BY DEF ControlInv
    <2> QED BY <1>1, <1>2, <1>4, <2>1 DEF UnknownOK
  <1>6. ASSUME NEW x \in Migrations PROVE ~Begun(x) => ~Live(x)
    BY DEF Live
  <1>7. \A x \in Migrations : Live(x)' => Live(x)
    BY <1>2 DEF Live
  <1>8. \A x \in Migrations : \A d : Correct(x, d) => Correct(x, d)'
    BY <1>1, <1>7 DEF Correct, Aborted
  <1>9. ASSUME NEW r \in Shard, NEW u \in States(r)', NEW x \in Migrations
        PROVE  CoordOK(r, u, x)' /\ TaskOK(r, u, x)'
    <2>1. CoordOK(r, u, x) /\ TaskOK(r, u, x)
      BY <1>4 DEF ControlInv
    <2>2. CoordOK(r, u, x)'
      BY <1>1, <1>8, <2>1 DEF CoordOK
    <2>3. Aborted(x) => Aborted(x)'
      BY <1>1, <1>7 DEF Aborted
    <2>4. TaskOK(r, u, x)'
      BY <1>1, <2>1, <2>3 DEF TaskOK
    <2> QED BY <2>2, <2>4
  <1>10. \A x \in Migrations : LiveOK(x)'
    BY <1>2 DEF MigrationInv, LiveOK, Live
  <1>11. \A x \in Migrations : Begun(x)' =>
             MessageOK(x)' /\ DocumentOK(x)' /\ \A u \in 0 .. MaxTerm : ThreadOK(x, u)'
    BY <1>2 DEF MigrationInv
  <1> QED BY <1>3, <1>5, <1>9, <1>10, <1>11 DEF ControlInv

-----------------------------------------------------------------------------
(* Steps of the donor's thread that write nothing. *)

LEMMA SameMirrors ==
    ASSUME ControlInv, UNCHANGED log, NEW x \in Migrations, Begun(x)
    PROVE  Mirrors(x)
  <1>1. LiveOK(x)
    BY Parts DEF MigrationInv
  <1>2. \A s \in Shard : States(s)' = States(s) /\ primary(s)' = primary(s)
    BY SameLog
  <1> QED BY <1>1, <1>2 DEF Mirrors, LiveOK

(* What the thread of m may rely on. *)
Place(m, f, r) ==
    /\ f \in Shard /\ r \in Shard /\ f # r /\ Begun(m)
    /\ from(m) = f /\ to(m) = r /\ from(m)' = f /\ to(m)' = r
    /\ term'[f] = term[f] /\ term[f] \in 0 .. MaxTerm
    /\ mig'[m] = mig[m] /\ config'.owner = config.owner /\ committed' = committed
    /\ config'.version = mig[m].version => config.version = mig[m].version
    /\ mig[m].version < config.version => mig[m].version < config'.version
    /\ recv'[r] = recv[r]
    /\ States(r)' = States(r)
    /\ primary(f) \in States(f) /\ primary(f) \in State
    /\ Closed(m)' <=> Closed(m)
    /\ Bound(m) \/ Closed(m) => Bound(m)' \/ Closed(m)'
    /\ MessageOK(m) /\ DocumentOK(m) /\ LiveOK(m) /\ CoordOK(f, primary(f), m)
    /\ \A u \in 0 .. MaxTerm : ThreadOK(m, u) /\ thr[m][u] \in Thread

(* The same while it writes nothing. *)
Local(m, f, r) == /\ Place(m, f, r)
                  /\ States(f)' = States(f) /\ primary(f)' = primary(f)

LEMMA LocalFacts ==
    ASSUME ControlInv, NEW m \in Migrations, Begun(m), Quiet, UNCHANGED <<log, term, recv>>
    PROVE  \E f, r \in Shard : Local(m, f, r)
  <1>1. /\ MigrationInv(m) /\ from(m) \in Shard /\ to(m) \in Shard /\ from(m) # to(m)
        /\ term[from(m)] \in 0 .. MaxTerm
    BY Parts
  <1>2. PICK f \in Shard, r \in Shard : f = from(m) /\ r = to(m)
    BY <1>1
  <1>3. /\ from(m)' = f /\ to(m)' = r
        /\ mig'[m] = mig[m] /\ config'.owner = config.owner /\ committed' = committed
        /\ config'.version = mig[m].version => config.version = mig[m].version
        /\ mig[m].version < config.version => mig[m].version < config'.version
    BY <1>2 DEF Quiet, from, to
  <1>4. \A s \in Shard : States(s)' = States(s) /\ primary(s)' = primary(s)
    BY SameLog
  <1>5. (Closed(m)' <=> Closed(m)) /\ (Bound(m)' <=> Bound(m))
    BY <1>2, <1>3, <1>4 DEF Closed, Bound
  <1>6. primary(f) \in States(f) /\ primary(f) \in State
    BY Parts
  <1>7. CoordOK(f, primary(f), m)
    BY <1>6 DEF ControlInv
  <1>8. \A u \in 0 .. MaxTerm : ThreadOK(m, u) /\ thr[m][u] \in Thread
    BY <1>1, Parts DEF MigrationInv, ThrType
  <1> QED BY <1>1, <1>2, <1>3, <1>4, <1>5, <1>6, <1>7, <1>8 DEF Local, Place, MigrationInv

LEMMA ThreadStep ==
    ASSUME ControlInv, NEW m \in Migrations, Begun(m), NEW t \in 0 .. MaxTerm,
           Quiet, UNCHANGED <<log, term, recv, acked>>,
           MetaType', DelType', MsgType', ThrType',
           NEW pc, NEW d, NEW c, Goes(m, t, pc, d, c),
           \A y, x : x # m => (sent(y, x)' <=> sent(y, x)),
           \A r \in Shard, x \in Migrations :
               del'[r][x].step = "replicate" => del[r][x].step = "replicate",
           MigrationInv(m)', Live(m)' => Live(m)
    PROVE  ControlInv'
  <1>1. \A s \in Shard : States(s)' = States(s) /\ primary(s)' = primary(s)
    BY SameLog
  <1>2. TypeInv'
    BY Parts DEF TypeInv, ConfigType, LogType, RecvType, Quiet
  <1>3. ASSUME NEW x \in Migrations, Begun(x)
        PROVE  MigrationInv(x)' /\ (Live(x)' => Live(x))
    <2>1. CASE x # m
      <3>1. Mirrors(x)
        BY <1>3, SameMirrors
      <3>2. SameReceive(x)
        BY <1>3 DEF SameReceive, Quiet, to
      <3>3. \A u \in 0 .. MaxTerm : thr'[x][u] = thr[x][u]
        BY <2>1 DEF Goes
      <3> QED BY <1>3, <2>1, <3>1, <3>2, <3>3, KeptMigration
    <2> QED BY <2>1
  <1>4. \A x \in Migrations : ~Begun(x) =>
            /\ \A u \in 0 .. MaxTerm : thr'[x][u] = thr[x][u]
            /\ \A y : sent(y, x)' => sent(y, x)
            /\ \A r \in Shard : recv'[r].m = x => recv[r].m = x
    BY DEF Goes
  <1>5. PICK s \in Shard : TRUE
    BY ShardAssumption
  <1>6. \A x \in Migrations :
            /\ CoordOK(s, primary(s), x) /\ TaskOK(s, primary(s), x)
            /\ ~Begun(x) => primary(s).coord[x] = "none" /\ primary(s).task[x] = "none"
    BY Parts DEF ControlInv, UnknownOK
  <1>7. \A r \in Shard : ReceiveOK(r, recv[r], primary(r))'
    <2>1. \A r \in Shard : ReceiveOK(r, recv[r], primary(r))
      BY DEF ControlInv
    <2>2. \A x : to(x)' = to(x)
      BY DEF Quiet, to
    <2> QED BY <1>1, <2>1, <2>2 DEF ReceiveOK
  <1>8. \A r \in Shard, x \in Migrations :
            del'[r][x].step = "replicate" => primary(r)'.task[x] = "ready"
    BY <1>1 DEF ControlInv
  <1> QED BY <1>1, <1>2, <1>3, <1>4, <1>5, <1>6, <1>7, <1>8, Assemble

LEMMA BegunThread ==
    ASSUME ControlInv, NEW m \in Migrations, NEW t \in 0 .. MaxTerm, thr[m][t].pc # "idle"
    PROVE  Begun(m) /\ ~(t > term[from(m)])
  <1>1. Begun(m)
    BY DEF ControlInv, UnknownOK, NoThread
  <1>2. ThreadOK(m, t)
    BY <1>1 DEF ControlInv
  <1> QED BY <1>1, <1>2 DEF ThreadOK, NoThread

(* The messages of the thread that began a migration. *)
Early == {"recvChunkStart", "recvChunkCommit", "received", "commit"}

(* A thread that began m goes on, or what it said stays. *)
Forward(m, t, pc, d, c) ==
    /\ Goes(m, t, pc, d, c)
    /\ pc \in Before => thr[m][t].pc \in Before
    /\ thr[m][t].pc \in Before \/ \A y \in Early : sent(y, m)' => sent(y, m)
    /\ \A y : sent(y, m) => sent(y, m)'

LEMMA ForwardFacts ==
    ASSUME NEW m \in Migrations, NEW t \in 0 .. MaxTerm, NEW pc, NEW d, NEW c, NEW f, NEW r,
           Place(m, f, r), Forward(m, t, pc, d, c)
    PROVE  /\ Live(m)' => Live(m)
           /\ Aborted(m) => Aborted(m)'
           /\ \A e : Correct(m, e) => Correct(m, e)'
           /\ \A u \in 0 .. MaxTerm : u # t => ThreadOK(m, u)'
           /\ t # term[f] /\ primary(f)' = primary(f) => DocumentOK(m)'
  <1>1. /\ thr'[m][t] = [pc |-> pc, decision |-> d, critSec |-> c]
        /\ \A u \in 0 .. MaxTerm : u # t => thr'[m][u] = thr[m][u]
    BY DEF Forward, Goes
  <1>2. thr'[m][t].pc = pc
    BY <1>1
  <1>3. Begun(m)' <=> Begun(m)
    BY DEF Place, Begun
  <1>4. Live(m)' => Live(m)
    <2>1. SUFFICES ASSUME Live(m)' PROVE Live(m)
      OBVIOUS
    <2>2. config.version = mig[m].version /\ Begun(m)
      BY <2>1, <1>3 DEF Live, Place
    <2>3. sent("commit", m) \/ \E u \in 0 .. MaxTerm : thr[m][u].pc \in Before
      BY <1>1, <1>2, <2>1 DEF Live, Forward, Early
    <2> QED BY <2>2, <2>3 DEF Live
  <1>5. Aborted(m) => Aborted(m)'
    BY <1>4 DEF Aborted, Place
  <1>6. \A e : Correct(m, e) => Correct(m, e)'
    BY <1>5 DEF Correct, Place
  <1>7. ASSUME NEW u \in 0 .. MaxTerm, u # t PROVE ThreadOK(m, u)'
    <2>1. ThreadOK(m, u) /\ ThreadOK(m, t)
      BY DEF Place
    <2>2. thr'[m][u] = thr[m][u]
      BY <1>1, <1>7
    <2>3. thr[m][u].pc \in Before => /\ thr[m][t].pc \notin Before /\ pc \notin Before
                                     /\ \A y \in Early : sent(y, m)' <=> sent(y, m)
      BY <1>7, <2>1 DEF ThreadOK, Forward
    <2>4. thr'[m][u].pc \in Before =>
            /\ ~sent("commit", m)'
            /\ \A v \in 0 .. MaxTerm : thr'[m][v].pc \in Before => v = u
      BY <1>1, <1>2, <2>1, <2>2, <2>3 DEF ThreadOK, Early
    <2>5. thr'[m][u].pc \in Starting => ~sent("recvChunkStart", m)' /\ recv'[r].m # m
      BY <2>1, <2>2, <2>3 DEF ThreadOK, Early, Before, Place
    <2>6. thr'[m][u].pc \in Starting \cup {"cloning"} =>
            /\ ~sent("recvChunkCommit", m)' /\ ~sent("received", m)'
            /\ recv'[r].m = m => recv'[r].state # "commitStart"
      BY <2>1, <2>2, <2>3 DEF ThreadOK, Early, Before, Cloning, Place
    <2>7. thr'[m][u].pc = "cloneCompleted" => sent("received", m)'
      BY <2>1, <2>2 DEF ThreadOK, Forward
    <2> QED BY <1>6, <2>1, <2>2, <2>4, <2>5, <2>6, <2>7 DEF ThreadOK, Place
  <1>8. ASSUME t # term[f], primary(f)' = primary(f) PROVE DocumentOK(m)'
    <2>1. thr'[m][term'[f]] = thr[m][term[f]]
      BY <1>1, <1>8 DEF Place
    <2>2. \A th, co : Agree(m, th, co) => Agree(m, th, co)'
      BY <1>6 DEF Agree
    <2>3. Agree(m, thr[m][term[f]], primary(f).coord[m])
      BY DEF Place, DocumentOK
    <2>4. Agree(m, thr[m][term[f]], primary(f).coord[m])'
      BY <1>8, <2>1, <2>2, <2>3 DEF Place
    <2> QED BY <2>4 DEF DocumentOK, Place
  <1> QED BY <1>4, <1>5, <1>6, <1>7, <1>8

LEMMA DonorStep ==
    ASSUME ControlInv, NEW m \in Migrations, Begun(m), NEW t \in 0 .. MaxTerm,
           Quiet, UNCHANGED <<log, term, recv, acked>>,
           MetaType', DelType', MsgType', ThrType',
           NEW pc, NEW d, NEW c, NEW f, NEW r, Local(m, f, r), Forward(m, t, pc, d, c),
           \A y, x : x # m => (sent(y, x)' <=> sent(y, x)),
           \A s \in Shard, x \in Migrations :
               del'[s][x].step = "replicate" => del[s][x].step = "replicate",
           MessageOK(m)', ThreadOK(m, t)', LiveOK(m)',
           t = term[f] =>
               Agree(m, [pc |-> pc, decision |-> d, critSec |-> c], primary(f).coord[m])'
    PROVE  ControlInv'
  <1>1. /\ Live(m)' => Live(m)
        /\ \A u \in 0 .. MaxTerm : u # t => ThreadOK(m, u)'
        /\ t # term[f] => DocumentOK(m)'
    BY ForwardFacts DEF Local
  <1>2. ASSUME t = term[f] PROVE DocumentOK(m)'
    <2>1. thr'[m][term'[f]] = [pc |-> pc, decision |-> d, critSec |-> c]
      BY <1>2 DEF Forward, Goes, Local, Place
    <2>2. Agree(m, [pc |-> pc, decision |-> d, critSec |-> c], primary(f).coord[m])'
      BY <1>2
    <2> QED BY <2>1, <2>2 DEF DocumentOK, Local, Place
  <1>3. MigrationInv(m)'
    BY <1>1, <1>2 DEF MigrationInv
  <1>4. Goes(m, t, pc, d, c)
    BY DEF Forward
  <1> QED BY <1>1, <1>3, <1>4, ThreadStep

LEMMA StartCloneStep ==
    ASSUME ControlInv, NEW m \in Migrations, NEW t \in 0 .. MaxTerm, StartClone(m, t)
    PROVE  ControlInv'
  <1>1. /\ thr[m][t].pc = "persistTask" /\ Quiet
        /\ UNCHANGED <<log, term, recv, acked, meta, del>>
    BY QuietFacts DEF StartClone, at
  <1>2. Begun(m) /\ ~(t > term[from(m)])
    BY <1>1, BegunThread
  <1>3. PICK f \in Shard, r \in Shard : Local(m, f, r)
    BY <1>1, <1>2, LocalFacts
  <1>4. PICK d, c : Goes(m, t, "cloning", d, c) /\ d = thr[m][t].decision /\ c = thr[m][t].critSec
    BY GotoFacts, Parts DEF StartClone, Pc, Before, Starting, Cloning, Undecided, Completing
  <1>5. ThrType'
    BY GotoFacts, Parts DEF StartClone, Pc, Before, Starting, Cloning, Undecided, Completing
  <1>6. Sends("recvChunkStart", m) /\ MsgType'
    BY SendFacts, Parts DEF StartClone, Request
  <1>7. Forward(m, t, "cloning", d, c)
    BY <1>1, <1>4, <1>6 DEF Forward, Sends, Early, Before, Starting, Cloning
  <1>8. /\ Live(m)' => Live(m)
        /\ Aborted(m) => Aborted(m)'
        /\ \A e : Correct(m, e) => Correct(m, e)'
    BY <1>3, <1>7, ForwardFacts DEF Local
  <1>9. /\ MessageOK(m) /\ ThreadOK(m, t) /\ LiveOK(m) /\ Agree(m, thr[m][term[f]], primary(f).coord[m])
        /\ thr'[m][t] = [pc |-> "cloning", decision |-> d, critSec |-> c]
        /\ \A u \in 0 .. MaxTerm : u # t => thr'[m][u] = thr[m][u]
    BY <1>3, <1>7 DEF Local, Place, DocumentOK, Forward, Goes
  <1>10. \A st \in States(f) : st.task[m] = "pending"
    BY <1>3 DEF StartClone, taskDurable, States, Local, Place
  <1>11. MessageOK(m)'
    BY <1>1, <1>3, <1>4, <1>6, <1>8, <1>9, <1>10 DEF MessageOK, ThreadOK, Local, Place, Sends, Before, Starting, Cloning, Undecided, Completing
  <1>12. ThreadOK(m, t)'
    BY <1>1, <1>2, <1>3, <1>4, <1>6, <1>8, <1>9, <1>10 DEF ThreadOK, MessageOK, Local, Place, Sends, Before, Starting, Cloning, Undecided, Completing
  <1>13. LiveOK(m)'
    BY <1>1, <1>3, <1>4, <1>6, <1>8, <1>9, <1>10 DEF LiveOK, Local, Place, Sends, Before, Starting, Cloning, Undecided, Completing, Reserved
  <1>14. t = term[f] =>
           Agree(m, [pc |-> "cloning", decision |-> d, critSec |-> c], primary(f).coord[m])'
    BY <1>1, <1>3, <1>4, <1>6, <1>8, <1>9, <1>10 DEF Agree, Local, Place, Before, Starting, Cloning, Undecided, Completing
  <1>15. MetaType' /\ DelType'
    BY <1>1, Parts DEF MetaType, DelType
  <1> QED BY <1>1, <1>2, <1>3, <1>5, <1>6, <1>7, <1>11, <1>12, <1>13, <1>14, <1>15, DonorStep
          DEF Sends

LEMMA CommitChunkOnRecipientStep ==
    ASSUME ControlInv, NEW m \in Migrations, NEW t \in 0 .. MaxTerm, CommitChunkOnRecipient(m, t)
    PROVE  ControlInv'
  <1>1. /\ thr[m][t].pc = "critical" /\ sent("received", m) /\ Quiet
        /\ UNCHANGED <<log, term, recv, acked, meta, del>>
    BY QuietFacts DEF CommitChunkOnRecipient, at
  <1>2. Begun(m) /\ ~(t > term[from(m)])
    BY <1>1, BegunThread
  <1>3. PICK f \in Shard, r \in Shard : Local(m, f, r)
    BY <1>1, <1>2, LocalFacts
  <1>4. PICK d, c : Goes(m, t, "cloneCompleted", d, c) /\ d = thr[m][t].decision /\ c = thr[m][t].critSec
    BY GotoFacts, Parts DEF CommitChunkOnRecipient, Pc, Before, Starting, Cloning, Undecided, Completing
  <1>5. ThrType'
    BY GotoFacts, Parts DEF CommitChunkOnRecipient, Pc, Before, Starting, Cloning, Undecided, Completing
  <1>6. SameMessages /\ MsgType'
    BY NoMessageFacts, Parts DEF CommitChunkOnRecipient
  <1>7. Forward(m, t, "cloneCompleted", d, c)
    BY <1>1, <1>4, <1>6 DEF Forward, SameMessages, Early, Before, Starting, Cloning
  <1>8. /\ Live(m)' => Live(m)
        /\ Aborted(m) => Aborted(m)'
        /\ \A e : Correct(m, e) => Correct(m, e)'
    BY <1>3, <1>7, ForwardFacts DEF Local
  <1>9. /\ MessageOK(m) /\ ThreadOK(m, t) /\ LiveOK(m) /\ Agree(m, thr[m][term[f]], primary(f).coord[m])
        /\ thr'[m][t] = [pc |-> "cloneCompleted", decision |-> d, critSec |-> c]
        /\ \A u \in 0 .. MaxTerm : u # t => thr'[m][u] = thr[m][u]
    BY <1>3, <1>7 DEF Local, Place, DocumentOK, Forward, Goes
  <1>11. MessageOK(m)'
    BY <1>1, <1>3, <1>4, <1>6, <1>8, <1>9 DEF MessageOK, ThreadOK, Local, Place, SameMessages, Before, Starting, Cloning, Undecided, Completing
  <1>12. ThreadOK(m, t)'
    BY <1>1, <1>2, <1>3, <1>4, <1>6, <1>8, <1>9 DEF ThreadOK, MessageOK, Local, Place, SameMessages, Before, Starting, Cloning, Undecided, Completing
  <1>13. LiveOK(m)'
    BY <1>1, <1>3, <1>4, <1>6, <1>8, <1>9 DEF LiveOK, Local, Place, SameMessages, Before, Starting, Cloning, Undecided, Completing, Reserved
  <1>14. t = term[f] =>
           Agree(m, [pc |-> "cloneCompleted", decision |-> d, critSec |-> c], primary(f).coord[m])'
    BY <1>1, <1>3, <1>4, <1>6, <1>8, <1>9 DEF Agree, Local, Place, Before, Starting, Cloning, Undecided, Completing
  <1>15. MetaType' /\ DelType'
    BY <1>1, Parts DEF MetaType, DelType
  <1> QED BY <1>1, <1>2, <1>3, <1>5, <1>6, <1>7, <1>11, <1>12, <1>13, <1>14, <1>15, DonorStep
          DEF SameMessages

LEMMA CommitChunkMetadataOnConfigStep ==
    ASSUME ControlInv, NEW m \in Migrations, NEW t \in 0 .. MaxTerm, CommitChunkMetadataOnConfig(m, t)
    PROVE  ControlInv'
  <1>1. /\ thr[m][t].pc = "cloneCompleted" /\ Quiet
        /\ UNCHANGED <<log, term, recv, acked, meta, del>>
    BY QuietFacts DEF CommitChunkMetadataOnConfig, at
  <1>2. Begun(m) /\ ~(t > term[from(m)])
    BY <1>1, BegunThread
  <1>3. PICK f \in Shard, r \in Shard : Local(m, f, r)
    BY <1>1, <1>2, LocalFacts
  <1>4. PICK d, c : Goes(m, t, "committing", d, c) /\ d = thr[m][t].decision /\ c = thr[m][t].critSec
    BY GotoFacts, Parts DEF CommitChunkMetadataOnConfig, Pc, Before, Starting, Cloning, Undecided, Completing
  <1>5. ThrType'
    BY GotoFacts, Parts DEF CommitChunkMetadataOnConfig, Pc, Before, Starting, Cloning, Undecided, Completing
  <1>6. Sends("commit", m) /\ MsgType'
    BY SendFacts, Parts DEF CommitChunkMetadataOnConfig, Request
  <1>7. Forward(m, t, "committing", d, c)
    BY <1>1, <1>4, <1>6 DEF Forward, Sends, Early, Before, Starting, Cloning
  <1>8. /\ Live(m)' => Live(m)
        /\ Aborted(m) => Aborted(m)'
        /\ \A e : Correct(m, e) => Correct(m, e)'
    BY <1>3, <1>7, ForwardFacts DEF Local
  <1>9. /\ MessageOK(m) /\ ThreadOK(m, t) /\ LiveOK(m) /\ Agree(m, thr[m][term[f]], primary(f).coord[m])
        /\ thr'[m][t] = [pc |-> "committing", decision |-> d, critSec |-> c]
        /\ \A u \in 0 .. MaxTerm : u # t => thr'[m][u] = thr[m][u]
    BY <1>3, <1>7 DEF Local, Place, DocumentOK, Forward, Goes
  <1>11. MessageOK(m)'
    BY <1>1, <1>3, <1>4, <1>6, <1>8, <1>9 DEF MessageOK, ThreadOK, Local, Place, Sends, Before, Starting, Cloning, Undecided, Completing
  <1>12. ThreadOK(m, t)'
    BY <1>1, <1>2, <1>3, <1>4, <1>6, <1>8, <1>9 DEF ThreadOK, MessageOK, Local, Place, Sends, Before, Starting, Cloning, Undecided, Completing
  <1>13. LiveOK(m)'
    BY <1>1, <1>3, <1>4, <1>6, <1>8, <1>9 DEF LiveOK, Local, Place, Sends, Before, Starting, Cloning, Undecided, Completing, Reserved
  <1>14. t = term[f] =>
           Agree(m, [pc |-> "committing", decision |-> d, critSec |-> c], primary(f).coord[m])'
    BY <1>1, <1>3, <1>4, <1>6, <1>8, <1>9 DEF Agree, Local, Place, Before, Starting, Cloning, Undecided, Completing
  <1>15. MetaType' /\ DelType'
    BY <1>1, Parts DEF MetaType, DelType
  <1> QED BY <1>1, <1>2, <1>3, <1>5, <1>6, <1>7, <1>11, <1>12, <1>13, <1>14, <1>15, DonorStep
          DEF Sends

LEMMA CommitAnsweredStep ==
    ASSUME ControlInv, NEW m \in Migrations, NEW t \in 0 .. MaxTerm, CommitAnswered(m, t)
    PROVE  ControlInv'
  <1>1. /\ thr[m][t].pc = "committing" /\ m \in committed /\ Quiet
        /\ UNCHANGED <<log, term, recv, acked, meta, del>>
    BY QuietFacts DEF CommitAnswered, at
  <1>2. Begun(m) /\ ~(t > term[from(m)])
    BY <1>1, BegunThread
  <1>3. PICK f \in Shard, r \in Shard : Local(m, f, r)
    BY <1>1, <1>2, LocalFacts
  <1>4. PICK d, c : Goes(m, t, "confirm", d, c) /\ d = thr[m][t].decision /\ c = thr[m][t].critSec
    BY GotoFacts, Parts DEF CommitAnswered, Pc, Before, Starting, Cloning, Undecided, Completing
  <1>5. ThrType'
    BY GotoFacts, Parts DEF CommitAnswered, Pc, Before, Starting, Cloning, Undecided, Completing
  <1>6. SameMessages /\ MsgType'
    BY NoMessageFacts, Parts DEF CommitAnswered
  <1>7. Forward(m, t, "confirm", d, c)
    BY <1>1, <1>4, <1>6 DEF Forward, SameMessages, Early, Before, Starting, Cloning
  <1>8. /\ Live(m)' => Live(m)
        /\ Aborted(m) => Aborted(m)'
        /\ \A e : Correct(m, e) => Correct(m, e)'
    BY <1>3, <1>7, ForwardFacts DEF Local
  <1>9. /\ MessageOK(m) /\ ThreadOK(m, t) /\ LiveOK(m) /\ Agree(m, thr[m][term[f]], primary(f).coord[m])
        /\ thr'[m][t] = [pc |-> "confirm", decision |-> d, critSec |-> c]
        /\ \A u \in 0 .. MaxTerm : u # t => thr'[m][u] = thr[m][u]
    BY <1>3, <1>7 DEF Local, Place, DocumentOK, Forward, Goes
  <1>11. MessageOK(m)'
    BY <1>1, <1>3, <1>4, <1>6, <1>8, <1>9 DEF MessageOK, ThreadOK, Local, Place, SameMessages, Before, Starting, Cloning, Undecided, Completing
  <1>12. ThreadOK(m, t)'
    BY <1>1, <1>2, <1>3, <1>4, <1>6, <1>8, <1>9 DEF ThreadOK, MessageOK, Local, Place, SameMessages, Before, Starting, Cloning, Undecided, Completing
  <1>13. LiveOK(m)'
    BY <1>1, <1>3, <1>4, <1>6, <1>8, <1>9 DEF LiveOK, Local, Place, SameMessages, Before, Starting, Cloning, Undecided, Completing, Reserved
  <1>14. t = term[f] =>
           Agree(m, [pc |-> "confirm", decision |-> d, critSec |-> c], primary(f).coord[m])'
    BY <1>1, <1>3, <1>4, <1>6, <1>8, <1>9 DEF Agree, Local, Place, Before, Starting, Cloning, Undecided, Completing
  <1>15. MetaType' /\ DelType'
    BY <1>1, Parts DEF MetaType, DelType
  <1> QED BY <1>1, <1>2, <1>3, <1>5, <1>6, <1>7, <1>11, <1>12, <1>13, <1>14, <1>15, DonorStep
          DEF SameMessages

LEMMA CommitFailedStep ==
    ASSUME ControlInv, NEW m \in Migrations, NEW t \in 0 .. MaxTerm, CommitFailed(m, t)
    PROVE  ControlInv'
  <1>1. /\ thr[m][t].pc = "committing" /\ Quiet
        /\ UNCHANGED <<log, term, recv, acked, meta, del>>
    BY QuietFacts DEF CommitFailed, at
  <1>2. Begun(m) /\ ~(t > term[from(m)])
    BY <1>1, BegunThread
  <1>3. PICK f \in Shard, r \in Shard : Local(m, f, r)
    BY <1>1, <1>2, LocalFacts
  <1>4. PICK d, c : Goes(m, t, "ensure", d, c) /\ d = thr[m][t].decision /\ c = thr[m][t].critSec
    BY GotoFacts, Parts DEF CommitFailed, Pc, Before, Starting, Cloning, Undecided, Completing
  <1>5. ThrType'
    BY GotoFacts, Parts DEF CommitFailed, Pc, Before, Starting, Cloning, Undecided, Completing
  <1>6. SameMessages /\ MsgType'
    BY NoMessageFacts, Parts DEF CommitFailed
  <1>7. Forward(m, t, "ensure", d, c)
    BY <1>1, <1>4, <1>6 DEF Forward, SameMessages, Early, Before, Starting, Cloning
  <1>8. /\ Live(m)' => Live(m)
        /\ Aborted(m) => Aborted(m)'
        /\ \A e : Correct(m, e) => Correct(m, e)'
    BY <1>3, <1>7, ForwardFacts DEF Local
  <1>9. /\ MessageOK(m) /\ ThreadOK(m, t) /\ LiveOK(m) /\ Agree(m, thr[m][term[f]], primary(f).coord[m])
        /\ thr'[m][t] = [pc |-> "ensure", decision |-> d, critSec |-> c]
        /\ \A u \in 0 .. MaxTerm : u # t => thr'[m][u] = thr[m][u]
    BY <1>3, <1>7 DEF Local, Place, DocumentOK, Forward, Goes
  <1>11. MessageOK(m)'
    BY <1>1, <1>3, <1>4, <1>6, <1>8, <1>9 DEF MessageOK, ThreadOK, Local, Place, SameMessages, Before, Starting, Cloning, Undecided, Completing
  <1>12. ThreadOK(m, t)'
    BY <1>1, <1>2, <1>3, <1>4, <1>6, <1>8, <1>9 DEF ThreadOK, MessageOK, Local, Place, SameMessages, Before, Starting, Cloning, Undecided, Completing
  <1>13. LiveOK(m)'
    BY <1>1, <1>3, <1>4, <1>6, <1>8, <1>9 DEF LiveOK, Local, Place, SameMessages, Before, Starting, Cloning, Undecided, Completing, Reserved
  <1>14. t = term[f] =>
           Agree(m, [pc |-> "ensure", decision |-> d, critSec |-> c], primary(f).coord[m])'
    BY <1>1, <1>3, <1>4, <1>6, <1>8, <1>9 DEF Agree, Local, Place, Before, Starting, Cloning, Undecided, Completing
  <1>15. MetaType' /\ DelType'
    BY <1>1, Parts DEF MetaType, DelType
  <1> QED BY <1>1, <1>2, <1>3, <1>5, <1>6, <1>7, <1>11, <1>12, <1>13, <1>14, <1>15, DonorStep
          DEF SameMessages

LEMMA EnterCriticalSectionStep ==
    ASSUME ControlInv, NEW m \in Migrations, NEW t \in 0 .. MaxTerm, EnterCriticalSection(m, t)
    PROVE  ControlInv'
  <1>1. /\ thr[m][t].pc = "cloning" /\ Quiet
        /\ UNCHANGED <<log, term, recv, acked, meta, del>>
    BY QuietFacts DEF EnterCriticalSection, at
  <1>2. Begun(m) /\ ~(t > term[from(m)])
    BY <1>1, BegunThread
  <1>3. PICK f \in Shard, r \in Shard : Local(m, f, r)
    BY <1>1, <1>2, LocalFacts
  <1> DEFINE th == [pc |-> "critical", decision |-> thr[m][t].decision, critSec |-> TRUE]
  <1>31. Goes(m, t, th.pc, th.decision, th.critSec) /\ ThrType'
    <2>1. thr[m][t] \in Thread /\ thr \in [Migrations -> [0 .. MaxTerm -> Thread]]
      BY Parts DEF ThrType
    <2>2. thr' = [thr EXCEPT ![m][t].pc = "critical", ![m][t].critSec = TRUE]
      BY DEF EnterCriticalSection
    <2>3. /\ thr' \in [Migrations -> [0 .. MaxTerm -> Thread]] /\ thr'[m][t] = th
          /\ \A x \in Migrations, u \in 0 .. MaxTerm : x # m \/ u # t => thr'[x][u] = thr[x][u]
      BY <2>1, <2>2 DEF Thread, Pc, Undecided, Before, Cloning
    <2> QED BY <2>3 DEF Goes, ThrType
  <1>4. PICK d, c : Goes(m, t, "critical", d, c) /\ d = th.decision /\ c = TRUE
    BY <1>31
  <1>5. ThrType'
    BY <1>31
  <1> HIDE DEF th
  <1>6. Sends("recvChunkCommit", m) /\ MsgType'
    BY SendFacts, Parts DEF EnterCriticalSection, Request
  <1>7. Forward(m, t, "critical", d, c)
    BY <1>1, <1>4, <1>6 DEF Forward, Sends, Early, Before, Starting, Cloning
  <1>8. /\ Live(m)' => Live(m)
        /\ Aborted(m) => Aborted(m)'
        /\ \A e : Correct(m, e) => Correct(m, e)'
    BY <1>3, <1>7, ForwardFacts DEF Local
  <1>9. /\ MessageOK(m) /\ ThreadOK(m, t) /\ LiveOK(m) /\ Agree(m, thr[m][term[f]], primary(f).coord[m])
        /\ thr'[m][t] = [pc |-> "critical", decision |-> d, critSec |-> c]
        /\ \A u \in 0 .. MaxTerm : u # t => thr'[m][u] = thr[m][u]
    BY <1>3, <1>7 DEF Local, Place, DocumentOK, Forward, Goes
  <1>10. thr'[m][t].critSec
    <2>1. thr'[m][t] = [pc |-> "critical", decision |-> d, critSec |-> TRUE]
      BY <1>4, <1>9
    <2> QED BY <2>1
  <1>11. MessageOK(m)'
    BY <1>1, <1>3, <1>4, <1>6, <1>8, <1>9, <1>10 DEF MessageOK, ThreadOK, Local, Place, Sends, Before, Starting, Cloning, Undecided, Completing
  <1>12. ThreadOK(m, t)'
    <2>1. thr'[m][t].pc = "critical" /\ thr[m][t].pc \in Before
      BY <1>1, <1>9 DEF Before, Cloning
    <2>2. /\ ~sent("commit", m)'
          /\ \A u \in 0 .. MaxTerm : thr'[m][u].pc \in Before => u = t
      BY <1>6, <1>9, <2>1 DEF ThreadOK, Sends
    <2> QED BY <1>2, <1>3, <1>10, <2>1, <2>2 DEF ThreadOK, Local, Place, Starting, Completing
  <1>13. LiveOK(m)'
    BY <1>1, <1>3, <1>4, <1>6, <1>8, <1>9, <1>10 DEF LiveOK, Local, Place, Sends, Before, Starting, Cloning, Undecided, Completing, Reserved
  <1>14. t = term[f] =>
           Agree(m, [pc |-> "critical", decision |-> d, critSec |-> c], primary(f).coord[m])'
    BY <1>1, <1>3, <1>4, <1>6, <1>8, <1>9, <1>10 DEF Agree, Local, Place, Before, Starting, Cloning, Undecided, Completing
  <1>15. MetaType' /\ DelType'
    BY <1>1, Parts DEF MetaType, DelType
  <1> QED BY <1>1, <1>2, <1>3, <1>5, <1>6, <1>7, <1>11, <1>12, <1>13, <1>14, <1>15, DonorStep
          DEF Sends

LEMMA CleanupOnErrorStep ==
    ASSUME ControlInv, NEW m \in Migrations, NEW t \in 0 .. MaxTerm, CleanupOnError(m, t)
    PROVE  ControlInv'
  <1>1. /\ thr[m][t].pc \in Before /\ Quiet
        /\ UNCHANGED <<log, term, recv, acked, meta, del>>
    BY QuietFacts DEF CleanupOnError, at, Before, Starting, Cloning
  <1>2. Begun(m) /\ ~(t > term[from(m)])
    BY <1>1, BegunThread DEF Before, Starting, Cloning
  <1>3. PICK f \in Shard, r \in Shard : Local(m, f, r)
    BY <1>1, <1>2, LocalFacts
  <1> DEFINE th == [pc |-> "decide", decision |-> "aborted", critSec |-> FALSE]
  <1>30. th \in Thread /\ thr' = [thr EXCEPT ![m][t] = th]
    BY DEF CleanupOnError, Thread, Pc
  <1>31. Goes(m, t, th.pc, th.decision, th.critSec) /\ ThrType'
    <2> HIDE DEF th
    <2> QED BY <1>30, SetFacts, Parts
  <1>4. PICK d, c : Goes(m, t, "decide", d, c) /\ d = th.decision /\ c = th.critSec
    BY <1>31
  <1>5. ThrType'
    BY <1>31
  <1> HIDE DEF th
  <1>6. SameMessages /\ MsgType'
    BY NoMessageFacts, Parts DEF CleanupOnError
  <1>7. Forward(m, t, "decide", d, c)
    BY <1>1, <1>4, <1>6 DEF Forward, SameMessages, Early, Before, Starting, Cloning
  <1>8. /\ Live(m)' => Live(m)
        /\ Aborted(m) => Aborted(m)'
        /\ \A e : Correct(m, e) => Correct(m, e)'
    BY <1>3, <1>7, ForwardFacts DEF Local
  <1>9. /\ MessageOK(m) /\ ThreadOK(m, t) /\ LiveOK(m) /\ Agree(m, thr[m][term[f]], primary(f).coord[m])
        /\ thr'[m][t] = [pc |-> "decide", decision |-> d, critSec |-> c]
        /\ \A u \in 0 .. MaxTerm : u # t => thr'[m][u] = thr[m][u]
    BY <1>3, <1>7 DEF Local, Place, DocumentOK, Forward, Goes
  <1>33. d = "aborted"
    BY <1>4 DEF th
  <1>10. Aborted(m)'
    <2>1. m \notin committed' /\ ~sent("commit", m)'
      BY <1>1, <1>3, <1>6, <1>9 DEF ThreadOK, MessageOK, SameMessages, Local, Place
    <2>2. \A u \in 0 .. MaxTerm : thr'[m][u].pc \notin Before
      BY <1>1, <1>9 DEF ThreadOK, Before, Starting, Cloning
    <2> QED BY <2>1, <2>2 DEF Aborted, Live
  <1>11. MessageOK(m)'
    BY <1>1, <1>3, <1>4, <1>6, <1>8, <1>9, <1>10, <1>33 DEF MessageOK, ThreadOK, Local, Place, SameMessages, Before, Starting, Cloning, Undecided, Completing
  <1>12. ThreadOK(m, t)'
    BY <1>1, <1>2, <1>3, <1>4, <1>6, <1>8, <1>9, <1>10, <1>33 DEF ThreadOK, MessageOK, Local, Place, SameMessages, Before, Starting, Cloning, Undecided, Completing
  <1>13. LiveOK(m)'
    BY <1>1, <1>3, <1>4, <1>6, <1>8, <1>9, <1>10, <1>33 DEF LiveOK, Local, Place, SameMessages, Before, Starting, Cloning, Undecided, Completing, Reserved
  <1>14. t = term[f] =>
           Agree(m, [pc |-> "decide", decision |-> d, critSec |-> c], primary(f).coord[m])'
    BY <1>1, <1>3, <1>9, <1>10, <1>33 DEF Agree, Correct, Local, Place, Before, Starting, Cloning, Undecided, Completing
  <1>15. MetaType' /\ DelType'
    BY <1>1, Parts DEF MetaType, DelType
  <1> QED BY <1>1, <1>2, <1>3, <1>5, <1>6, <1>7, <1>11, <1>12, <1>13, <1>14, <1>15, DonorStep
          DEF SameMessages

LEMMA AdvanceTransactionOnRecipientStep ==
    ASSUME ControlInv, NEW m \in Migrations, NEW t \in 0 .. MaxTerm, AdvanceTransactionOnRecipient(m, t)
    PROVE  ControlInv'
  <1>1. /\ thr[m][t].pc = "persistDecision" /\ Quiet
        /\ UNCHANGED <<log, term, recv, acked, meta, del>>
    BY QuietFacts DEF AdvanceTransactionOnRecipient, at
  <1>2. Begun(m) /\ ~(t > term[from(m)])
    BY <1>1, BegunThread
  <1>3. PICK f \in Shard, r \in Shard : Local(m, f, r)
    BY <1>1, <1>2, LocalFacts
  <1>4. PICK d, c : Goes(m, t, "advance", d, c) /\ d = thr[m][t].decision /\ c = thr[m][t].critSec
    BY GotoFacts, Parts DEF AdvanceTransactionOnRecipient, Pc, Before, Starting, Cloning, Undecided, Completing
  <1>5. ThrType'
    BY GotoFacts, Parts DEF AdvanceTransactionOnRecipient, Pc, Before, Starting, Cloning, Undecided, Completing
  <1>6. Sends("advanceTransaction", m) /\ MsgType'
    BY SendFacts, Parts DEF AdvanceTransactionOnRecipient, Request
  <1>7. Forward(m, t, "advance", d, c)
    BY <1>1, <1>4, <1>6 DEF Forward, Sends, Early, Before, Starting, Cloning
  <1>8. /\ Live(m)' => Live(m)
        /\ Aborted(m) => Aborted(m)'
        /\ \A e : Correct(m, e) => Correct(m, e)'
    BY <1>3, <1>7, ForwardFacts DEF Local
  <1>9. /\ MessageOK(m) /\ ThreadOK(m, t) /\ LiveOK(m) /\ Agree(m, thr[m][term[f]], primary(f).coord[m])
        /\ thr'[m][t] = [pc |-> "advance", decision |-> d, critSec |-> c]
        /\ \A u \in 0 .. MaxTerm : u # t => thr'[m][u] = thr[m][u]
    BY <1>3, <1>7 DEF Local, Place, DocumentOK, Forward, Goes
  <1>11. MessageOK(m)'
    BY <1>1, <1>3, <1>4, <1>6, <1>8, <1>9 DEF MessageOK, ThreadOK, Local, Place, Sends, Before, Starting, Cloning, Undecided, Completing
  <1>12. ThreadOK(m, t)'
    BY <1>1, <1>2, <1>3, <1>4, <1>6, <1>8, <1>9 DEF ThreadOK, MessageOK, Local, Place, Sends, Before, Starting, Cloning, Undecided, Completing
  <1>13. LiveOK(m)'
    BY <1>1, <1>3, <1>4, <1>6, <1>8, <1>9 DEF LiveOK, Local, Place, Sends, Before, Starting, Cloning, Undecided, Completing, Reserved
  <1>14. t = term[f] =>
           Agree(m, [pc |-> "advance", decision |-> d, critSec |-> c], primary(f).coord[m])'
    BY <1>1, <1>3, <1>4, <1>6, <1>8, <1>9 DEF Agree, Local, Place, Before, Starting, Cloning, Undecided, Completing
  <1>15. MetaType' /\ DelType'
    BY <1>1, Parts DEF MetaType, DelType
  <1> QED BY <1>1, <1>2, <1>3, <1>5, <1>6, <1>7, <1>11, <1>12, <1>13, <1>14, <1>15, DonorStep
          DEF Sends

LEMMA DeleteTaskOnRecipientStep ==
    ASSUME ControlInv, NEW m \in Migrations, NEW t \in 0 .. MaxTerm, DeleteTaskOnRecipient(m, t)
    PROVE  ControlInv'
  <1>1. /\ thr[m][t].pc = "advance" /\ thr[m][t].decision = "committed" /\ Quiet
        /\ UNCHANGED <<log, term, recv, acked, meta, del>>
    BY QuietFacts DEF DeleteTaskOnRecipient, at
  <1>2. Begun(m) /\ ~(t > term[from(m)])
    BY <1>1, BegunThread
  <1>3. PICK f \in Shard, r \in Shard : Local(m, f, r)
    BY <1>1, <1>2, LocalFacts
  <1>4. PICK d, c : Goes(m, t, "recipientTask", d, c) /\ d = thr[m][t].decision /\ c = thr[m][t].critSec
    BY GotoFacts, Parts DEF DeleteTaskOnRecipient, Pc, Before, Starting, Cloning, Undecided, Completing
  <1>5. ThrType'
    BY GotoFacts, Parts DEF DeleteTaskOnRecipient, Pc, Before, Starting, Cloning, Undecided, Completing
  <1>6. Sends("deleteTask", m) /\ MsgType'
    BY SendFacts, Parts DEF DeleteTaskOnRecipient, Request
  <1>7. Forward(m, t, "recipientTask", d, c)
    BY <1>1, <1>4, <1>6 DEF Forward, Sends, Early, Before, Starting, Cloning
  <1>8. /\ Live(m)' => Live(m)
        /\ Aborted(m) => Aborted(m)'
        /\ \A e : Correct(m, e) => Correct(m, e)'
    BY <1>3, <1>7, ForwardFacts DEF Local
  <1>9. /\ MessageOK(m) /\ ThreadOK(m, t) /\ LiveOK(m) /\ Agree(m, thr[m][term[f]], primary(f).coord[m])
        /\ thr'[m][t] = [pc |-> "recipientTask", decision |-> d, critSec |-> c]
        /\ \A u \in 0 .. MaxTerm : u # t => thr'[m][u] = thr[m][u]
    BY <1>3, <1>7 DEF Local, Place, DocumentOK, Forward, Goes
  <1>10. m \in committed /\ Closed(m)
    <2>1. m \in committed
      BY <1>1, <1>9 DEF ThreadOK, Correct, Completing
    <2>2. txnDurable(r, m)
      BY <1>3 DEF DeleteTaskOnRecipient, Local, Place
    <2>3. Closed(m)
      BY <1>3, <2>2 DEF txnDurable, Closed, States, Local, Place
    <2> QED BY <2>1, <2>3
  <1>11. MessageOK(m)'
    BY <1>1, <1>3, <1>4, <1>6, <1>8, <1>9, <1>10 DEF MessageOK, ThreadOK, Local, Place, Sends, Before, Starting, Cloning, Undecided, Completing
  <1>12. ThreadOK(m, t)'
    BY <1>1, <1>2, <1>3, <1>4, <1>6, <1>8, <1>9, <1>10 DEF ThreadOK, MessageOK, Local, Place, Sends, Before, Starting, Cloning, Undecided, Completing
  <1>13. LiveOK(m)'
    BY <1>1, <1>3, <1>4, <1>6, <1>8, <1>9, <1>10 DEF LiveOK, Local, Place, Sends, Before, Starting, Cloning, Undecided, Completing, Reserved
  <1>14. t = term[f] =>
           Agree(m, [pc |-> "recipientTask", decision |-> d, critSec |-> c], primary(f).coord[m])'
    BY <1>1, <1>3, <1>4, <1>6, <1>8, <1>9, <1>10 DEF Agree, Local, Place, Before, Starting, Cloning, Undecided, Completing
  <1>15. MetaType' /\ DelType'
    BY <1>1, Parts DEF MetaType, DelType
  <1> QED BY <1>1, <1>2, <1>3, <1>5, <1>6, <1>7, <1>11, <1>12, <1>13, <1>14, <1>15, DonorStep
          DEF Sends

LEMMA MarkAsReadyOnRecipientStep ==
    ASSUME ControlInv, NEW m \in Migrations, NEW t \in 0 .. MaxTerm, MarkAsReadyOnRecipient(m, t)
    PROVE  ControlInv'
  <1>1. /\ thr[m][t].pc = "donorTask" /\ thr[m][t].decision = "aborted" /\ Quiet
        /\ UNCHANGED <<log, term, recv, acked, meta, del>>
    BY QuietFacts DEF MarkAsReadyOnRecipient, at
  <1>2. Begun(m) /\ ~(t > term[from(m)])
    BY <1>1, BegunThread
  <1>3. PICK f \in Shard, r \in Shard : Local(m, f, r)
    BY <1>1, <1>2, LocalFacts
  <1>4. PICK d, c : Goes(m, t, "recipientTask", d, c) /\ d = thr[m][t].decision /\ c = thr[m][t].critSec
    BY GotoFacts, Parts DEF MarkAsReadyOnRecipient, Pc, Before, Starting, Cloning, Undecided, Completing
  <1>5. ThrType'
    BY GotoFacts, Parts DEF MarkAsReadyOnRecipient, Pc, Before, Starting, Cloning, Undecided, Completing
  <1>6. Sends("readyTask", m) /\ MsgType'
    BY SendFacts, Parts DEF MarkAsReadyOnRecipient, Request
  <1>7. Forward(m, t, "recipientTask", d, c)
    BY <1>1, <1>4, <1>6 DEF Forward, Sends, Early, Before, Starting, Cloning
  <1>8. /\ Live(m)' => Live(m)
        /\ Aborted(m) => Aborted(m)'
        /\ \A e : Correct(m, e) => Correct(m, e)'
    BY <1>3, <1>7, ForwardFacts DEF Local
  <1>9. /\ MessageOK(m) /\ ThreadOK(m, t) /\ LiveOK(m) /\ Agree(m, thr[m][term[f]], primary(f).coord[m])
        /\ thr'[m][t] = [pc |-> "recipientTask", decision |-> d, critSec |-> c]
        /\ \A u \in 0 .. MaxTerm : u # t => thr'[m][u] = thr[m][u]
    BY <1>3, <1>7 DEF Local, Place, DocumentOK, Forward, Goes
  <1>10. Aborted(m) /\ Closed(m)
    BY <1>1, <1>9 DEF ThreadOK, Correct, Completing
  <1>11. MessageOK(m)'
    BY <1>1, <1>3, <1>4, <1>6, <1>8, <1>9, <1>10 DEF MessageOK, ThreadOK, Local, Place, Sends, Before, Starting, Cloning, Undecided, Completing
  <1>12. ThreadOK(m, t)'
    BY <1>1, <1>2, <1>3, <1>4, <1>6, <1>8, <1>9, <1>10 DEF ThreadOK, MessageOK, Local, Place, Sends, Before, Starting, Cloning, Undecided, Completing
  <1>13. LiveOK(m)'
    BY <1>1, <1>3, <1>4, <1>6, <1>8, <1>9, <1>10 DEF LiveOK, Local, Place, Sends, Before, Starting, Cloning, Undecided, Completing, Reserved
  <1>14. t = term[f] =>
           Agree(m, [pc |-> "recipientTask", decision |-> d, critSec |-> c], primary(f).coord[m])'
    BY <1>1, <1>3, <1>4, <1>6, <1>8, <1>9, <1>10 DEF Agree, Local, Place, Before, Starting, Cloning, Undecided, Completing
  <1>15. MetaType' /\ DelType'
    BY <1>1, Parts DEF MetaType, DelType
  <1> QED BY <1>1, <1>2, <1>3, <1>5, <1>6, <1>7, <1>11, <1>12, <1>13, <1>14, <1>15, DonorStep
          DEF Sends

LEMMA AbortDeliveredStep ==
    ASSUME ControlInv, NEW m \in Migrations, NEW t \in 0 .. MaxTerm, AbortDelivered(m, t)
    PROVE  ControlInv'
  <1>1. /\ thr[m][t].pc = "recipientTask" /\ Quiet
        /\ UNCHANGED <<log, term, recv, acked, meta, del>>
    BY QuietFacts DEF AbortDelivered, at
  <1>2. Begun(m) /\ ~(t > term[from(m)])
    BY <1>1, BegunThread
  <1>3. PICK f \in Shard, r \in Shard : Local(m, f, r)
    BY <1>1, <1>2, LocalFacts
  <1>4. PICK d, c : Goes(m, t, "forget", d, c) /\ d = thr[m][t].decision /\ c = thr[m][t].critSec
    BY GotoFacts, Parts DEF AbortDelivered, Pc, Before, Starting, Cloning, Undecided, Completing
  <1>5. ThrType'
    BY GotoFacts, Parts DEF AbortDelivered, Pc, Before, Starting, Cloning, Undecided, Completing
  <1>6. SameMessages /\ MsgType'
    BY NoMessageFacts, Parts DEF AbortDelivered
  <1>7. Forward(m, t, "forget", d, c)
    BY <1>1, <1>4, <1>6 DEF Forward, SameMessages, Early, Before, Starting, Cloning
  <1>8. /\ Live(m)' => Live(m)
        /\ Aborted(m) => Aborted(m)'
        /\ \A e : Correct(m, e) => Correct(m, e)'
    BY <1>3, <1>7, ForwardFacts DEF Local
  <1>9. /\ MessageOK(m) /\ ThreadOK(m, t) /\ LiveOK(m) /\ Agree(m, thr[m][term[f]], primary(f).coord[m])
        /\ thr'[m][t] = [pc |-> "forget", decision |-> d, critSec |-> c]
        /\ \A u \in 0 .. MaxTerm : u # t => thr'[m][u] = thr[m][u]
    BY <1>3, <1>7 DEF Local, Place, DocumentOK, Forward, Goes
  <1>11. MessageOK(m)'
    BY <1>1, <1>3, <1>4, <1>6, <1>8, <1>9 DEF MessageOK, ThreadOK, Local, Place, SameMessages, Before, Starting, Cloning, Undecided, Completing
  <1>12. ThreadOK(m, t)'
    BY <1>1, <1>2, <1>3, <1>4, <1>6, <1>8, <1>9 DEF ThreadOK, MessageOK, Local, Place, SameMessages, Before, Starting, Cloning, Undecided, Completing
  <1>13. LiveOK(m)'
    BY <1>1, <1>3, <1>4, <1>6, <1>8, <1>9 DEF LiveOK, Local, Place, SameMessages, Before, Starting, Cloning, Undecided, Completing, Reserved
  <1>14. t = term[f] =>
           Agree(m, [pc |-> "forget", decision |-> d, critSec |-> c], primary(f).coord[m])'
    BY <1>1, <1>3, <1>4, <1>6, <1>8, <1>9 DEF Agree, Local, Place, Before, Starting, Cloning, Undecided, Completing
  <1>15. MetaType' /\ DelType'
    BY <1>1, Parts DEF MetaType, DelType
  <1> QED BY <1>1, <1>2, <1>3, <1>5, <1>6, <1>7, <1>11, <1>12, <1>13, <1>14, <1>15, DonorStep
          DEF SameMessages

LEMMA DeletionFacts ==
    ASSUME NEW e \in Deletion
    PROVE  /\ submitted(e) \in Deletion /\ finished(e) \in Deletion
           /\ submitted(e).step = "replicate" => e.step = "replicate"
           /\ finished(e).step # "replicate"
           /\ NoDeletion \in Deletion /\ NoDeletion.step = "none"
  BY DEF Deletion, submitted, finished, NoDeletion

LEMMA SubmitLocallyStep ==
    ASSUME ControlInv, NEW m \in Migrations, NEW t \in 0 .. MaxTerm, SubmitLocally(m, t)
    PROVE  ControlInv'
  <1>1. /\ thr[m][t].pc = "donorTask" /\ Quiet
        /\ UNCHANGED <<log, term, recv, acked, meta>>
    BY QuietFacts DEF SubmitLocally, at
  <1>2. Begun(m) /\ ~(t > term[from(m)])
    BY <1>1, BegunThread
  <1>3. PICK f \in Shard, r \in Shard : Local(m, f, r)
    BY <1>1, <1>2, LocalFacts
  <1>4. PICK d, c : Goes(m, t, "forget", d, c) /\ d = thr[m][t].decision /\ c = thr[m][t].critSec
    BY GotoFacts, Parts DEF SubmitLocally, Pc, Before, Starting, Cloning, Undecided, Completing
  <1>5. ThrType'
    BY GotoFacts, Parts DEF SubmitLocally, Pc, Before, Starting, Cloning, Undecided, Completing
  <1>6. SameMessages /\ MsgType'
    BY NoMessageFacts, Parts DEF SubmitLocally
  <1>7. Forward(m, t, "forget", d, c)
    BY <1>1, <1>4, <1>6 DEF Forward, SameMessages, Early, Before, Starting, Cloning
  <1>8. /\ Live(m)' => Live(m)
        /\ Aborted(m) => Aborted(m)'
        /\ \A e : Correct(m, e) => Correct(m, e)'
    BY <1>3, <1>7, ForwardFacts DEF Local
  <1>9. /\ MessageOK(m) /\ ThreadOK(m, t) /\ LiveOK(m) /\ Agree(m, thr[m][term[f]], primary(f).coord[m])
        /\ thr'[m][t] = [pc |-> "forget", decision |-> d, critSec |-> c]
        /\ \A u \in 0 .. MaxTerm : u # t => thr'[m][u] = thr[m][u]
    BY <1>3, <1>7 DEF Local, Place, DocumentOK, Forward, Goes
  <1>10. \A s \in Shard, x \in Migrations :
             del'[s][x].step = "replicate" => del[s][x].step = "replicate"
    BY <1>3, DeletionFacts, Parts DEF SubmitLocally, DelType, Local, Place
  <1>15. MetaType' /\ DelType'
    <2>1. DelType'
      BY <1>3, DeletionFacts, Parts DEF SubmitLocally, DelType, Local, Place
    <2> QED BY <1>1, <2>1, Parts DEF MetaType
  <1>11. MessageOK(m)'
    BY <1>1, <1>3, <1>4, <1>6, <1>8, <1>9 DEF MessageOK, ThreadOK, Local, Place, SameMessages, Before, Starting, Cloning, Undecided, Completing
  <1>12. ThreadOK(m, t)'
    BY <1>1, <1>2, <1>3, <1>4, <1>6, <1>8, <1>9 DEF ThreadOK, MessageOK, Local, Place, SameMessages, Before, Starting, Cloning, Undecided, Completing
  <1>13. LiveOK(m)'
    BY <1>1, <1>3, <1>4, <1>6, <1>8, <1>9 DEF LiveOK, Local, Place, SameMessages, Before, Starting, Cloning, Undecided, Completing, Reserved
  <1>14. t = term[f] =>
           Agree(m, [pc |-> "forget", decision |-> d, critSec |-> c], primary(f).coord[m])'
    BY <1>1, <1>3, <1>4, <1>6, <1>8, <1>9 DEF Agree, Local, Place, Before, Starting, Cloning, Undecided, Completing
  <1> QED BY <1>1, <1>2, <1>3, <1>5, <1>6, <1>7, <1>10, <1>11, <1>12, <1>13, <1>14, <1>15, DonorStep
          DEF SameMessages

LEMMA RefreshAndDecideStep ==
    ASSUME ControlInv, NEW m \in Migrations, NEW t \in 0 .. MaxTerm, RefreshAndDecide(m, t)
    PROVE  ControlInv'
  <1>1. /\ thr[m][t].pc \in {"confirm", "refresh"} /\ Quiet
        /\ UNCHANGED <<log, term, recv, acked, del>>
    BY QuietFacts DEF RefreshAndDecide, at
  <1>2. Begun(m) /\ ~(t > term[from(m)])
    BY <1>1, BegunThread
  <1>3. PICK f \in Shard, r \in Shard : Local(m, f, r)
    BY <1>1, <1>2, LocalFacts
  <1> DEFINE th == [pc |-> IF outcome(m, t) = "none" THEN "done" ELSE "decide",
                    decision |-> outcome(m, t), critSec |-> FALSE]
  <1>30. th \in Thread /\ thr' = [thr EXCEPT ![m][t] = th]
    BY DEF RefreshAndDecide, Thread, Pc, outcome
  <1>31. Goes(m, t, th.pc, th.decision, th.critSec) /\ ThrType'
    <2> HIDE DEF th
    <2> QED BY <1>30, SetFacts, Parts
  <1>4. PICK pc, d, c : Goes(m, t, pc, d, c) /\ pc = th.pc /\ d = th.decision /\ c = th.critSec
    BY <1>31
  <1>5. ThrType'
    BY <1>31
  <1> HIDE DEF th
  <1>33. pc \in {"done", "decide"} /\ d = outcome(m, t) /\ (d # "none" => pc = "decide")
    BY <1>4 DEF th
  <1>6. SameMessages /\ MsgType'
    BY NoMessageFacts, Parts DEF RefreshAndDecide
  <1>7. Forward(m, t, pc, d, c)
    BY <1>1, <1>4, <1>6, <1>33 DEF Forward, SameMessages, Early, Before, Starting, Cloning
  <1>8. /\ Live(m)' => Live(m)
        /\ Aborted(m) => Aborted(m)'
        /\ \A e : Correct(m, e) => Correct(m, e)'
    BY <1>3, <1>7, ForwardFacts DEF Local
  <1>9. /\ MessageOK(m) /\ ThreadOK(m, t) /\ LiveOK(m) /\ Agree(m, thr[m][term[f]], primary(f).coord[m])
        /\ thr'[m][t] = [pc |-> pc, decision |-> d, critSec |-> c]
        /\ \A u \in 0 .. MaxTerm : u # t => thr'[m][u] = thr[m][u]
    BY <1>3, <1>7 DEF Local, Place, DocumentOK, Forward, Goes
  <1>15. MetaType' /\ DelType'
    <2>1. config \in Metadata
      BY Parts DEF ConfigType, Metadata
    <2>2. MetaType'
      BY <1>3, <2>1, Parts DEF RefreshAndDecide, MetaType, Local, Place
    <2> QED BY <1>1, <2>2, Parts DEF DelType
  <1>11. MessageOK(m)'
    BY <1>1, <1>3, <1>4, <1>6, <1>8, <1>9, <1>33 DEF MessageOK, ThreadOK, Local, Place, SameMessages, Before, Starting, Cloning, Undecided, Completing
  <1>12. ThreadOK(m, t)'
    BY <1>1, <1>2, <1>3, <1>4, <1>6, <1>8, <1>9, <1>33 DEF ThreadOK, MessageOK, Local, Place, SameMessages, Before, Starting, Cloning, Undecided, Completing
  <1>13. LiveOK(m)'
    BY <1>1, <1>3, <1>4, <1>6, <1>8, <1>9, <1>33 DEF LiveOK, Local, Place, SameMessages, Before, Starting, Cloning, Undecided, Completing, Reserved
  <1>14. t = term[f] =>
           Agree(m, [pc |-> pc, decision |-> d, critSec |-> c], primary(f).coord[m])'
    <2>1. SUFFICES ASSUME t = term[f]
                   PROVE  Agree(m, [pc |-> pc, decision |-> d, critSec |-> c], primary(f).coord[m])'
      OBVIOUS
    <2>2. primary(f).coord[m] = "unknown"
      BY <1>1, <1>9, <2>1 DEF Agree, Undecided
    <2>3. m \in committed <=> config.owner # f
      BY <1>3, <2>2 DEF Local, Place, CoordOK
    <2>4. thr[m][t].pc = "refresh" => ~Live(m)
      <3>1. ASSUME thr[m][t].pc = "refresh" PROVE config.version # mig[m].version
        BY <1>9, <3>1, Parts DEF ThreadOK, ConfigType, Version
      <3> QED BY <3>1 DEF Live
    <2>5. Correct(m, d) /\ pc = "decide"
      BY <1>1, <1>3, <1>9, <1>33, <2>3, <2>4 DEF outcome, at, Correct, Aborted, ThreadOK, Local, Place
    <2>6. Correct(m, d)'
      BY <1>8, <2>5
    <2> QED BY <1>3, <2>2, <2>5, <2>6 DEF Agree, Local, Place, Before, Starting, Cloning, Undecided, Completing
  <1> QED BY <1>1, <1>2, <1>3, <1>5, <1>6, <1>7, <1>11, <1>12, <1>13, <1>14, <1>15, DonorStep
          DEF SameMessages

LEMMA ResumeMigrationStep ==
    ASSUME ControlInv, NEW m \in Migrations, NEW t \in 0 .. MaxTerm, ResumeMigration(m, t)
    PROVE  ControlInv'
  <1>1. /\ thr[m][t].pc = "recover" /\ Quiet
        /\ UNCHANGED <<log, term, recv, acked, meta, del>>
    BY QuietFacts DEF ResumeMigration, at
  <1>2. Begun(m) /\ ~(t > term[from(m)])
    BY <1>1, BegunThread
  <1>3. PICK f \in Shard, r \in Shard : Local(m, f, r)
    BY <1>1, <1>2, LocalFacts
  <1> DEFINE th == [pc |-> IF primary(from(m)).coord[m] = "unknown" THEN "ensure" ELSE "decide",
                    decision |-> IF primary(from(m)).coord[m] = "unknown" THEN "none"
                                 ELSE primary(from(m)).coord[m],
                    critSec |-> FALSE]
  <1>30. th \in Thread /\ thr' = [thr EXCEPT ![m][t] = th]
    <2>1. primary(f).coord[m] # "none"
      <3>1. thr[m][term[f]].pc = "recover" /\ Agree(m, thr[m][term[f]], primary(f).coord[m])
        BY <1>1, <1>3 DEF ResumeMigration, current, Local, Place, DocumentOK
      <3> QED BY <3>1 DEF Agree
    <2>2. primary(f).coord[m] \in {"none", "unknown", "committed", "aborted"}
      BY <1>3 DEF Local, Place, State
    <2> QED BY <1>3, <2>1, <2>2 DEF ResumeMigration, Thread, Pc, Undecided, Local, Place
  <1>31. Goes(m, t, th.pc, th.decision, th.critSec) /\ ThrType'
    <2> HIDE DEF th
    <2> QED BY <1>30, SetFacts, Parts
  <1>4. PICK pc, d, c : Goes(m, t, pc, d, c) /\ pc = th.pc /\ d = th.decision /\ c = th.critSec
    BY <1>31
  <1>5. ThrType'
    BY <1>31
  <1> HIDE DEF th
  <1>33. /\ primary(f).coord[m] = "unknown" => pc = "ensure"
         /\ primary(f).coord[m] # "unknown" => pc = "decide" /\ d = primary(f).coord[m]
         /\ pc \in {"ensure", "decide"}
    BY <1>3, <1>4 DEF th, Local, Place
  <1>6. SameMessages /\ MsgType'
    BY NoMessageFacts, Parts DEF ResumeMigration
  <1>7. Forward(m, t, pc, d, c)
    BY <1>1, <1>4, <1>6, <1>33 DEF Forward, SameMessages, Early, Before, Starting, Cloning
  <1>8. /\ Live(m)' => Live(m)
        /\ Aborted(m) => Aborted(m)'
        /\ \A e : Correct(m, e) => Correct(m, e)'
    BY <1>3, <1>7, ForwardFacts DEF Local
  <1>9. /\ MessageOK(m) /\ ThreadOK(m, t) /\ LiveOK(m) /\ Agree(m, thr[m][term[f]], primary(f).coord[m])
        /\ thr'[m][t] = [pc |-> pc, decision |-> d, critSec |-> c]
        /\ \A u \in 0 .. MaxTerm : u # t => thr'[m][u] = thr[m][u]
    BY <1>3, <1>7 DEF Local, Place, DocumentOK, Forward, Goes
  <1>11. MessageOK(m)'
    BY <1>1, <1>3, <1>4, <1>6, <1>8, <1>9, <1>33 DEF MessageOK, ThreadOK, Local, Place, SameMessages, Before, Starting, Cloning, Undecided, Completing
  <1>12. ThreadOK(m, t)'
    BY <1>1, <1>2, <1>3, <1>4, <1>6, <1>8, <1>9, <1>33 DEF ThreadOK, MessageOK, Local, Place, SameMessages, Before, Starting, Cloning, Undecided, Completing
  <1>13. LiveOK(m)'
    BY <1>1, <1>3, <1>4, <1>6, <1>8, <1>9, <1>33 DEF LiveOK, Local, Place, SameMessages, Before, Starting, Cloning, Undecided, Completing, Reserved
  <1>14. t = term[f] =>
           Agree(m, [pc |-> pc, decision |-> d, critSec |-> c], primary(f).coord[m])'
    <2>1. SUFFICES ASSUME t = term[f]
                   PROVE  Agree(m, [pc |-> pc, decision |-> d, critSec |-> c], primary(f).coord[m])'
      OBVIOUS
    <2>2. primary(f).coord[m] # "none"
      BY <1>1, <1>9, <2>1 DEF Agree
    <2>3. primary(f).coord[m] # "unknown" => Correct(m, primary(f).coord[m])
      BY <1>3, <2>2 DEF Local, Place, CoordOK
    <2>4. primary(f).coord[m] # "unknown" => Correct(m, d)'
      BY <1>8, <1>33, <2>3
    <2> QED BY <1>3, <1>33, <2>2, <2>4 DEF Agree, Local, Place, Before, Starting, Cloning, Undecided, Completing
  <1>15. MetaType' /\ DelType'
    BY <1>1, Parts DEF MetaType, DelType
  <1> QED BY <1>1, <1>2, <1>3, <1>5, <1>6, <1>7, <1>11, <1>12, <1>13, <1>14, <1>15, DonorStep
          DEF SameMessages

LEMMA EnsureFacts ==
    ASSUME ControlInv, NEW m \in Migrations, Begun(m), config' = ensured(m),
           UNCHANGED <<committed, mig>>
    PROVE  Quiet /\ mig[m].version < config'.version
  <1>1. ConfigType /\ VersionInv
    BY DEF ControlInv, TypeInv
  <1>2. /\ config.version \in Nat /\ mig[m].version \in Nat /\ mig[m].version <= config.version
        /\ mig[m].version <= m /\ m \in Nat /\ m <= MaxMigrations /\ MaxMigrations \in Nat
    BY <1>1, BoundAssumption DEF ConfigType, VersionInv, MigrationOK, Version, Migrations
  <1>3. /\ config'.owner = config.owner
        /\ config'.version = IF mig[m].version < config.version THEN config.version
                             ELSE config.version + 1
        /\ config' = [owner |-> config'.owner, version |-> config'.version]
    BY <1>1 DEF ConfigType, ensured
  <1>4. \A x : (Begun(x)' <=> Begun(x)) /\ from(x)' = from(x) /\ to(x)' = to(x)
    BY DEF Begun, from, to
  <1>5. CASE mig[m].version < config.version
    <2>1. config'.version = config.version
      BY <1>3, <1>5
    <2>2. config' = config
      BY <1>1, <1>3, <2>1 DEF ConfigType
    <2> QED BY <1>5, <2>2, QuietFacts
  <1>6. CASE ~(mig[m].version < config.version)
    <2>1. config'.version = mig[m].version + 1 /\ config.version = mig[m].version
      BY <1>2, <1>3, <1>6
    <2>2. ConfigType'
      <3>1. config'.version \in Version
        BY <1>2, <2>1 DEF Version
      <3> QED BY <1>1, <1>3, <3>1 DEF ConfigType
    <2>3. \A x \in Migrations : Begun(x) =>
             mig[x].version \in Nat /\ mig[x].version <= config.version
      BY <1>1 DEF VersionInv, MigrationOK
    <2>4. ASSUME NEW x \in Migrations PROVE MigrationOK(x)'
      BY <1>1, <1>2, <1>4, <2>1, <2>3 DEF VersionInv, MigrationOK
    <2>5. VersionInv'
      BY <1>2, <1>4, <2>1, <2>4 DEF VersionInv
    <2> QED BY <1>2, <1>3, <2>1, <2>2, <2>3, <2>5 DEF Quiet
  <1> QED BY <1>5, <1>6

LEMMA EnsureChunkVersionStep ==
    ASSUME ControlInv, NEW m \in Migrations, NEW t \in 0 .. MaxTerm, EnsureChunkVersion(m, t)
    PROVE  ControlInv'
  <1>1. /\ thr[m][t].pc = "ensure" /\ mig[m].version < config'.version /\ Quiet
        /\ UNCHANGED <<log, term, recv, acked, meta, del>>
    BY BegunThread, EnsureFacts DEF EnsureChunkVersion, at
  <1>2. Begun(m) /\ ~(t > term[from(m)])
    BY <1>1, BegunThread
  <1>3. PICK f \in Shard, r \in Shard : Local(m, f, r)
    BY <1>1, <1>2, LocalFacts
  <1>4. PICK d, c : Goes(m, t, "refresh", d, c) /\ d = thr[m][t].decision /\ c = thr[m][t].critSec
    BY GotoFacts, Parts DEF EnsureChunkVersion, Pc, Before, Starting, Cloning, Undecided, Completing
  <1>5. ThrType'
    BY GotoFacts, Parts DEF EnsureChunkVersion, Pc, Before, Starting, Cloning, Undecided, Completing
  <1>6. SameMessages /\ MsgType'
    BY NoMessageFacts, Parts DEF EnsureChunkVersion
  <1>7. Forward(m, t, "refresh", d, c)
    BY <1>1, <1>4, <1>6 DEF Forward, SameMessages, Early, Before, Starting, Cloning
  <1>8. /\ Live(m)' => Live(m)
        /\ Aborted(m) => Aborted(m)'
        /\ \A e : Correct(m, e) => Correct(m, e)'
    BY <1>3, <1>7, ForwardFacts DEF Local
  <1>9. /\ MessageOK(m) /\ ThreadOK(m, t) /\ LiveOK(m) /\ Agree(m, thr[m][term[f]], primary(f).coord[m])
        /\ thr'[m][t] = [pc |-> "refresh", decision |-> d, critSec |-> c]
        /\ \A u \in 0 .. MaxTerm : u # t => thr'[m][u] = thr[m][u]
    BY <1>3, <1>7 DEF Local, Place, DocumentOK, Forward, Goes
  <1>11. MessageOK(m)'
    BY <1>1, <1>3, <1>4, <1>6, <1>8, <1>9 DEF MessageOK, ThreadOK, Local, Place, SameMessages, Before, Starting, Cloning, Undecided, Completing
  <1>12. ThreadOK(m, t)'
    BY <1>1, <1>2, <1>3, <1>4, <1>6, <1>8, <1>9 DEF ThreadOK, MessageOK, Local, Place, SameMessages, Before, Starting, Cloning, Undecided, Completing
  <1>13. LiveOK(m)'
    BY <1>1, <1>3, <1>4, <1>6, <1>8, <1>9 DEF LiveOK, Local, Place, SameMessages, Before, Starting, Cloning, Undecided, Completing, Reserved
  <1>14. t = term[f] =>
           Agree(m, [pc |-> "refresh", decision |-> d, critSec |-> c], primary(f).coord[m])'
    BY <1>1, <1>3, <1>4, <1>6, <1>8, <1>9 DEF Agree, Local, Place, Before, Starting, Cloning, Undecided, Completing
  <1>15. MetaType' /\ DelType'
    BY <1>1, Parts DEF MetaType, DelType
  <1> QED BY <1>1, <1>2, <1>3, <1>5, <1>6, <1>7, <1>11, <1>12, <1>13, <1>14, <1>15, DonorStep
          DEF SameMessages

-----------------------------------------------------------------------------
(* Steps of the donor's thread that write. *)

(* A state says of m what st says, and of the others what old says. *)
OnlyFor(m, st, old) ==
    \A x \in Migrations : x # m =>
        /\ st.coord[x] = old.coord[x] /\ st.task[x] = old.task[x]

LEMMA DonorWriteStep ==
    ASSUME ControlInv, NEW m \in Migrations, Begun(m), NEW f \in Shard, NEW r \in Shard,
           f = from(m), r = to(m), NEW t \in 0 .. MaxTerm, t = term[f],
           thr[m][t].pc \notin {"idle", "done"},
           NEW st \in State, write(f, st), OnlyFor(m, st, primary(f)),
           st.txn = primary(f).txn,
           primary(f).task[m] = "ready" => st.task[m] = "ready",
           UNCHANGED <<config, committed, mig, term, meta, recv, del, msgs, acked>>,
           NEW pc \in Pc, goto(m, t, pc),
           pc \in Before => thr[m][t].pc \in Before,
           st.coord[m] # "none" \/ Closed(m),
           CoordOK(f, st, m), TaskOK(f, st, m),
           Place(m, f, r) /\ Writes(f, st) /\ Goes(m, t, pc, thr[m][t].decision, thr[m][t].critSec)
             => /\ ThreadOK(m, t)' /\ LiveOK(m)'
                /\ Agree(m, thr[m][t], st.coord[m])'
    PROVE  ControlInv'
  <1>1. Writes(f, st) /\ LogType'
    BY WriteFacts, Parts
  <1>2. Goes(m, t, pc, thr[m][t].decision, thr[m][t].critSec) /\ ThrType'
    BY GotoFacts, Parts
  <1>3. SameMessages /\ MsgType'
    BY NoMessageFacts, Parts
  <1>4. Quiet
    BY QuietFacts
  <1>5. /\ MigrationInv(m) /\ f # r /\ primary(f) \in States(f) /\ primary(f) \in State
        /\ States(r)' = States(r) /\ from(m)' = f /\ to(m)' = r
    BY <1>1, Parts DEF Writes, from, to
  <1>6. Place(m, f, r)
    <2>1. Closed(m)' <=> Closed(m)
      BY <1>5 DEF Closed
    <2>2. Bound(m) \/ Closed(m) => Bound(m)' \/ Closed(m)'
      BY <1>1, <1>5, <2>1 DEF Bound, Writes
    <2>3. CoordOK(f, primary(f), m)
      BY <1>5 DEF ControlInv
    <2>4. \A u \in 0 .. MaxTerm : ThreadOK(m, u) /\ thr[m][u] \in Thread
      BY <1>5, Parts DEF MigrationInv, ThrType
    <2> QED BY <1>4, <1>5, <2>1, <2>2, <2>3, <2>4, Parts DEF Place, MigrationInv, Quiet
  <1>7. primary(f).coord[m] # "none"
    <2>1. Agree(m, thr[m][t], primary(f).coord[m])
      BY <1>5 DEF MigrationInv, DocumentOK
    <2> QED BY <2>1 DEF Agree
  <1>8. \A x \in Migrations : x # m => primary(f).coord[x] = "none" /\ st.coord[x] = "none"
    BY <1>5, <1>7 DEF ControlInv, CoordOK, OnlyFor
  <1>9. recv[f].m = 0 /\ recv[f] = NoReceive
    <2>1. ReceiveOK(f, recv[f], primary(f))
      BY DEF ControlInv
    <2> QED BY <1>7, <2>1 DEF ReceiveOK
  <1>10. MigrationInv(m)' /\ (Live(m)' => Live(m))
    <2>1. PICK d, c : d = thr[m][t].decision /\ c = thr[m][t].critSec
      OBVIOUS
    <2>2. Forward(m, t, pc, d, c)
      BY <1>2, <1>3, <2>1 DEF Forward, SameMessages
    <2>3. /\ Live(m)' => Live(m)
          /\ Aborted(m) => Aborted(m)'
          /\ \A u \in 0 .. MaxTerm : u # t => ThreadOK(m, u)'
      BY <1>6, <2>2, ForwardFacts
    <2>4. ThreadOK(m, t)' /\ LiveOK(m)' /\ Agree(m, thr[m][t], st.coord[m])'
      BY <1>1, <1>2, <1>6
    <2>5. DocumentOK(m)'
      BY <1>1, <1>5, <2>4 DEF DocumentOK, Writes
    <2>6. MessageOK(m)'
      BY <1>3, <1>4, <1>6, <2>3 DEF MessageOK, Place, SameMessages, Quiet
    <2> QED BY <2>3, <2>4, <2>5, <2>6 DEF MigrationInv
  <1>11. ASSUME NEW x \in Migrations, Begun(x), x # m
         PROVE  MigrationInv(x)' /\ (Live(x)' => Live(x))
    <2>1. LiveOK(x) /\ from(x) \in Shard /\ to(x) \in Shard
      BY <1>11, Parts DEF MigrationInv
    <2>2. Mirrors(x)
      <3>1. ASSUME NEW s \in Shard, s = from(x)
            PROVE  /\ \A v \in States(s)' : \E u \in States(s) :
                          u.coord[x] = v.coord[x] /\ (Live(x) => u.task[x] = v.task[x])
                   /\ primary(s)'.coord[x] = primary(s).coord[x]
        <4>1. CASE s = f
          BY <1>1, <1>5, <1>11, <4>1 DEF Writes, OnlyFor
        <4>2. CASE s # f
          BY <1>1, <4>2 DEF Writes
        <4> QED BY <4>1, <4>2
      <3>2. ASSUME NEW s \in Shard, s = to(x)
            PROVE  /\ (\A u \in States(s) : u.txn[x]) => \A v \in States(s)' : v.txn[x]
                   /\ Live(x) => \A v \in States(s)' :
                          Reserved(x, v) /\ (sent("received", x) => v.task[x] = "pending")
        <4>1. CASE s = f
          <5>2. (\A u \in States(s) : u.txn[x]) => \A v \in States(s)' : v.txn[x]
            BY <1>1, <1>5, <4>1 DEF Writes
          <5>3. ASSUME Live(x)
                PROVE  \A v \in States(s)' :
                          Reserved(x, v) /\ (sent("received", x) => v.task[x] = "pending")
            <6>1. \A v \in States(s) :
                      Reserved(x, v) /\ (sent("received", x) => v.task[x] = "pending")
              BY <2>1, <3>2, <5>3 DEF LiveOK
            <6>2. primary(f).task[x] = "none"
              BY <1>5, <1>7, <4>1, <6>1 DEF Reserved
            <6>3. Reserved(x, st) /\ ~sent("received", x)
              BY <1>5, <1>11, <4>1, <6>1, <6>2 DEF Reserved, OnlyFor
            <6> QED BY <1>1, <4>1, <6>1, <6>3 DEF Writes
          <5> QED BY <5>2, <5>3
        <4>2. CASE s # f
          BY <1>1, <2>1, <3>2, <4>2 DEF Writes, LiveOK
        <4> QED BY <4>1, <4>2
      <3> QED BY <3>1, <3>2 DEF Mirrors
    <2>3. SameReceive(x)
      BY DEF SameReceive, to
    <2>4. \A u \in 0 .. MaxTerm : thr'[x][u] = thr[x][u]
      BY <1>2, <1>11 DEF Goes
    <2>5. \A y : sent(y, x)' <=> sent(y, x)
      BY <1>3 DEF SameMessages
    <2> QED BY <1>4, <1>11, <2>2, <2>3, <2>4, <2>5, KeptMigration
  <1>12. TypeInv'
    BY <1>1, <1>2, <1>3, <1>4, Parts DEF TypeInv, Quiet, MetaType, RecvType, DelType
  <1>13. \A x \in Migrations : ~Begun(x) =>
            /\ \A u \in 0 .. MaxTerm : thr'[x][u] = thr[x][u]
            /\ \A y : sent(y, x)' => sent(y, x)
            /\ \A s \in Shard : recv'[s].m = x => recv[s].m = x
    BY <1>2, <1>3 DEF Goes, SameMessages
  <1>14. ASSUME NEW x \in Migrations
         PROVE  /\ CoordOK(f, st, x) /\ TaskOK(f, st, x)
                /\ ~Begun(x) => st.coord[x] = "none" /\ st.task[x] = "none"
    <2>1. CASE x = m
      BY <2>1
    <2>2. CASE x # m
      <3>1. /\ TaskOK(f, primary(f), x)
            /\ ~Begun(x) => primary(f).coord[x] = "none" /\ primary(f).task[x] = "none"
        BY <1>5 DEF ControlInv, UnknownOK
      <3>2. st.task[x] = primary(f).task[x] /\ st.coord[x] = "none"
        BY <1>8, <2>2 DEF OnlyFor
      <3> QED BY <3>1, <3>2 DEF CoordOK, TaskOK
    <2> QED BY <2>1, <2>2
  <1>15. ASSUME NEW s \in Shard PROVE ReceiveOK(s, recv[s], primary(s))'
    <2>1. ReceiveOK(s, recv[s], primary(s))
      BY DEF ControlInv
    <2>2. \A x : to(x)' = to(x)
      BY DEF to
    <2>3. CASE s = f
      BY <1>9, <2>3 DEF ReceiveOK
    <2>4. CASE s # f
      <3>1. States(s)' = States(s) /\ primary(s)' = primary(s)
        BY <1>1, <2>4 DEF Writes
      <3> QED BY <2>1, <2>2, <3>1 DEF ReceiveOK
    <2> QED BY <2>3, <2>4
  <1>16. ASSUME NEW s \in Shard, NEW x \in Migrations, del'[s][x].step = "replicate"
         PROVE  primary(s)'.task[x] = "ready"
    <2>1. primary(s).task[x] = "ready"
      BY <1>16 DEF ControlInv
    <2>2. CASE s = f
      BY <1>1, <2>1, <2>2 DEF Writes, OnlyFor
    <2>3. CASE s # f
      BY <1>1, <2>1, <2>3 DEF Writes
    <2> QED BY <2>2, <2>3
  <1>17. /\ States(f)' \subseteq States(f) \cup {st}
         /\ \A s \in Shard \ {f} : States(s)' = States(s)
    BY <1>1 DEF Writes
  <1>18. \A x \in Migrations : Begun(x) => MigrationInv(x)' /\ (Live(x)' => Live(x))
    BY <1>10, <1>11
  <1> QED BY <1>4, <1>12, <1>13, <1>14, <1>15, <1>16, <1>17, <1>18, Assemble

LEMMA CommittedNotLive ==
    ASSUME ControlInv, NEW m \in Migrations, m \in committed
    PROVE  Begun(m) /\ ~Live(m)
  <1>1. Begun(m)
    BY DEF ControlInv, UnknownOK
  <1>2. mig[m].version < config.version /\ mig[m].version \in Nat /\ config.version \in Nat
    BY <1>1, Parts DEF MigrationInv, MessageOK, ConfigType, Version
  <1> QED BY <1>1, <1>2 DEF Live

(* One field of a state is set. *)
LEMMA SetTask ==
    ASSUME NEW p \in State, NEW m \in Migrations, NEW v \in {"none", "pending", "ready"}
    PROVE  \E st \in State : /\ st = [p EXCEPT !.task[m] = v]
                             /\ st.coord = p.coord /\ st.txn = p.txn /\ st.docs = p.docs
                             /\ st.task[m] = v
                             /\ \A x \in Migrations : x # m => st.task[x] = p.task[x]
  <1> DEFINE st == [p EXCEPT !.task[m] = v]
  <1>1. p.task \in [Migrations -> {"none", "pending", "ready"}]
    BY DEF State
  <1>2. st.task = [p.task EXCEPT ![m] = v] /\ st.coord = p.coord /\ st.txn = p.txn /\ st.docs = p.docs
    BY DEF State
  <1>3. st.task[m] = v /\ \A x \in Migrations : x # m => st.task[x] = p.task[x]
    BY <1>1, <1>2
  <1>4. st \in State
    BY <1>1, <1>2 DEF State
  <1> QED BY <1>2, <1>3, <1>4

LEMMA SetCoord ==
    ASSUME NEW p \in State, NEW m \in Migrations,
           NEW v \in {"none", "unknown", "committed", "aborted"}
    PROVE  \E st \in State : /\ st = [p EXCEPT !.coord[m] = v]
                             /\ st.task = p.task /\ st.txn = p.txn /\ st.docs = p.docs
                             /\ st.coord[m] = v
                             /\ \A x \in Migrations : x # m => st.coord[x] = p.coord[x]
  <1> DEFINE st == [p EXCEPT !.coord[m] = v]
  <1>1. p.coord \in [Migrations -> {"none", "unknown", "committed", "aborted"}]
    BY DEF State
  <1>2. st.coord = [p.coord EXCEPT ![m] = v] /\ st.task = p.task /\ st.txn = p.txn /\ st.docs = p.docs
    BY DEF State
  <1>3. st.coord[m] = v /\ \A x \in Migrations : x # m => st.coord[x] = p.coord[x]
    BY <1>1, <1>2
  <1>4. st \in State
    BY <1>1, <1>2 DEF State
  <1> QED BY <1>2, <1>3, <1>4

LEMMA PersistDonorTaskStep ==
    ASSUME ControlInv, NEW m \in Migrations, NEW t \in 0 .. MaxTerm, PersistDonorTask(m, t)
    PROVE  ControlInv'
  <1>1. thr[m][t].pc = "persistCoordinator" /\ t = term[from(m)]
    BY DEF PersistDonorTask, at, current
  <1>2. Begun(m)
    BY <1>1, BegunThread
  <1>3. PICK f \in Shard, r \in Shard : f = from(m) /\ r = to(m) /\ f # r
    BY <1>2, Parts
  <1>4. /\ MessageOK(m) /\ ThreadOK(m, t) /\ LiveOK(m) /\ t = term[f]
        /\ Agree(m, thr[m][t], primary(f).coord[m])
        /\ primary(f) \in States(f) /\ primary(f) \in State
        /\ CoordOK(f, primary(f), m) /\ TaskOK(f, primary(f), m)
    BY <1>1, <1>2, <1>3, Parts DEF MigrationInv, DocumentOK, ControlInv
  <1>5. /\ m \notin committed /\ ~sent("commit", m)
        /\ \A st \in States(f) : st.coord[m] = "unknown"
    <2>1. \A st \in States(f) : st.coord[m] = "unknown"
      BY <1>3 DEF PersistDonorTask, coordDurable, States
    <2> QED BY <1>1, <1>4, <2>1 DEF MessageOK, ThreadOK, Before, Starting
  <1>6. PICK st \in State :
            /\ st = [primary(f) EXCEPT !.task[m] = "pending"]
            /\ st.coord = primary(f).coord /\ st.txn = primary(f).txn /\ st.docs = primary(f).docs
            /\ st.task[m] = "pending"
            /\ \A x \in Migrations : x # m => st.task[x] = primary(f).task[x]
    BY <1>4, SetTask
  <1>7. write(f, st) /\ goto(m, t, "persistTask") /\ "persistTask" \in Pc
        /\ UNCHANGED <<config, committed, mig, term, meta, recv, del, msgs, acked>>
    BY <1>1, <1>3, <1>5, <1>6 DEF PersistDonorTask, Pc, Before, Starting, Cloning, Undecided, Completing
  <1>8. OnlyFor(m, st, primary(f)) /\ st.txn = primary(f).txn
    BY <1>6 DEF OnlyFor
  <1>9. primary(f).task[m] = "ready" => st.task[m] = "ready"
    BY <1>3, <1>4, <1>5 DEF TaskOK
  <1>10. CoordOK(f, st, m)
    BY <1>2, <1>3, <1>4, <1>5, <1>6 DEF CoordOK, Agree, Before, Starting, Cloning, Undecided, Completing
  <1>11. TaskOK(f, st, m)
    BY <1>2, <1>3, <1>4, <1>5, <1>6 DEF TaskOK, CoordOK, Agree, Correct, Before, Starting, Cloning, Undecided, Completing
  <1>12. st.coord[m] # "none" \/ Closed(m)
    BY <1>4, <1>5, <1>6
  <1>13. ASSUME Place(m, f, r), Writes(f, st),
                Goes(m, t, "persistTask", thr[m][t].decision, thr[m][t].critSec)
         PROVE  ThreadOK(m, t)' /\ LiveOK(m)' /\ Agree(m, thr[m][t], st.coord[m])'
    <2>1. PICK d, c : /\ Goes(m, t, "persistTask", d, c) /\ d = thr[m][t].decision
                      /\ c = thr[m][t].critSec
      BY <1>13
    <2>2. SameMessages
      BY <1>7, NoMessageFacts, Parts
    <2>3. Forward(m, t, "persistTask", d, c)
      BY <1>1, <2>1, <2>2 DEF Forward, SameMessages, Early, Before, Starting, Cloning, Undecided, Completing
    <2>4. /\ Live(m)' => Live(m)
          /\ \A e : Correct(m, e) => Correct(m, e)'
      BY <1>13, <2>3, ForwardFacts
    <2>5. /\ thr'[m][t] = [pc |-> "persistTask", decision |-> d, critSec |-> c]
          /\ \A u \in 0 .. MaxTerm : u # t => thr'[m][u] = thr[m][u]
      BY <2>1 DEF Goes
    <2>6. Bound(m)' /\ from(m)' = f /\ to(m)' = r
      BY <1>4, <1>5, <1>6, <1>13 DEF Bound, Writes, Place
    <2>7. ThreadOK(m, t)'
      BY <1>1, <1>3, <1>4, <1>5, <1>13, <2>1, <2>2, <2>4, <2>5, <2>6
      DEF ThreadOK, Place, SameMessages, Before, Starting, Cloning, Undecided, Completing
    <2>8. LiveOK(m)'
      <3>1. SUFFICES ASSUME Live(m)' PROVE LiveOK(m)'
        BY DEF LiveOK
      <3>2. /\ sent("received", m) => \A u \in States(r) : u.task[m] = "pending"
            /\ \A u \in States(r) : Reserved(m, u)
        BY <1>3, <1>4, <2>4, <3>1 DEF LiveOK
      <3>3. \A u \in States(f)' : u.coord[m] = "unknown"
        BY <1>4, <1>5, <1>6, <1>13 DEF Writes
      <3>4. ~sent("commit", m)' /\ \A u \in 0 .. MaxTerm : thr'[m][u].pc \notin Cloning
        BY <1>1, <1>4, <1>5, <2>2, <2>5 DEF ThreadOK, SameMessages, Before, Starting, Cloning
      <3>5. \A u : Reserved(m, u)' <=> Reserved(m, u)
        BY DEF Reserved
      <3> QED BY <1>13, <2>2, <2>6, <3>2, <3>3, <3>4, <3>5 DEF LiveOK, SameMessages, Place
    <2>9. Agree(m, thr[m][t], st.coord[m])'
      BY <1>1, <1>4, <1>5, <1>6, <2>1, <2>4, <2>5 DEF Agree, Before, Starting, Cloning, Undecided, Completing
    <2> QED BY <2>7, <2>8, <2>9
  <1>14. thr[m][t].pc \notin {"idle", "done"} /\ ("persistTask" \in Before => thr[m][t].pc \in Before)
    BY <1>1 DEF Before, Starting, Cloning, Undecided, Completing
  <1> QED BY <1>2, <1>3, <1>4, <1>7, <1>8, <1>9, <1>10, <1>11, <1>12, <1>13, <1>14, DonorWriteStep

LEMMA PersistDecisionStep ==
    ASSUME ControlInv, NEW m \in Migrations, NEW t \in 0 .. MaxTerm, PersistDecision(m, t)
    PROVE  ControlInv'
  <1>1. thr[m][t].pc = "decide" /\ t = term[from(m)]
    BY DEF PersistDecision, at, current
  <1>2. Begun(m)
    BY <1>1, BegunThread
  <1>3. PICK f \in Shard, r \in Shard : f = from(m) /\ r = to(m) /\ f # r
    BY <1>2, Parts
  <1>4. /\ MessageOK(m) /\ ThreadOK(m, t) /\ LiveOK(m) /\ t = term[f]
        /\ Agree(m, thr[m][t], primary(f).coord[m])
        /\ primary(f) \in States(f) /\ primary(f) \in State
        /\ CoordOK(f, primary(f), m) /\ TaskOK(f, primary(f), m)
    BY <1>1, <1>2, <1>3, Parts DEF MigrationInv, DocumentOK, ControlInv
  <1>5. /\ Correct(m, thr[m][t].decision) /\ primary(f).coord[m] # "none"
        /\ thr[m][t].decision \in {"committed", "aborted"}
    <2>1. Correct(m, thr[m][t].decision) /\ primary(f).coord[m] # "none"
      BY <1>1, <1>4 DEF Agree
    <2> QED BY <2>1 DEF Correct
  <1>6. PICK st \in State :
            /\ st = [primary(f) EXCEPT !.coord[m] = thr[m][t].decision]
            /\ st.task = primary(f).task /\ st.txn = primary(f).txn /\ st.docs = primary(f).docs
            /\ st.coord[m] = thr[m][t].decision
            /\ \A x \in Migrations : x # m => st.coord[x] = primary(f).coord[x]
    <2>1. primary(f) \in State
      BY <1>4
    <2>2. CASE thr[m][t].decision = "committed"
      <3>1. PICK u \in State :
               /\ u = [primary(f) EXCEPT !.coord[m] = "committed"]
               /\ u.task = primary(f).task /\ u.txn = primary(f).txn /\ u.docs = primary(f).docs
               /\ u.coord[m] = "committed"
               /\ \A x \in Migrations : x # m => u.coord[x] = primary(f).coord[x]
        BY <2>1, SetCoord
      <3> QED BY <2>2, <3>1
    <2>3. CASE thr[m][t].decision = "aborted"
      <3>1. PICK u \in State :
               /\ u = [primary(f) EXCEPT !.coord[m] = "aborted"]
               /\ u.task = primary(f).task /\ u.txn = primary(f).txn /\ u.docs = primary(f).docs
               /\ u.coord[m] = "aborted"
               /\ \A x \in Migrations : x # m => u.coord[x] = primary(f).coord[x]
        BY <2>1, SetCoord
      <3> QED BY <2>3, <3>1
    <2> QED BY <1>5, <2>2, <2>3
  <1>7. write(f, st) /\ goto(m, t, "persistDecision") /\ "persistDecision" \in Pc
        /\ UNCHANGED <<config, committed, mig, term, meta, recv, del, msgs, acked>>
    BY <1>1, <1>3, <1>5, <1>6 DEF PersistDecision, Pc, Before, Starting, Cloning, Undecided, Completing
  <1>8. OnlyFor(m, st, primary(f)) /\ st.txn = primary(f).txn
    BY <1>6 DEF OnlyFor
  <1>9. primary(f).task[m] = "ready" => st.task[m] = "ready"
    BY <1>6
  <1>10. CoordOK(f, st, m)
    BY <1>2, <1>3, <1>4, <1>5, <1>6 DEF CoordOK, Agree, Before, Starting, Cloning, Undecided, Completing
  <1>11. TaskOK(f, st, m)
    BY <1>2, <1>3, <1>4, <1>5, <1>6 DEF TaskOK, CoordOK, Agree, Correct, Before, Starting, Cloning, Undecided, Completing
  <1>12. st.coord[m] # "none" \/ Closed(m)
    BY <1>5, <1>6
  <1>13. ASSUME Place(m, f, r), Writes(f, st),
                Goes(m, t, "persistDecision", thr[m][t].decision, thr[m][t].critSec)
         PROVE  ThreadOK(m, t)' /\ LiveOK(m)' /\ Agree(m, thr[m][t], st.coord[m])'
    <2>1. PICK d, c : /\ Goes(m, t, "persistDecision", d, c) /\ d = thr[m][t].decision
                      /\ c = thr[m][t].critSec
      BY <1>13
    <2>2. SameMessages
      BY <1>7, NoMessageFacts, Parts
    <2>3. Forward(m, t, "persistDecision", d, c)
      BY <1>1, <2>1, <2>2 DEF Forward, SameMessages, Early, Before, Starting, Cloning, Undecided, Completing
    <2>4. /\ Live(m)' => Live(m)
          /\ \A e : Correct(m, e) => Correct(m, e)'
      BY <1>13, <2>3, ForwardFacts
    <2>5. /\ thr'[m][t] = [pc |-> "persistDecision", decision |-> d, critSec |-> c]
          /\ \A u \in 0 .. MaxTerm : u # t => thr'[m][u] = thr[m][u]
      BY <2>1 DEF Goes
    <2>6. /\ Correct(m, d)' /\ from(m)' = f /\ to(m)' = r
          /\ ~Live(m)
      <3>1. Correct(m, d)' /\ from(m)' = f /\ to(m)' = r
        BY <1>5, <1>13, <2>1, <2>4 DEF Place
      <3>2. m \in committed => ~Live(m)
        BY CommittedNotLive
      <3> QED BY <1>5, <3>1, <3>2 DEF Correct, Aborted
    <2>7. ThreadOK(m, t)'
      BY <1>1, <1>3, <1>4, <1>5, <1>13, <2>1, <2>2, <2>4, <2>5, <2>6
      DEF ThreadOK, Place, SameMessages, Before, Starting, Cloning, Undecided, Completing
    <2>8. LiveOK(m)'
      BY <1>5, <2>4, <2>6 DEF LiveOK
    <2>9. Agree(m, thr[m][t], st.coord[m])'
      BY <1>1, <1>4, <1>5, <1>6, <2>1, <2>4, <2>5 DEF Agree, Before, Starting, Cloning, Undecided, Completing
    <2> QED BY <2>7, <2>8, <2>9
  <1>14. thr[m][t].pc \notin {"idle", "done"} /\ ("persistDecision" \in Before => thr[m][t].pc \in Before)
    BY <1>1 DEF Before, Starting, Cloning, Undecided, Completing
  <1> QED BY <1>2, <1>3, <1>4, <1>7, <1>8, <1>9, <1>10, <1>11, <1>12, <1>13, <1>14, DonorWriteStep

LEMMA MarkAsReadyLocallyStep ==
    ASSUME ControlInv, NEW m \in Migrations, NEW t \in 0 .. MaxTerm, MarkAsReadyLocally(m, t)
    PROVE  ControlInv'
  <1>1. thr[m][t].pc = "recipientTask" /\ t = term[from(m)]
    BY DEF MarkAsReadyLocally, at, current
  <1>2. Begun(m)
    BY <1>1, BegunThread
  <1>3. PICK f \in Shard, r \in Shard : f = from(m) /\ r = to(m) /\ f # r
    BY <1>2, Parts
  <1>4. /\ MessageOK(m) /\ ThreadOK(m, t) /\ LiveOK(m) /\ t = term[f]
        /\ Agree(m, thr[m][t], primary(f).coord[m])
        /\ primary(f) \in States(f) /\ primary(f) \in State
        /\ CoordOK(f, primary(f), m) /\ TaskOK(f, primary(f), m)
    BY <1>1, <1>2, <1>3, Parts DEF MigrationInv, DocumentOK, ControlInv
  <1>5. /\ thr[m][t].decision = "committed" /\ m \in committed /\ Closed(m) /\ ~Live(m)
        /\ primary(f).coord[m] = "committed" /\ config.owner # f
    <2>1. thr[m][t].decision = "committed" /\ m \in committed /\ Closed(m)
      BY <1>1, <1>4 DEF MarkAsReadyLocally, ThreadOK, Correct, Completing
    <2>2. primary(f).coord[m] = "committed"
      BY <1>1, <1>4, <2>1 DEF Agree, Completing
    <2>3. ~Live(m)
      BY <2>1, CommittedNotLive
    <2> QED BY <1>4, <2>1, <2>2, <2>3 DEF CoordOK
  <1>6. PICK st \in State :
            /\ st = IF primary(f).task[m] = "none" THEN primary(f)
                     ELSE [primary(f) EXCEPT !.task[m] = "ready"]
            /\ st.coord = primary(f).coord /\ st.txn = primary(f).txn /\ st.docs = primary(f).docs
            /\ st.task[m] \in {"none", "ready"}
            /\ st.task[m] = "none" => primary(f).task[m] = "none"
            /\ \A x \in Migrations : x # m => st.task[x] = primary(f).task[x]
    <2>1. CASE primary(f).task[m] = "none"
      BY <1>4, <2>1
    <2>2. CASE primary(f).task[m] # "none"
      <3>1. primary(f) \in State /\ "ready" # "none"
        BY <1>4
      <3>2. PICK u \in State :
               /\ u = [primary(f) EXCEPT !.task[m] = "ready"]
               /\ u.coord = primary(f).coord /\ u.txn = primary(f).txn /\ u.docs = primary(f).docs
               /\ u.task[m] = "ready"
               /\ \A x \in Migrations : x # m => u.task[x] = primary(f).task[x]
        BY <3>1, SetTask
      <3> QED BY <2>2, <3>1, <3>2
    <2> QED BY <2>1, <2>2
  <1>7. write(f, st) /\ goto(m, t, "donorTask") /\ "donorTask" \in Pc
        /\ UNCHANGED <<config, committed, mig, term, meta, recv, del, msgs, acked>>
    BY <1>1, <1>3, <1>5, <1>6 DEF MarkAsReadyLocally, Pc, Before, Starting, Cloning, Undecided, Completing
  <1>8. OnlyFor(m, st, primary(f)) /\ st.txn = primary(f).txn
    BY <1>6 DEF OnlyFor
  <1>9. primary(f).task[m] = "ready" => st.task[m] = "ready"
    BY <1>6
  <1>10. CoordOK(f, st, m)
    BY <1>2, <1>3, <1>4, <1>5, <1>6 DEF CoordOK, Agree, Before, Starting, Cloning, Undecided, Completing
  <1>11. TaskOK(f, st, m)
    BY <1>2, <1>3, <1>4, <1>5, <1>6 DEF TaskOK, CoordOK, Agree, Correct, Before, Starting, Cloning, Undecided, Completing
  <1>12. st.coord[m] # "none" \/ Closed(m)
    BY <1>5
  <1>13. ASSUME Place(m, f, r), Writes(f, st),
                Goes(m, t, "donorTask", thr[m][t].decision, thr[m][t].critSec)
         PROVE  ThreadOK(m, t)' /\ LiveOK(m)' /\ Agree(m, thr[m][t], st.coord[m])'
    <2>1. PICK d, c : /\ Goes(m, t, "donorTask", d, c) /\ d = thr[m][t].decision
                      /\ c = thr[m][t].critSec
      BY <1>13
    <2>2. SameMessages
      BY <1>7, NoMessageFacts, Parts
    <2>3. Forward(m, t, "donorTask", d, c)
      BY <1>1, <2>1, <2>2 DEF Forward, SameMessages, Early, Before, Starting, Cloning, Undecided, Completing
    <2>4. /\ Live(m)' => Live(m)
          /\ \A e : Correct(m, e) => Correct(m, e)'
      BY <1>13, <2>3, ForwardFacts
    <2>5. /\ thr'[m][t] = [pc |-> "donorTask", decision |-> d, critSec |-> c]
          /\ \A u \in 0 .. MaxTerm : u # t => thr'[m][u] = thr[m][u]
      BY <2>1 DEF Goes
    <2>6. Closed(m)' /\ from(m)' = f /\ to(m)' = r /\ Correct(m, d)'
      BY <1>5, <1>13, <2>1, <2>4 DEF Place, Correct
    <2>7. ThreadOK(m, t)'
      BY <1>1, <1>3, <1>4, <1>5, <1>13, <2>1, <2>2, <2>4, <2>5, <2>6
      DEF ThreadOK, Place, SameMessages, Before, Starting, Cloning, Undecided, Completing
    <2>8. LiveOK(m)'
      BY <1>5, <2>4, <2>6 DEF LiveOK
    <2>9. Agree(m, thr[m][t], st.coord[m])'
      BY <1>1, <1>4, <1>5, <1>6, <2>1, <2>4, <2>5 DEF Agree, Before, Starting, Cloning, Undecided, Completing
    <2> QED BY <2>7, <2>8, <2>9
  <1>14. thr[m][t].pc \notin {"idle", "done"} /\ ("donorTask" \in Before => thr[m][t].pc \in Before)
    BY <1>1 DEF Before, Starting, Cloning, Undecided, Completing
  <1> QED BY <1>2, <1>3, <1>4, <1>7, <1>8, <1>9, <1>10, <1>11, <1>12, <1>13, <1>14, DonorWriteStep

LEMMA DeleteTaskLocallyStep ==
    ASSUME ControlInv, NEW m \in Migrations, NEW t \in 0 .. MaxTerm, DeleteTaskLocally(m, t)
    PROVE  ControlInv'
  <1>1. thr[m][t].pc = "advance" /\ t = term[from(m)]
    BY DEF DeleteTaskLocally, at, current
  <1>2. Begun(m)
    BY <1>1, BegunThread
  <1>3. PICK f \in Shard, r \in Shard : f = from(m) /\ r = to(m) /\ f # r
    BY <1>2, Parts
  <1>4. /\ MessageOK(m) /\ ThreadOK(m, t) /\ LiveOK(m) /\ t = term[f]
        /\ Agree(m, thr[m][t], primary(f).coord[m])
        /\ primary(f) \in States(f) /\ primary(f) \in State
        /\ CoordOK(f, primary(f), m) /\ TaskOK(f, primary(f), m)
    BY <1>1, <1>2, <1>3, Parts DEF MigrationInv, DocumentOK, ControlInv
  <1>5. /\ thr[m][t].decision = "aborted" /\ m \notin committed /\ Closed(m) /\ ~Live(m)
        /\ primary(f).coord[m] = "aborted" /\ Correct(m, "aborted")
    <2>1. thr[m][t].decision = "aborted" /\ Correct(m, "aborted")
      BY <1>1, <1>4 DEF DeleteTaskLocally, ThreadOK, Completing
    <2>2. primary(f).coord[m] = "aborted"
      BY <1>1, <1>4, <2>1 DEF Agree, Completing
    <2>3. Closed(m)
      BY DEF DeleteTaskLocally, txnDurable, Closed, States
    <2> QED BY <2>1, <2>2, <2>3 DEF Correct, Aborted
  <1>6. PICK st \in State :
            /\ st = [primary(f) EXCEPT !.task[m] = "none"]
            /\ st.coord = primary(f).coord /\ st.txn = primary(f).txn /\ st.docs = primary(f).docs
            /\ st.task[m] = "none"
            /\ \A x \in Migrations : x # m => st.task[x] = primary(f).task[x]
    BY <1>4, SetTask
  <1>7. write(f, st) /\ goto(m, t, "donorTask") /\ "donorTask" \in Pc
        /\ UNCHANGED <<config, committed, mig, term, meta, recv, del, msgs, acked>>
    BY <1>1, <1>3, <1>5, <1>6 DEF DeleteTaskLocally, Pc, Before, Starting, Cloning, Undecided, Completing
  <1>8. OnlyFor(m, st, primary(f)) /\ st.txn = primary(f).txn
    BY <1>6 DEF OnlyFor
  <1>9. primary(f).task[m] = "ready" => st.task[m] = "ready"
    BY <1>3, <1>4, <1>5 DEF TaskOK
  <1>10. CoordOK(f, st, m)
    BY <1>2, <1>3, <1>4, <1>5, <1>6 DEF CoordOK, Agree, Before, Starting, Cloning, Undecided, Completing
  <1>11. TaskOK(f, st, m)
    BY <1>2, <1>3, <1>4, <1>5, <1>6 DEF TaskOK, CoordOK, Agree, Correct, Before, Starting, Cloning, Undecided, Completing
  <1>12. st.coord[m] # "none" \/ Closed(m)
    BY <1>5
  <1>13. ASSUME Place(m, f, r), Writes(f, st),
                Goes(m, t, "donorTask", thr[m][t].decision, thr[m][t].critSec)
         PROVE  ThreadOK(m, t)' /\ LiveOK(m)' /\ Agree(m, thr[m][t], st.coord[m])'
    <2>1. PICK d, c : /\ Goes(m, t, "donorTask", d, c) /\ d = thr[m][t].decision
                      /\ c = thr[m][t].critSec
      BY <1>13
    <2>2. SameMessages
      BY <1>7, NoMessageFacts, Parts
    <2>3. Forward(m, t, "donorTask", d, c)
      BY <1>1, <2>1, <2>2 DEF Forward, SameMessages, Early, Before, Starting, Cloning, Undecided, Completing
    <2>4. /\ Live(m)' => Live(m)
          /\ \A e : Correct(m, e) => Correct(m, e)'
      BY <1>13, <2>3, ForwardFacts
    <2>5. /\ thr'[m][t] = [pc |-> "donorTask", decision |-> d, critSec |-> c]
          /\ \A u \in 0 .. MaxTerm : u # t => thr'[m][u] = thr[m][u]
      BY <2>1 DEF Goes
    <2>6. Closed(m)' /\ from(m)' = f /\ to(m)' = r /\ Correct(m, d)'
      BY <1>5, <1>13, <2>1, <2>4 DEF Place
    <2>7. ThreadOK(m, t)'
      BY <1>1, <1>3, <1>4, <1>5, <1>13, <2>1, <2>2, <2>4, <2>5, <2>6
      DEF ThreadOK, Place, SameMessages, Before, Starting, Cloning, Undecided, Completing
    <2>8. LiveOK(m)'
      BY <1>5, <2>4, <2>6 DEF LiveOK
    <2>9. Agree(m, thr[m][t], st.coord[m])'
      BY <1>1, <1>4, <1>5, <1>6, <2>1, <2>4, <2>5 DEF Agree, Before, Starting, Cloning, Undecided, Completing
    <2> QED BY <2>7, <2>8, <2>9
  <1>14. thr[m][t].pc \notin {"idle", "done"} /\ ("donorTask" \in Before => thr[m][t].pc \in Before)
    BY <1>1 DEF Before, Starting, Cloning, Undecided, Completing
  <1> QED BY <1>2, <1>3, <1>4, <1>7, <1>8, <1>9, <1>10, <1>11, <1>12, <1>13, <1>14, DonorWriteStep

LEMMA ForgetMigrationStep ==
    ASSUME ControlInv, NEW m \in Migrations, NEW t \in 0 .. MaxTerm, ForgetMigration(m, t)
    PROVE  ControlInv'
  <1>1. thr[m][t].pc = "forget" /\ t = term[from(m)]
    BY DEF ForgetMigration, at, current
  <1>2. Begun(m)
    BY <1>1, BegunThread
  <1>3. PICK f \in Shard, r \in Shard : f = from(m) /\ r = to(m) /\ f # r
    BY <1>2, Parts
  <1>4. /\ MessageOK(m) /\ ThreadOK(m, t) /\ LiveOK(m) /\ t = term[f]
        /\ Agree(m, thr[m][t], primary(f).coord[m])
        /\ primary(f) \in States(f) /\ primary(f) \in State
        /\ CoordOK(f, primary(f), m) /\ TaskOK(f, primary(f), m)
    BY <1>1, <1>2, <1>3, Parts DEF MigrationInv, DocumentOK, ControlInv
  <1>5. /\ Closed(m) /\ ~Live(m) /\ primary(f).coord[m] # "none"
        /\ Correct(m, thr[m][t].decision)
    <2>1. Closed(m) /\ Correct(m, thr[m][t].decision)
      BY <1>1, <1>4 DEF ThreadOK, Completing
    <2>2. m \in committed => ~Live(m)
      BY CommittedNotLive
    <2> QED BY <1>1, <1>4, <2>1, <2>2 DEF Correct, Aborted, Agree
  <1>6. PICK st \in State :
            /\ st = [primary(f) EXCEPT !.coord[m] = "none"]
            /\ st.task = primary(f).task /\ st.txn = primary(f).txn /\ st.docs = primary(f).docs
            /\ st.coord[m] = "none"
            /\ \A x \in Migrations : x # m => st.coord[x] = primary(f).coord[x]
    BY <1>4, SetCoord
  <1>7. write(f, st) /\ goto(m, t, "done") /\ "done" \in Pc
        /\ UNCHANGED <<config, committed, mig, term, meta, recv, del, msgs, acked>>
    BY <1>1, <1>3, <1>5, <1>6 DEF ForgetMigration, Pc, Before, Starting, Cloning, Undecided, Completing
  <1>8. OnlyFor(m, st, primary(f)) /\ st.txn = primary(f).txn
    BY <1>6 DEF OnlyFor
  <1>9. primary(f).task[m] = "ready" => st.task[m] = "ready"
    BY <1>6
  <1>10. CoordOK(f, st, m)
    BY <1>2, <1>3, <1>4, <1>5, <1>6 DEF CoordOK, Agree, Before, Starting, Cloning, Undecided, Completing
  <1>11. TaskOK(f, st, m)
    BY <1>2, <1>3, <1>4, <1>5, <1>6 DEF TaskOK, CoordOK, Agree, Correct, Before, Starting, Cloning, Undecided, Completing
  <1>12. st.coord[m] # "none" \/ Closed(m)
    BY <1>5
  <1>13. ASSUME Place(m, f, r), Writes(f, st),
                Goes(m, t, "done", thr[m][t].decision, thr[m][t].critSec)
         PROVE  ThreadOK(m, t)' /\ LiveOK(m)' /\ Agree(m, thr[m][t], st.coord[m])'
    <2>1. PICK d, c : /\ Goes(m, t, "done", d, c) /\ d = thr[m][t].decision
                      /\ c = thr[m][t].critSec
      BY <1>13
    <2>2. SameMessages
      BY <1>7, NoMessageFacts, Parts
    <2>3. Forward(m, t, "done", d, c)
      BY <1>1, <2>1, <2>2 DEF Forward, SameMessages, Early, Before, Starting, Cloning, Undecided, Completing
    <2>4. /\ Live(m)' => Live(m)
          /\ \A e : Correct(m, e) => Correct(m, e)'
      BY <1>13, <2>3, ForwardFacts
    <2>5. /\ thr'[m][t] = [pc |-> "done", decision |-> d, critSec |-> c]
          /\ \A u \in 0 .. MaxTerm : u # t => thr'[m][u] = thr[m][u]
      BY <2>1 DEF Goes
    <2>6. Closed(m)' /\ from(m)' = f /\ to(m)' = r
      BY <1>5, <1>13 DEF Place
    <2>7. ThreadOK(m, t)'
      BY <1>1, <1>3, <1>4, <1>5, <1>13, <2>1, <2>2, <2>4, <2>5, <2>6
      DEF ThreadOK, Place, SameMessages, Before, Starting, Cloning, Undecided, Completing
    <2>8. LiveOK(m)'
      BY <1>5, <2>4, <2>6 DEF LiveOK
    <2>9. Agree(m, thr[m][t], st.coord[m])'
      BY <1>1, <1>4, <1>5, <1>6, <2>1, <2>4, <2>5 DEF Agree, Before, Starting, Cloning, Undecided, Completing
    <2> QED BY <2>7, <2>8, <2>9
  <1>14. thr[m][t].pc \notin {"idle", "done"} /\ ("done" \in Before => thr[m][t].pc \in Before)
    BY <1>1 DEF Before, Starting, Cloning, Undecided, Completing
  <1> QED BY <1>2, <1>3, <1>4, <1>7, <1>8, <1>9, <1>10, <1>11, <1>12, <1>13, <1>14, DonorWriteStep

-----------------------------------------------------------------------------
(* Steps that leave the threads of the donors alone. *)

(* The primary of s goes to st; states may have gone. *)
Moves(s, st) ==
    /\ States(s)' \subseteq States(s) \cup {st}
    /\ primary(s)' = st
    /\ \A r \in Shard \ {s} : States(r)' = States(r) /\ primary(r)' = primary(r)

LEMMA ShardWriteStep ==
    ASSUME ControlInv, UNCHANGED <<config, committed, mig, term, thr, msgs>>,
           MetaType', RecvType', DelType', LogType', acked' \subseteq Doc,
           NEW s \in Shard, NEW st, Moves(s, st),
           st.coord = primary(s).coord,
           \A x \in Migrations : TaskOK(s, st, x) /\ (~Begun(x) => st.task[x] = "none"),
           \A x \in Migrations : primary(s).txn[x] => st.txn[x],
           \A x \in Migrations : Live(x) =>
               /\ from(x) = s => st.task[x] = primary(s).task[x]
               /\ to(x) = s => /\ Reserved(x, st)
                               /\ sent("received", x) => st.task[x] = "pending",
           \A r \in Shard \ {s} : recv'[r] = recv[r],
           recv'[s].m = recv[s].m,
           recv'[s].state = "commitStart" => recv[s].state = "commitStart",
           ReceiveOK(s, recv[s], st)',
           \A x \in Migrations : del'[s][x].step = "replicate" => st.task[x] = "ready",
           \A r \in Shard \ {s}, x \in Migrations :
               del'[r][x].step = "replicate" => del[r][x].step = "replicate"
    PROVE  ControlInv'
  <1>1. Quiet
    BY QuietFacts
  <1>2. SameMessages /\ MsgType'
    BY NoMessageFacts, Parts
  <1>3. TypeInv'
    BY <1>1, <1>2, Parts DEF TypeInv, Quiet, ThrType
  <1>4. \A r \in Shard : primary(r) \in States(r)
    BY Parts
  <1>5. ASSUME NEW x \in Migrations, Begun(x)
        PROVE  MigrationInv(x)' /\ (Live(x)' => Live(x))
    <2>1. LiveOK(x) /\ from(x) \in Shard /\ to(x) \in Shard
      BY <1>5, Parts DEF MigrationInv
    <2>2. ASSUME NEW r \in Shard, r = from(x)
          PROVE  /\ \A v \in States(r)' : \E u \in States(r) :
                       u.coord[x] = v.coord[x] /\ (Live(x) => u.task[x] = v.task[x])
                 /\ primary(r)'.coord[x] = primary(r).coord[x]
      <3>1. CASE r = s
        <4>1. st.coord[x] = primary(s).coord[x] /\ (Live(x) => st.task[x] = primary(s).task[x])
          BY <2>2, <3>1
        <4>2. \A v \in States(s)' : v \in States(s) \/ v = st
          BY DEF Moves
        <4>3. primary(s)' = st /\ primary(s) \in States(s)
          BY <1>4 DEF Moves
        <4>4. ASSUME NEW v \in States(s)'
              PROVE  \E u \in States(s) :
                         u.coord[x] = v.coord[x] /\ (Live(x) => u.task[x] = v.task[x])
          <5>1. CASE v \in States(s)
            BY <5>1
          <5>2. CASE v = st
            BY <4>1, <4>3, <5>2
          <5> QED BY <4>2, <5>1, <5>2
        <4> QED BY <3>1, <4>1, <4>3, <4>4
      <3>2. CASE r # s
        BY <3>2 DEF Moves
      <3> QED BY <3>1, <3>2
    <2>3. ASSUME NEW r \in Shard, r = to(x)
          PROVE  (\A u \in States(r) : u.txn[x]) => \A v \in States(r)' : v.txn[x]
      <3>1. CASE r = s
        BY <1>4, <2>3, <3>1 DEF Moves
      <3>2. CASE r # s
        BY <3>2 DEF Moves
      <3> QED BY <3>1, <3>2
    <2>4. ASSUME NEW r \in Shard, r = to(x), Live(x)
          PROVE  \A v \in States(r)' :
                     Reserved(x, v) /\ (sent("received", x) => v.task[x] = "pending")
      <3>1. \A v \in States(r) :
                Reserved(x, v) /\ (sent("received", x) => v.task[x] = "pending")
        BY <2>1, <2>4 DEF LiveOK
      <3>2. CASE r = s
        <4>1. Reserved(x, st) /\ (sent("received", x) => st.task[x] = "pending")
          BY <2>4, <3>2
        <4>2. \A v \in States(s)' : v \in States(s) \/ v = st
          BY DEF Moves
        <4> QED BY <3>1, <3>2, <4>1, <4>2
      <3>3. CASE r # s
        BY <3>1, <3>3 DEF Moves
      <3> QED BY <3>2, <3>3
    <2>5. Mirrors(x)
      BY <2>2, <2>3, <2>4 DEF Mirrors
    <2>6. SameReceive(x)
      <3>1. to(x) = s \/ recv'[to(x)] = recv[to(x)]
        BY <2>1
      <3> QED BY <3>1 DEF SameReceive
    <2>7. /\ \A u \in 0 .. MaxTerm : thr'[x][u] = thr[x][u]
          /\ \A y : sent(y, x)' <=> sent(y, x)
      BY <1>2 DEF SameMessages
    <2> QED BY <1>1, <1>5, <2>5, <2>6, <2>7, KeptMigration
  <1>6. \A x \in Migrations : ~Begun(x) =>
            /\ \A u \in 0 .. MaxTerm : thr'[x][u] = thr[x][u]
            /\ \A y : sent(y, x)' => sent(y, x)
            /\ \A r \in Shard : recv'[r].m = x => recv[r].m = x
    BY <1>2 DEF SameMessages
  <1>7. ASSUME NEW x \in Migrations
        PROVE  /\ CoordOK(s, st, x) /\ TaskOK(s, st, x)
               /\ ~Begun(x) => st.coord[x] = "none" /\ st.task[x] = "none"
    <2>1. CoordOK(s, primary(s), x) /\ (~Begun(x) => primary(s).coord[x] = "none")
      BY <1>4 DEF ControlInv, UnknownOK
    <2> QED BY <2>1 DEF CoordOK
  <1>8. ASSUME NEW r \in Shard PROVE ReceiveOK(r, recv[r], primary(r))'
    <2>1. ReceiveOK(r, recv[r], primary(r))
      BY DEF ControlInv
    <2>2. \A x : to(x)' = to(x)
      BY DEF to
    <2>3. CASE r = s
      BY <2>3 DEF Moves
    <2>4. CASE r # s
      <3>1. States(r)' = States(r) /\ primary(r)' = primary(r) /\ recv'[r] = recv[r]
        BY <2>4 DEF Moves
      <3> QED BY <2>1, <2>2, <3>1 DEF ReceiveOK
    <2> QED BY <2>3, <2>4
  <1>9. ASSUME NEW r \in Shard, NEW x \in Migrations, del'[r][x].step = "replicate"
        PROVE  primary(r)'.task[x] = "ready"
    <2>1. CASE r = s
      BY <1>9, <2>1 DEF Moves
    <2>2. CASE r # s
      BY <1>9, <2>2 DEF Moves, ControlInv
    <2> QED BY <2>1, <2>2
  <1>10. /\ States(s)' \subseteq States(s) \cup {st}
         /\ \A r \in Shard \ {s} : States(r)' = States(r)
    BY DEF Moves
  <1> QED BY <1>1, <1>3, <1>5, <1>6, <1>7, <1>8, <1>9, <1>10, Assemble

(* The migrate thread of the recipient of m begins, goes on or ends. *)
LEMMA ReceiveStep ==
    ASSUME ControlInv, UNCHANGED <<config, committed, mig, term, thr, log, del, acked>>,
           MetaType', RecvType', MsgType',
           NEW s \in Shard, NEW m \in Migrations, Begun(m), to(m) = s,
           \A r \in Shard \ {s} : recv'[r] = recv[r],
           recv[s].m \in {0, m}, recv'[s].m \in {0, m},
           \A y, x : x # m => (sent(y, x)' <=> sent(y, x)),
           \A y : y \notin {"recvChunkStart", "recvChunkCommit", "received"}
                    => (sent(y, m)' <=> sent(y, m)),
           \A y \in {"recvChunkStart", "recvChunkCommit"} : sent(y, m)' => sent(y, m),
           sent("received", m) => sent("received", m)',
           sent("received", m)' /\ ~sent("received", m) =>
               /\ recv[s].m = m /\ recv[s].state = "commitStart" /\ recv'[s].m # m
               /\ \A u \in States(s) : u.task[m] = "pending",
           recv'[s].m = m => /\ recv[s].m = m \/ sent("recvChunkStart", m)
                             /\ ~sent("recvChunkStart", m)'
                             /\ recv'[s].state = "commitStart" =>
                                   \/ recv[s].m = m /\ recv[s].state = "commitStart"
                                   \/ sent("recvChunkCommit", m),
           ReceiveOK(s, recv[s], primary(s))'
    PROVE  ControlInv'
  <1>1. Quiet
    BY QuietFacts
  <1>2. \A r \in Shard : States(r)' = States(r) /\ primary(r)' = primary(r)
    BY SameLog
  <1>3. TypeInv'
    BY <1>1, Parts DEF TypeInv, Quiet, ThrType, LogType, DelType
  <1>4. \A r \in Shard : primary(r) \in States(r)
    BY Parts
  <1>5. /\ MigrationInv(m) /\ from(m) \in Shard /\ from(m)' = from(m) /\ to(m)' = s
        /\ (Begun(m)' <=> Begun(m))
    BY Parts DEF from, to, Begun
  <1>6. (Live(m)' <=> Live(m)) /\ (Closed(m)' <=> Closed(m)) /\ (Bound(m)' <=> Bound(m))
    BY <1>2, <1>5 DEF Live, Closed, Bound
  <1>7. MessageOK(m)'
    BY <1>5, <1>6 DEF MigrationInv, MessageOK, Aborted
  <1>8. ASSUME NEW u \in 0 .. MaxTerm PROVE ThreadOK(m, u)'
    <2>1. ThreadOK(m, u)
      BY <1>5 DEF MigrationInv
    <2>2. thr[m][u].pc \in Starting \cup {"cloning"} =>
            /\ ~sent("recvChunkCommit", m)' /\ ~sent("received", m)'
            /\ recv'[s].m = m => recv'[s].state # "commitStart"
      BY <2>1 DEF ThreadOK
    <2>3. thr[m][u].pc \in Starting => ~sent("recvChunkStart", m)' /\ recv'[s].m # m
      BY <2>1 DEF ThreadOK
    <2>4. \A d : Correct(m, d)' <=> Correct(m, d)
      BY <1>6 DEF Correct, Aborted
    <2>5. sent("commit", m)' <=> sent("commit", m)
      OBVIOUS
    <2> QED BY <1>5, <1>6, <2>1, <2>2, <2>3, <2>4, <2>5 DEF ThreadOK
  <1>9. DocumentOK(m)'
    <2>1. \A th, co : Agree(m, th, co)' <=> Agree(m, th, co)
      BY <1>6 DEF Agree, Correct, Aborted
    <2>2. PICK f \in Shard : f = from(m)
      BY <1>5
    <2>3. Agree(m, thr[m][term[f]], primary(f).coord[m])
      BY <1>5, <2>2 DEF MigrationInv, DocumentOK
    <2> QED BY <1>2, <1>5, <2>1, <2>2, <2>3 DEF DocumentOK
  <1>10. LiveOK(m)'
    <2>1. LiveOK(m)
      BY <1>5 DEF MigrationInv
    <2>2. \A u : Reserved(m, u)' <=> Reserved(m, u)
      BY DEF Reserved
    <2>3. PICK f \in Shard : f = from(m)
      BY <1>5
    <2> QED BY <1>2, <1>5, <1>6, <2>1, <2>2, <2>3 DEF LiveOK
  <1>11. ASSUME NEW x \in Migrations, Begun(x)
         PROVE  MigrationInv(x)' /\ (Live(x)' => Live(x))
    <2>1. CASE x = m
      BY <1>6, <1>7, <1>8, <1>9, <1>10, <2>1 DEF MigrationInv
    <2>2. CASE x # m
      <3>1. Mirrors(x)
        BY <1>11, SameMirrors
      <3>2. SameReceive(x)
        <4>1. to(x) \in Shard /\ x # 0
          BY <1>11, Parts DEF Migrations
        <4> QED BY <2>2, <4>1 DEF SameReceive
      <3> QED BY <1>1, <1>11, <2>2, <3>1, <3>2, KeptMigration
    <2> QED BY <2>1, <2>2
  <1>12. ASSUME NEW x \in Migrations, ~Begun(x)
         PROVE  /\ \A u \in 0 .. MaxTerm : thr'[x][u] = thr[x][u]
                /\ \A y : sent(y, x)' => sent(y, x)
                /\ \A r \in Shard : recv'[r].m = x => recv[r].m = x
    <2>1. x # m /\ x # 0
      BY <1>12 DEF Migrations
    <2> QED BY <2>1
  <1>13. \A x \in Migrations :
            /\ CoordOK(s, primary(s), x) /\ TaskOK(s, primary(s), x)
            /\ ~Begun(x) => primary(s).coord[x] = "none" /\ primary(s).task[x] = "none"
    BY <1>4 DEF ControlInv, UnknownOK
  <1>14. ASSUME NEW r \in Shard PROVE ReceiveOK(r, recv[r], primary(r))'
    <2>1. ReceiveOK(r, recv[r], primary(r))
      BY DEF ControlInv
    <2>2. \A x : to(x)' = to(x)
      BY DEF to
    <2>3. CASE r = s
      BY <2>3
    <2>4. CASE r # s
      BY <1>2, <2>1, <2>2, <2>4 DEF ReceiveOK
    <2> QED BY <2>3, <2>4
  <1>15. \A r \in Shard, x \in Migrations :
             del'[r][x].step = "replicate" => primary(r)'.task[x] = "ready"
    BY <1>2 DEF ControlInv
  <1> QED BY <1>1, <1>2, <1>3, <1>11, <1>12, <1>13, <1>14, <1>15, Assemble

LEMMA SetDocs ==
    ASSUME NEW p \in State, NEW d \in SUBSET Doc
    PROVE  \E st \in State : /\ st = [p EXCEPT !.docs = d]
                             /\ st.coord = p.coord /\ st.task = p.task /\ st.txn = p.txn
                             /\ st.docs = d
  <1> DEFINE st == [p EXCEPT !.docs = d]
  <1>1. st.coord = p.coord /\ st.task = p.task /\ st.txn = p.txn /\ st.docs = d
    BY DEF State
  <1>2. st \in State
    BY DEF State
  <1> QED BY <1>1, <1>2

(* The documents change, or states are lost, and nothing else but that a batch is done. *)
LEMMA DocsStep ==
    ASSUME ControlInv, UNCHANGED <<config, committed, mig, term, thr, msgs, del, meta>>,
           LogType', acked' \subseteq Doc,
           NEW s \in Shard, NEW st, Moves(s, st),
           st.coord = primary(s).coord, st.task = primary(s).task, st.txn = primary(s).txn,
           recv' = recv \/ (recv[s].m # 0 /\ recv' = [recv EXCEPT ![s].batch = {}])
    PROVE  ControlInv'
  <1>1. recv \in [Shard -> Receive] /\ primary(s) \in States(s)
    BY Parts DEF RecvType
  <1>2. /\ recv' \in [Shard -> Receive]
        /\ \A r \in Shard \ {s} : recv'[r] = recv[r]
        /\ recv'[s].m = recv[s].m /\ recv'[s].state = recv[s].state
        /\ (recv'[s].empty <=> recv[s].empty) /\ (recv'[s].after <=> recv[s].after)
        /\ recv'[s] = recv[s] \/ (recv[s].m # 0 /\ recv'[s].batch = {})
    <2>1. CASE recv' = recv
      BY <1>1, <2>1
    <2>2. CASE recv[s].m # 0 /\ recv' = [recv EXCEPT ![s].batch = {}]
      BY <1>1, <2>2 DEF Receive
    <2> QED BY <2>1, <2>2
  <1>3. MetaType' /\ RecvType' /\ DelType'
    BY <1>2, Parts DEF RecvType, MetaType, DelType
  <1>4. ASSUME NEW x \in Migrations
        PROVE  TaskOK(s, st, x) /\ (~Begun(x) => st.task[x] = "none")
    <2>1. TaskOK(s, primary(s), x) /\ (~Begun(x) => primary(s).task[x] = "none")
      BY <1>1 DEF ControlInv, UnknownOK
    <2> QED BY <2>1 DEF TaskOK
  <1>5. ASSUME NEW x \in Migrations, Live(x), to(x) = s
        PROVE  Reserved(x, st) /\ (sent("received", x) => st.task[x] = "pending")
    <2>1. LiveOK(x)
      BY DEF ControlInv
    <2> QED BY <1>1, <1>5, <2>1 DEF LiveOK, Reserved
  <1>6. ReceiveOK(s, recv[s], st)'
    <2>1. ReceiveOK(s, recv[s], primary(s))
      BY DEF ControlInv
    <2>2. \A x : to(x)' = to(x)
      BY DEF to
    <2>3. recv'[s].empty /\ recv[s].m # 0 => \A u \in States(s)' : u.task[recv[s].m] = "pending"
      BY <1>1, <1>2, <2>1 DEF ReceiveOK, Moves
    <2>4. recv[s].m # 0 => recv[s].m \in Migrations
      BY <1>1 DEF Receive, Migrations
    <2> QED BY <1>1, <1>2, <2>1, <2>2, <2>3, <2>4 DEF ReceiveOK
  <1>7. /\ \A x \in Migrations : del'[s][x].step = "replicate" => st.task[x] = "ready"
        /\ \A r \in Shard \ {s}, x \in Migrations :
               del'[r][x].step = "replicate" => del[r][x].step = "replicate"
    BY DEF ControlInv
  <1>8. \A x \in Migrations : Live(x) => (from(x) = s => st.task[x] = primary(s).task[x])
    OBVIOUS
  <1>9. \A x \in Migrations : primary(s).txn[x] => st.txn[x]
    OBVIOUS
  <1>10. recv'[s].m = recv[s].m /\ (recv'[s].state = "commitStart" => recv[s].state = "commitStart")
         /\ \A r \in Shard \ {s} : recv'[r] = recv[r]
    BY <1>2
  <1> QED BY <1>3, <1>4, <1>5, <1>6, <1>7, <1>8, <1>9, <1>10, ShardWriteStep

LEMMA WritesMoves ==
    ASSUME ControlInv, NEW s \in Shard, NEW st \in State, write(s, st)
    PROVE  Moves(s, st) /\ LogType'
  BY WriteFacts, Parts DEF Writes, Moves

LEMMA InsertBatchStep ==
    ASSUME ControlInv, NEW s \in Shard, InsertBatch(s)
    PROVE  ControlInv'
  <1>1. primary(s) \in State /\ recv[s].batch \subseteq Doc /\ acked \subseteq Doc
    BY Parts DEF RecvType, Receive, TypeInv
  <1>2. PICK d \in SUBSET Doc : d = primary(s).docs \cup recv[s].batch
    BY <1>1 DEF State
  <1>3. PICK st \in State : /\ st = [primary(s) EXCEPT !.docs = d]
                            /\ st.coord = primary(s).coord /\ st.task = primary(s).task
                            /\ st.txn = primary(s).txn /\ st.docs = d
    BY <1>1, SetDocs
  <1>4. write(s, st)
    BY <1>2, <1>3 DEF InsertBatch
  <1>5. Moves(s, st) /\ LogType'
    BY <1>4, WritesMoves
  <1>6. recv[s].m # 0 /\ recv' = [recv EXCEPT ![s].batch = {}]
    BY DEF InsertBatch, ControlInv, ReceiveOK, NoReceive
  <1> QED BY <1>1, <1>3, <1>5, <1>6, DocsStep DEF InsertBatch

LEMMA DeleteNextBatchStep ==
    ASSUME ControlInv, NEW s \in Shard, NEW m \in Migrations, NEW e \in Doc,
           DeleteNextBatch(s, m, e)
    PROVE  ControlInv'
  <1>1. primary(s) \in State /\ acked \subseteq Doc
    BY Parts DEF TypeInv
  <1>2. PICK d \in SUBSET Doc : d = primary(s).docs \ {e}
    BY <1>1 DEF State
  <1>3. PICK st \in State : /\ st = [primary(s) EXCEPT !.docs = d]
                            /\ st.coord = primary(s).coord /\ st.task = primary(s).task
                            /\ st.txn = primary(s).txn /\ st.docs = d
    BY <1>1, SetDocs
  <1>4. write(s, st)
    BY <1>2, <1>3 DEF DeleteNextBatch
  <1>5. Moves(s, st) /\ LogType'
    BY <1>4, WritesMoves
  <1> QED BY <1>1, <1>3, <1>5, DocsStep DEF DeleteNextBatch

LEMMA ReplicateStep ==
    ASSUME ControlInv, NEW s \in Shard, Replicate(s)
    PROVE  ControlInv'
  <1>1. acked \subseteq Doc /\ LogType
    BY Parts DEF TypeInv
  <1>2. Loses(s) /\ primary(s)' = primary(s) /\ LogType'
    BY <1>1, ReplicateLog DEF Replicate
  <1>3. PICK st : st = primary(s)
    OBVIOUS
  <1>4. Moves(s, st)
    BY <1>2, <1>3 DEF Moves, Loses
  <1> QED BY <1>1, <1>2, <1>3, <1>4, DocsStep DEF Replicate

LEMMA ClientInsertStep ==
    ASSUME ControlInv, NEW s \in Shard, NEW e \in Doc, ClientInsert(s, e)
    PROVE  ControlInv'
  <1>1. primary(s) \in State /\ acked' \subseteq Doc /\ LogType
    BY Parts DEF TypeInv, ClientInsert
  <1>2. PICK d \in SUBSET Doc : d = primary(s).docs \cup {e}
    BY <1>1 DEF State
  <1>3. PICK st \in State : /\ st = [primary(s) EXCEPT !.docs = d]
                            /\ st.coord = primary(s).coord /\ st.task = primary(s).task
                            /\ st.txn = primary(s).txn /\ st.docs = d
    BY <1>1, SetDocs
  <1>4. log' = [log EXCEPT ![s] = <<st>>]
    BY <1>2, <1>3 DEF ClientInsert
  <1>5. Moves(s, st) /\ LogType'
    BY <1>1, <1>4, InsertLog DEF Moves
  <1> QED BY <1>1, <1>3, <1>5, DocsStep DEF ClientInsert

LEMMA PersistRecipientTaskStep ==
    ASSUME ControlInv, NEW s \in Shard, PersistRecipientTask(s)
    PROVE  ControlInv'
  <1>1. /\ recv[s] \in Receive /\ recv \in [Shard -> Receive] /\ primary(s) \in State
        /\ primary(s) \in States(s) /\ ReceiveOK(s, recv[s], primary(s))
        /\ recv[s].state = "ready"
    BY Parts DEF RecvType, ControlInv, PersistRecipientTask
  <1>2. PICK m \in Migrations : m = recv[s].m
    <2>1. recv[s].m # 0
      BY <1>1 DEF ReceiveOK, NoReceive
    <2> QED BY <1>1, <2>1 DEF Receive, Migrations
  <1>3. Begun(m) /\ to(m) = s /\ m # 0
    BY <1>1, <1>2 DEF ControlInv, UnknownOK, ReceiveOK, Migrations
  <1>4. PICK f \in Shard : f = from(m) /\ f # s
    BY <1>3, Parts
  <1>5. m \notin committed => config.owner # s
    <2>1. ~Closed(m)
      BY <1>1, <1>2, <1>3 DEF ReceiveOK, Closed
    <2>2. Bound(m)
      BY <1>2, <1>3, <2>1, Parts DEF MigrationInv, MessageOK
    <2>3. primary(f).coord[m] # "none" /\ CoordOK(f, primary(f), m)
      BY <1>4, <2>2, Parts DEF Bound, ControlInv
    <2> QED BY <1>4, <2>3 DEF CoordOK
  <1>6. \A x \in Migrations : primary(s).task[x] = "none"
    BY DEF PersistRecipientTask, conflictingDeletions
  <1>7. PICK st \in State :
            /\ st = [primary(s) EXCEPT !.task[m] = "pending"]
            /\ st.coord = primary(s).coord /\ st.txn = primary(s).txn /\ st.docs = primary(s).docs
            /\ st.task[m] = "pending"
            /\ \A x \in Migrations : x # m => st.task[x] = primary(s).task[x]
    BY <1>1, SetTask
  <1>8. Moves(s, st) /\ LogType'
    <2>1. write(s, st)
      BY <1>2, <1>7 DEF PersistRecipientTask
    <2> QED BY <2>1, WritesMoves
  <1>9. /\ recv' \in [Shard -> Receive]
        /\ \A r \in Shard \ {s} : recv'[r] = recv[r]
        /\ recv'[s].m = m /\ recv'[s].state = "clone" /\ recv'[s].batch = recv[s].batch
        /\ (recv'[s].empty <=> recv[s].empty) /\ (recv'[s].after <=> recv[s].after)
    BY <1>1, <1>2 DEF PersistRecipientTask, Receive
  <1>10. MetaType' /\ RecvType' /\ DelType' /\ acked' \subseteq Doc
    BY <1>9, Parts DEF RecvType, MetaType, DelType, TypeInv, PersistRecipientTask
  <1>11. ASSUME NEW x \in Migrations
         PROVE  TaskOK(s, st, x) /\ (~Begun(x) => st.task[x] = "none")
    <2>1. CASE x = m
      BY <1>3, <1>4, <1>5, <1>7, <2>1 DEF TaskOK
    <2>2. CASE x # m
      BY <1>6, <1>7, <2>2 DEF TaskOK
    <2> QED BY <2>1, <2>2
  <1>12. ASSUME NEW x \in Migrations, Live(x)
         PROVE  /\ from(x) = s => st.task[x] = primary(s).task[x]
                /\ to(x) = s => /\ Reserved(x, st)
                                /\ sent("received", x) => st.task[x] = "pending"
    <2>1. CASE x = m
      BY <1>1, <1>2, <1>3, <1>4, <1>6, <1>7, <2>1 DEF Reserved, ReceiveOK
    <2>2. CASE x # m
      <3>1. LiveOK(x)
        BY DEF ControlInv
      <3> QED BY <1>1, <1>6, <1>7, <1>12, <2>2, <3>1 DEF Reserved, LiveOK
    <2> QED BY <2>1, <2>2
  <1>13. ReceiveOK(s, recv[s], st)'
    <2>1. \A x : to(x)' = to(x)
      BY DEF to, PersistRecipientTask
    <2>2. ~recv'[s].empty /\ ~recv'[s].after /\ recv'[s].batch = {}
      BY <1>1, <1>2, <1>3, <1>9 DEF ReceiveOK
    <2>3. /\ ~st.txn[m] /\ \A k \in Migrations : st.coord[k] = "none"
      BY <1>1, <1>2, <1>3, <1>7 DEF ReceiveOK
    <2> QED BY <1>3, <1>6, <1>7, <1>9, <2>1, <2>2, <2>3 DEF ReceiveOK
  <1>14. /\ \A x \in Migrations : del'[s][x].step = "replicate" => st.task[x] = "ready"
         /\ \A r \in Shard \ {s}, x \in Migrations :
               del'[r][x].step = "replicate" => del[r][x].step = "replicate"
    BY <1>6 DEF ControlInv, PersistRecipientTask
  <1>15. UNCHANGED <<config, committed, mig, term, thr, msgs>>
    BY DEF PersistRecipientTask
  <1>16. \A x \in Migrations : primary(s).txn[x] => st.txn[x]
    BY <1>7
  <1>17. /\ recv'[s].m = recv[s].m
         /\ recv'[s].state = "commitStart" => recv[s].state = "commitStart"
         /\ \A r \in Shard \ {s} : recv'[r] = recv[r]
    BY <1>2, <1>9
  <1>18. st.coord = primary(s).coord
    BY <1>7
  <1> QED BY <1>8, <1>10, <1>11, <1>12, <1>13, <1>14, <1>15, <1>16, <1>17, <1>18, ShardWriteStep

LEMMA SetTxn ==
    ASSUME NEW p \in State, NEW m \in Migrations
    PROVE  \E st \in State : /\ st = [p EXCEPT !.txn[m] = TRUE]
                             /\ st.coord = p.coord /\ st.task = p.task /\ st.docs = p.docs
                             /\ \A x \in Migrations : p.txn[x] => st.txn[x]
                             /\ \A x \in Migrations : x # m /\ ~p.txn[x] => ~st.txn[x]
  <1> DEFINE st == [p EXCEPT !.txn[m] = TRUE]
  <1>1. p.txn \in [Migrations -> BOOLEAN]
    BY DEF State
  <1>2. st.txn = [p.txn EXCEPT ![m] = TRUE] /\ st.coord = p.coord /\ st.task = p.task /\ st.docs = p.docs
    BY DEF State
  <1>3. \A x \in Migrations : p.txn[x] => st.txn[x]
    BY <1>1, <1>2
  <1>4. \A x \in Migrations : x # m /\ ~p.txn[x] => ~st.txn[x]
    BY <1>1, <1>2
  <1>5. st \in State
    BY <1>1, <1>2 DEF State
  <1> QED BY <1>2, <1>3, <1>4, <1>5

LEMMA AdvanceTransactionStep ==
    ASSUME ControlInv, NEW m \in Migrations, Begun(m), AdvanceTransaction(m)
    PROVE  ControlInv'
  <1>1. PICK s \in Shard : s = to(m)
    BY Parts
  <1>2. /\ recv \in [Shard -> Receive] /\ primary(s) \in State /\ primary(s) \in States(s)
        /\ ReceiveOK(s, recv[s], primary(s)) /\ recv[s].m # m
    BY <1>1, Parts DEF RecvType, ControlInv, AdvanceTransaction, sessionFree
  <1>3. PICK st \in State : /\ st = [primary(s) EXCEPT !.txn[m] = TRUE]
                            /\ st.coord = primary(s).coord /\ st.task = primary(s).task
                            /\ st.docs = primary(s).docs
                            /\ \A x \in Migrations : primary(s).txn[x] => st.txn[x]
                            /\ \A x \in Migrations : x # m /\ ~primary(s).txn[x] => ~st.txn[x]
    BY <1>2, SetTxn
  <1>4. Moves(s, st) /\ LogType'
    <2>1. write(s, st)
      BY <1>1, <1>3 DEF AdvanceTransaction
    <2> QED BY <2>1, WritesMoves
  <1>5. UNCHANGED <<config, committed, mig, term, thr, msgs, meta, recv, del, acked>>
    BY DEF AdvanceTransaction
  <1>6. MetaType' /\ RecvType' /\ DelType' /\ acked' \subseteq Doc
    BY <1>5, Parts DEF RecvType, MetaType, DelType, TypeInv
  <1>7. ASSUME NEW x \in Migrations
        PROVE  TaskOK(s, st, x) /\ (~Begun(x) => st.task[x] = "none")
    <2>1. TaskOK(s, primary(s), x) /\ (~Begun(x) => primary(s).task[x] = "none")
      BY <1>2 DEF ControlInv, UnknownOK
    <2> QED BY <1>3, <2>1 DEF TaskOK
  <1>8. ASSUME NEW x \in Migrations, Live(x)
        PROVE  /\ from(x) = s => st.task[x] = primary(s).task[x]
               /\ to(x) = s => /\ Reserved(x, st)
                               /\ sent("received", x) => st.task[x] = "pending"
    <2>1. LiveOK(x)
      BY DEF ControlInv
    <2> QED BY <1>2, <1>3, <1>8, <2>1 DEF Reserved, LiveOK
  <1>9. ReceiveOK(s, recv[s], st)'
    <2>1. \A x : to(x)' = to(x)
      BY <1>5 DEF to
    <2>2. recv[s].m # 0 => recv[s].m \in Migrations
      BY <1>2 DEF Receive, Migrations
    <2>3. recv[s].m # 0 /\ recv[s].empty => \A u \in States(s)' : u.task[recv[s].m] = "pending"
      BY <1>2, <1>3, <1>4 DEF ReceiveOK, Moves
    <2> QED BY <1>2, <1>3, <1>5, <2>1, <2>2, <2>3 DEF ReceiveOK
  <1>10. /\ \A x \in Migrations : del'[s][x].step = "replicate" => st.task[x] = "ready"
         /\ \A r \in Shard \ {s}, x \in Migrations :
               del'[r][x].step = "replicate" => del[r][x].step = "replicate"
    BY <1>3, <1>5 DEF ControlInv
  <1>11. /\ recv'[s].m = recv[s].m
         /\ recv'[s].state = "commitStart" => recv[s].state = "commitStart"
         /\ \A r \in Shard \ {s} : recv'[r] = recv[r]
    BY <1>5
  <1>12. st.coord = primary(s).coord /\ \A x \in Migrations : primary(s).txn[x] => st.txn[x]
    BY <1>3
  <1> QED BY <1>4, <1>5, <1>6, <1>7, <1>8, <1>9, <1>10, <1>11, <1>12, ShardWriteStep

LEMMA TaskStep ==
    ASSUME ControlInv, UNCHANGED <<config, committed, mig, term, thr, msgs, meta, recv, acked>>,
           NEW s \in Shard, NEW m \in Migrations, Begun(m), ~Live(m),
           primary(s).task[m] # "none",
           recv[s].m = m => recv[s].state = "ready",
           NEW st \in State, write(s, st),
           st.coord = primary(s).coord, st.txn = primary(s).txn, TaskOK(s, st, m),
           \A x \in Migrations : x # m => st.task[x] = primary(s).task[x],
           DelType',
           del'[s][m].step = "replicate" => st.task[m] = "ready",
           \A x \in Migrations : x # m =>
               (del'[s][x].step = "replicate" => del[s][x].step = "replicate"),
           \A r \in Shard \ {s}, x \in Migrations :
               del'[r][x].step = "replicate" => del[r][x].step = "replicate"
    PROVE  ControlInv'
  <1>1. /\ recv \in [Shard -> Receive] /\ primary(s) \in State /\ primary(s) \in States(s)
        /\ ReceiveOK(s, recv[s], primary(s))
    BY Parts DEF RecvType, ControlInv
  <1>3. Moves(s, st) /\ LogType'
    BY WritesMoves
  <1>4. MetaType' /\ RecvType' /\ acked' \subseteq Doc
    BY Parts DEF RecvType, MetaType, TypeInv
  <1>5. ASSUME NEW x \in Migrations
        PROVE  TaskOK(s, st, x) /\ (~Begun(x) => st.task[x] = "none")
    <2>1. TaskOK(s, primary(s), x) /\ (~Begun(x) => primary(s).task[x] = "none")
      BY <1>1 DEF ControlInv, UnknownOK
    <2>2. CASE x # m
      BY <2>1, <2>2 DEF TaskOK
    <2> QED BY <2>2
  <1>6. ASSUME NEW x \in Migrations, Live(x)
        PROVE  /\ from(x) = s => st.task[x] = primary(s).task[x]
               /\ to(x) = s => /\ Reserved(x, st)
                               /\ sent("received", x) => st.task[x] = "pending"
    <2>1. LiveOK(x) /\ x # m
      BY <1>6 DEF ControlInv
    <2>2. st.task[x] = primary(s).task[x]
      BY <2>1
    <2>3. to(x) = s => primary(s).task[x] = "none" /\ ~sent("received", x)
      BY <1>1, <1>6, <2>1 DEF Reserved, LiveOK
    <2> QED BY <2>2, <2>3 DEF Reserved
  <1>7. ReceiveOK(s, recv[s], st)'
    <2>1. \A x : to(x)' = to(x)
      BY DEF to
    <2>2. recv[s].m # 0 => recv[s].m \in Migrations
      BY <1>1 DEF Receive, Migrations
    <2>3. recv[s].m # 0 => recv[s].state = "ready"
      BY <1>1, <2>2 DEF ReceiveOK
    <2> QED BY <1>1, <2>1, <2>2, <2>3 DEF ReceiveOK
  <1>8. \A x \in Migrations : del'[s][x].step = "replicate" => st.task[x] = "ready"
    BY DEF ControlInv
  <1>9. /\ recv'[s].m = recv[s].m
        /\ recv'[s].state = "commitStart" => recv[s].state = "commitStart"
        /\ \A r \in Shard \ {s} : recv'[r] = recv[r]
    OBVIOUS
  <1>10. st.coord = primary(s).coord /\ \A x \in Migrations : primary(s).txn[x] => st.txn[x]
    OBVIOUS
  <1> QED BY <1>3, <1>4, <1>5, <1>6, <1>7, <1>8, <1>9, <1>10, ShardWriteStep

LEMMA DeleteTaskStep ==
    ASSUME ControlInv, NEW m \in Migrations, Begun(m), DeleteTask(m)
    PROVE  ControlInv'
  <1>1. PICK s \in Shard : s = to(m)
    BY Parts
  <1>2. m \in committed /\ Closed(m)
    BY Parts DEF MigrationInv, MessageOK, DeleteTask
  <1>3. ~Live(m)
    BY <1>2, CommittedNotLive
  <1>4. recv[s].m # m
    <2>1. m # 0 /\ ReceiveOK(s, recv[s], primary(s)) /\ primary(s) \in States(s)
      BY Parts DEF ControlInv, Migrations
    <2> QED BY <1>1, <1>2, <2>1 DEF ReceiveOK, Closed
  <1>5. del[s][m].step # "replicate"
    <2>1. TaskOK(s, primary(s), m)
      BY Parts DEF ControlInv
    <2>2. primary(s).task[m] # "ready"
      BY <1>1, <1>2, <2>1 DEF TaskOK, Aborted
    <2> QED BY <2>2 DEF ControlInv
  <1>6. UNCHANGED <<config, committed, mig, term, thr, msgs, meta, recv, acked, del>>
    BY DEF DeleteTask
  <1>7. DelType'
    BY <1>6, Parts DEF DelType
  <1>8. PICK st \in State :
            /\ st = [primary(s) EXCEPT !.task[m] = "none"]
            /\ st.coord = primary(s).coord /\ st.txn = primary(s).txn /\ st.docs = primary(s).docs
            /\ st.task[m] = "none"
            /\ \A x \in Migrations : x # m => st.task[x] = primary(s).task[x]
    <2>1. primary(s) \in State
      BY Parts
    <2> QED BY <2>1, SetTask
  <1>9. primary(s).task[m] # "none" /\ write(s, st)
    BY <1>1, <1>8 DEF DeleteTask
  <1>10. TaskOK(s, st, m)
    BY <1>8 DEF TaskOK
  <1> QED BY <1>3, <1>4, <1>5, <1>6, <1>7, <1>8, <1>9, <1>10, TaskStep

LEMMA ReadyTaskStep ==
    ASSUME ControlInv, NEW m \in Migrations, Begun(m), ReadyTask(m)
    PROVE  ControlInv'
  <1>1. PICK s \in Shard : s = to(m) /\ from(m) # s
    BY Parts
  <1>2. Aborted(m) /\ Closed(m)
    BY Parts DEF MigrationInv, MessageOK, ReadyTask
  <1>3. ~Live(m)
    BY <1>2 DEF Aborted
  <1>4. recv[s].m # m
    <2>1. m # 0 /\ ReceiveOK(s, recv[s], primary(s)) /\ primary(s) \in States(s)
      BY Parts DEF ControlInv, Migrations
    <2> QED BY <1>1, <1>2, <2>1 DEF ReceiveOK, Closed
  <1>5. PICK e \in Deletion : e = submitted(del[s][m]) /\ del' = [del EXCEPT ![s][m] = e]
    BY <1>1, DeletionFacts, Parts DEF DelType, ReadyTask
  <1>6. UNCHANGED <<config, committed, mig, term, thr, msgs, meta, recv, acked>>
    BY DEF ReadyTask
  <1>7. /\ DelType'
        /\ \A r \in Shard, x \in Migrations : r # s \/ x # m => del'[r][x] = del[r][x]
    <2>1. DelType
      BY Parts
    <2> QED BY <1>5, <2>1 DEF DelType
  <1>8. PICK st \in State :
            /\ st = [primary(s) EXCEPT !.task[m] = "ready"]
            /\ st.coord = primary(s).coord /\ st.txn = primary(s).txn /\ st.docs = primary(s).docs
            /\ st.task[m] = "ready"
            /\ \A x \in Migrations : x # m => st.task[x] = primary(s).task[x]
    <2>1. primary(s) \in State
      BY Parts
    <2> QED BY <2>1, SetTask
  <1>9. primary(s).task[m] # "none" /\ write(s, st)
    BY <1>1, <1>8 DEF ReadyTask
  <1>10. TaskOK(s, st, m)
    <2>1. TaskOK(s, primary(s), m)
      BY Parts DEF ControlInv
    <2> QED BY <1>1, <1>2, <1>8, <1>9, <2>1 DEF TaskOK
  <1>12. /\ \A x \in Migrations : x # m =>
               (del'[s][x].step = "replicate" => del[s][x].step = "replicate")
         /\ \A r \in Shard \ {s}, x \in Migrations :
               del'[r][x].step = "replicate" => del[r][x].step = "replicate"
    BY <1>7
  <1>13. del'[s][m].step = "replicate" => st.task[m] = "ready"
    BY <1>7, <1>8
  <1> QED BY <1>3, <1>4, <1>6, <1>7, <1>8, <1>9, <1>10, <1>12, <1>13, TaskStep

LEMMA RemoveTaskStep ==
    ASSUME ControlInv, NEW s \in Shard, NEW m \in Migrations, RemoveTask(s, m)
    PROVE  ControlInv'
  <1>1. primary(s).task[m] = "ready" /\ primary(s) \in States(s)
    BY Parts DEF RemoveTask, ControlInv
  <1>2. Begun(m) /\ TaskOK(s, primary(s), m)
    BY <1>1 DEF ControlInv, UnknownOK
  <1>3. ~Live(m)
    BY <1>1, <1>2, CommittedNotLive DEF TaskOK, Aborted
  <1>4. recv[s].m = m => recv[s].state = "ready"
    <2>1. m # 0 /\ ReceiveOK(s, recv[s], primary(s))
      BY DEF ControlInv, Migrations
    <2> QED BY <1>1, <2>1 DEF ReceiveOK
  <1>5. PICK e \in Deletion : e = finished(del[s][m]) /\ del' = [del EXCEPT ![s][m] = e]
    BY DeletionFacts, Parts DEF DelType, RemoveTask
  <1>6. UNCHANGED <<config, committed, mig, term, thr, msgs, meta, recv, acked>>
    BY DEF RemoveTask
  <1>7. /\ DelType' /\ del'[s][m] = e
        /\ \A r \in Shard, x \in Migrations : r # s \/ x # m => del'[r][x] = del[r][x]
    <2>1. DelType
      BY Parts
    <2> QED BY <1>5, <2>1 DEF DelType
  <1>8. e.step # "replicate"
    BY <1>5, DeletionFacts, Parts DEF DelType
  <1>9. PICK st \in State :
            /\ st = [primary(s) EXCEPT !.task[m] = "none"]
            /\ st.coord = primary(s).coord /\ st.txn = primary(s).txn /\ st.docs = primary(s).docs
            /\ st.task[m] = "none"
            /\ \A x \in Migrations : x # m => st.task[x] = primary(s).task[x]
    <2>1. primary(s) \in State
      BY Parts
    <2> QED BY <2>1, SetTask
  <1>10. primary(s).task[m] # "none" /\ write(s, st)
    BY <1>1, <1>9 DEF RemoveTask
  <1>11. TaskOK(s, st, m)
    BY <1>9 DEF TaskOK
  <1>12. /\ \A x \in Migrations : x # m =>
               (del'[s][x].step = "replicate" => del[s][x].step = "replicate")
         /\ \A r \in Shard \ {s}, x \in Migrations :
               del'[r][x].step = "replicate" => del[r][x].step = "replicate"
    BY <1>7
  <1>13. del'[s][m].step = "replicate" => st.task[m] = "ready"
    BY <1>7, <1>8, <1>9
  <1> QED BY <1>2, <1>3, <1>4, <1>6, <1>7, <1>9, <1>10, <1>11, <1>12, <1>13, TaskStep

(* A shard that neither donates nor recovers a migration has no coordinator document. *)
LEMMA FreeFacts ==
    ASSUME ControlInv, NEW s \in Shard, registryFree(s)
    PROVE  recv[s] = NoReceive /\ \A k \in Migrations : primary(s).coord[k] = "none"
  <1>1. recv[s] = NoReceive
    BY DEF registryFree
  <1>2. ASSUME NEW k \in Migrations, primary(s).coord[k] # "none" PROVE FALSE
    <2>1. from(k) = s
      BY <1>2, Parts DEF ControlInv, CoordOK
    <2>2. Begun(k)
      BY <2>1, ShardAssumption DEF Begun
    <2>3. Agree(k, thr[k][term[s]], primary(s).coord[k])
      BY <2>1, <2>2 DEF ControlInv, DocumentOK
    <2>4. thr[k][term[s]].pc \in {"idle", "done"}
      BY <2>1 DEF registryFree, active
    <2> QED BY <1>2, <2>3, <2>4 DEF Agree
  <1> QED BY <1>1, <1>2

LEMMA RecvChunkStartStep ==
    ASSUME ControlInv, NEW m \in Migrations, Begun(m), RecvChunkStart(m)
    PROVE  ControlInv'
  <1>1. PICK s \in Shard : s = to(m)
    BY Parts
  <1>2. /\ recv \in [Shard -> Receive] /\ recv[s] = NoReceive
        /\ \A k \in Migrations : primary(s).coord[k] = "none"
    BY <1>1, FreeFacts, Parts DEF RecvChunkStart, RecvType
  <1>3. sent("recvChunkStart", m) /\ Takes("recvChunkStart", m) /\ MsgType'
    BY ReceiveFacts, Parts DEF RecvChunkStart
  <1>4. /\ recv'[s].m = m /\ recv'[s].state = "ready" /\ recv'[s].batch = {}
        /\ ~recv'[s].empty /\ ~recv'[s].after
        /\ recv' \in [Shard -> Receive] /\ \A r \in Shard \ {s} : recv'[r] = recv[r]
    <2> DEFINE v == [NoReceive EXCEPT !.m = m, !.state = "ready"]
    <2>1. NoReceive \in Receive /\ m \in 0 .. MaxMigrations
      BY BoundAssumption DEF NoReceive, Receive, Migrations
    <2>2. v \in Receive /\ v.m = m /\ v.state = "ready" /\ v.batch = {} /\ ~v.empty /\ ~v.after
      BY <2>1 DEF Receive, NoReceive
    <2>3. recv' = [recv EXCEPT ![s] = v]
      BY <1>1 DEF RecvChunkStart
    <2> HIDE DEF v
    <2> QED BY <1>2, <2>2, <2>3
  <1>5. UNCHANGED <<config, committed, mig, term, thr, log, del, acked>>
    BY DEF RecvChunkStart
  <1>6. MetaType' /\ RecvType'
    <2>1. config \in Metadata
      BY Parts DEF ConfigType, Metadata
    <2> QED BY <1>1, <1>4, <2>1, Parts DEF MetaType, RecvType, RecvChunkStart
  <1>7. ReceiveOK(s, recv[s], primary(s))'
    <2>1. to(m)' = s /\ primary(s)' = primary(s) /\ m # 0
      BY <1>1, <1>5, SameLog DEF to, Migrations
    <2>2. ~primary(s).txn[m]
      BY <1>1 DEF RecvChunkStart, mayReceive
    <2> QED BY <1>2, <1>4, <2>1, <2>2 DEF ReceiveOK
  <1>8. recv[s].m = 0 /\ recv'[s].m = m /\ recv'[s].state = "ready"
    BY <1>2, <1>4 DEF NoReceive
  <1>9. /\ \A y, x : x # m => (sent(y, x)' <=> sent(y, x))
        /\ \A y : y \notin {"recvChunkStart", "recvChunkCommit", "received"}
                    => (sent(y, m)' <=> sent(y, m))
        /\ \A y \in {"recvChunkStart", "recvChunkCommit"} : sent(y, m)' => sent(y, m)
        /\ sent("received", m) <=> sent("received", m)'
        /\ ~sent("recvChunkStart", m)'
    BY <1>3 DEF Takes
  <1> QED BY <1>1, <1>3, <1>4, <1>5, <1>6, <1>7, <1>8, <1>9, ReceiveStep

(* What a migrate thread is about. *)
LEMMA ReceiverFacts ==
    ASSUME ControlInv, NEW s \in Shard, recv[s] # NoReceive
    PROVE  \E m \in Migrations : /\ m = recv[s].m /\ Begun(m) /\ to(m) = s /\ m # 0
                                 /\ recv[s] \in Receive
                                 /\ ReceiveOK(s, recv[s], primary(s))
  <1>1. recv[s] \in Receive /\ ReceiveOK(s, recv[s], primary(s))
    BY Parts DEF RecvType, ControlInv
  <1>2. recv[s].m \in Migrations /\ recv[s].m # 0
    BY <1>1 DEF ReceiveOK, Receive, Migrations
  <1>3. Begun(recv[s].m)
    BY <1>2 DEF ControlInv, UnknownOK
  <1> QED BY <1>1, <1>2, <1>3 DEF ReceiveOK

LEMMA ReceiverStep ==
    ASSUME ControlInv, UNCHANGED <<config, committed, mig, term, thr, log, del, acked, meta, msgs>>,
           NEW s \in Shard, recv[s] # NoReceive,
           NEW v \in Receive, recv' = [recv EXCEPT ![s] = v], v.m \in {0, recv[s].m},
           v.m # 0 /\ v.state = "commitStart" => recv[s].state = "commitStart",
           ReceiveOK(s, v, primary(s))
    PROVE  ControlInv'
  <1>1. PICK m \in Migrations : m = recv[s].m /\ Begun(m) /\ to(m) = s /\ m # 0
    BY ReceiverFacts
  <1>2. SameMessages /\ MsgType'
    BY NoMessageFacts, Parts
  <1>3. recv \in [Shard -> Receive]
    BY Parts DEF RecvType
  <1>4. /\ recv'[s] = v /\ recv' \in [Shard -> Receive]
        /\ \A r \in Shard \ {s} : recv'[r] = recv[r]
    BY <1>3
  <1>5. MetaType' /\ RecvType'
    BY <1>4, Parts DEF MetaType, RecvType
  <1>6. ReceiveOK(s, recv[s], primary(s))'
    <2>1. \A x : to(x)' = to(x)
      BY DEF to
    <2>2. primary(s)' = primary(s) /\ States(s)' = States(s)
      BY SameLog
    <2> QED BY <1>4, <2>1, <2>2 DEF ReceiveOK
  <1>7. /\ \A y, x : sent(y, x)' <=> sent(y, x)
        /\ recv[s].m = m => ~sent("recvChunkStart", m)
    <2>1. MessageOK(m)
      BY <1>1, Parts DEF MigrationInv
    <2> QED BY <1>1, <1>2, <2>1 DEF SameMessages, MessageOK
  <1>8. recv[s].m = m /\ recv'[s].m \in {0, m} /\ recv[s].m \in {0, m}
    BY <1>1, <1>4
  <1>9. recv'[s].m = m => /\ recv[s].m = m /\ ~sent("recvChunkStart", m)'
                          /\ recv'[s].state = "commitStart" =>
                                recv[s].m = m /\ recv[s].state = "commitStart"
    BY <1>1, <1>4, <1>7, <1>8
  <1> QED BY <1>1, <1>2, <1>4, <1>5, <1>6, <1>7, <1>8, <1>9, ReceiveStep

LEMMA ReceiveFailsStep ==
    ASSUME ControlInv, NEW s \in Shard, ReceiveFails(s)
    PROVE  ControlInv'
  <1>1. NoReceive \in Receive /\ NoReceive.m = 0
    BY BoundAssumption DEF NoReceive, Receive
  <1>2. ReceiveOK(s, NoReceive, primary(s))
    BY <1>1 DEF ReceiveOK
  <1> QED BY <1>1, <1>2, ReceiverStep DEF ReceiveFails

(* What the donor says is missing. *)
LEMMA TransferFacts ==
    ASSUME ControlInv, NEW s \in Shard, transferring(s)
    PROVE  /\ recv[s] # NoReceive /\ missing(s) \subseteq Doc
           /\ \A u \in States(s) : u.task[recv[s].m] = "pending"
  <1>1. recv[s] # NoReceive
    BY DEF transferring, NoReceive
  <1>2. PICK m \in Migrations : m = recv[s].m /\ Begun(m)
    BY <1>1, ReceiverFacts
  <1>3. primary(from(m)) \in State
    BY <1>2, Parts
  <1>4. missing(s) \subseteq Doc
    BY <1>2, <1>3 DEF missing, State
  <1> QED BY <1>1, <1>4 DEF transferring, taskDurable, States

LEMMA FetchBatchStep ==
    ASSUME ControlInv, NEW s \in Shard, FetchBatch(s)
    PROVE  ControlInv'
  <1>1. recv[s] # NoReceive /\ missing(s) \subseteq Doc
    BY TransferFacts DEF FetchBatch
  <1>2. /\ recv[s] \in Receive /\ ReceiveOK(s, recv[s], primary(s)) /\ recv[s].m # 0
        /\ recv \in [Shard -> Receive]
    BY <1>1, ReceiverFacts, Parts DEF RecvType
  <1> DEFINE v == [recv[s] EXCEPT !.batch = missing(s), !.after = nowAfter(s)]
  <1>3. nowAfter(s) \in BOOLEAN
    BY <1>2 DEF nowAfter, Receive
  <1>4. v \in Receive
    BY <1>1, <1>2, <1>3 DEF Receive
  <1>5. recv' = [recv EXCEPT ![s] = v]
    BY <1>2 DEF FetchBatch
  <1>6. /\ v.m = recv[s].m /\ v.state = recv[s].state /\ (v.after <=> nowAfter(s))
        /\ (v.empty <=> recv[s].empty) /\ v.batch = missing(s)
    BY <1>2 DEF Receive
  <1>7. recv[s].state # "ready"
    BY DEF FetchBatch, transferring
  <1>8. ReceiveOK(s, v, primary(s))
    <2> HIDE DEF v
    <2> QED BY <1>2, <1>6, <1>7 DEF ReceiveOK, nowAfter
  <1>9. UNCHANGED <<config, committed, mig, term, thr, log, del, acked, meta, msgs>>
    BY DEF FetchBatch
  <1> HIDE DEF v
  <1> QED BY <1>1, <1>4, <1>5, <1>6, <1>8, <1>9, ReceiverStep

LEMMA SteadyStep ==
    ASSUME ControlInv, NEW s \in Shard, Steady(s)
    PROVE  ControlInv'
  <1>1. recv[s] # NoReceive
    BY TransferFacts DEF Steady
  <1>2. /\ recv[s] \in Receive /\ ReceiveOK(s, recv[s], primary(s)) /\ recv[s].m # 0
        /\ recv \in [Shard -> Receive]
    BY <1>1, ReceiverFacts, Parts DEF RecvType
  <1> DEFINE v == [recv[s] EXCEPT !.state = "steady"]
  <1>4. v \in Receive
    BY <1>2 DEF Receive
  <1>5. recv' = [recv EXCEPT ![s] = v]
    BY <1>2 DEF Steady
  <1>6. /\ v.m = recv[s].m /\ v.state = "steady" /\ (v.after <=> recv[s].after)
        /\ (v.empty <=> recv[s].empty) /\ v.batch = recv[s].batch
    BY <1>2 DEF Receive
  <1>7. recv[s].state = "clone"
    BY DEF Steady
  <1>8. ReceiveOK(s, v, primary(s))
    <2> HIDE DEF v
    <2> QED BY <1>2, <1>6, <1>7 DEF ReceiveOK
  <1>9. UNCHANGED <<config, committed, mig, term, thr, log, del, acked, meta, msgs>>
    BY DEF Steady
  <1> HIDE DEF v
  <1> QED BY <1>1, <1>4, <1>5, <1>6, <1>8, <1>9, ReceiverStep

LEMMA TransferNothingStep ==
    ASSUME ControlInv, NEW s \in Shard, TransferNothing(s)
    PROVE  ControlInv'
  <1>1. recv[s] # NoReceive /\ \A u \in States(s) : u.task[recv[s].m] = "pending"
    BY TransferFacts DEF TransferNothing
  <1>2. /\ recv[s] \in Receive /\ ReceiveOK(s, recv[s], primary(s)) /\ recv[s].m # 0
        /\ recv \in [Shard -> Receive]
    BY <1>1, ReceiverFacts, Parts DEF RecvType
  <1> DEFINE v == [recv[s] EXCEPT !.empty = TRUE, !.after = nowAfter(s)]
  <1>3. nowAfter(s) \in BOOLEAN
    BY <1>2 DEF nowAfter, Receive
  <1>4. v \in Receive
    BY <1>2, <1>3 DEF Receive
  <1>5. recv' = [recv EXCEPT ![s] = v]
    BY <1>2 DEF TransferNothing
  <1>6. /\ v.m = recv[s].m /\ v.state = recv[s].state /\ (v.after <=> nowAfter(s))
        /\ v.batch = recv[s].batch
    BY <1>2 DEF Receive
  <1>7. recv[s].state # "ready"
    BY DEF TransferNothing, transferring
  <1>8. ReceiveOK(s, v, primary(s))
    <2> HIDE DEF v
    <2> QED BY <1>1, <1>2, <1>6, <1>7 DEF ReceiveOK, nowAfter
  <1>9. UNCHANGED <<config, committed, mig, term, thr, log, del, acked, meta, msgs>>
    BY DEF TransferNothing
  <1> HIDE DEF v
  <1> QED BY <1>1, <1>4, <1>5, <1>6, <1>8, <1>9, ReceiverStep

LEMMA StartCommitStep ==
    ASSUME ControlInv, NEW m \in Migrations, Begun(m), StartCommit(m)
    PROVE  ControlInv'
  <1>1. PICK s \in Shard : s = to(m)
    BY Parts
  <1>2. /\ recv \in [Shard -> Receive] /\ recv[s] \in Receive /\ recv[s].m = m
        /\ recv[s].state = "steady" /\ ReceiveOK(s, recv[s], primary(s)) /\ m # 0
    BY <1>1, Parts DEF StartCommit, RecvType, ControlInv, Migrations
  <1>3. sent("recvChunkCommit", m) /\ Takes("recvChunkCommit", m) /\ MsgType'
    BY ReceiveFacts, Parts DEF StartCommit
  <1>4. /\ recv' \in [Shard -> Receive] /\ \A r \in Shard \ {s} : recv'[r] = recv[r]
        /\ recv'[s].m = m /\ recv'[s].state = "commitStart" /\ recv'[s].batch = recv[s].batch
        /\ (recv'[s].after <=> recv[s].after) /\ (recv'[s].empty <=> recv[s].empty)
    BY <1>1, <1>2 DEF StartCommit, Receive
  <1>5. UNCHANGED <<config, committed, mig, term, thr, log, del, acked, meta>>
    BY DEF StartCommit
  <1>6. MetaType' /\ RecvType'
    BY <1>4, <1>5, Parts DEF MetaType, RecvType
  <1>7. ReceiveOK(s, recv[s], primary(s))'
    <2>1. \A x : to(x)' = to(x)
      BY <1>5 DEF to
    <2>2. primary(s)' = primary(s) /\ States(s)' = States(s)
      BY <1>5, SameLog
    <2> QED BY <1>2, <1>4, <2>1, <2>2 DEF ReceiveOK
  <1>8. /\ \A y, x : x # m => (sent(y, x)' <=> sent(y, x))
        /\ \A y : y \notin {"recvChunkStart", "recvChunkCommit", "received"}
                    => (sent(y, m)' <=> sent(y, m))
        /\ \A y \in {"recvChunkStart", "recvChunkCommit"} : sent(y, m)' => sent(y, m)
        /\ sent("received", m) <=> sent("received", m)'
        /\ ~sent("recvChunkStart", m)'
    <2>1. ~sent("recvChunkStart", m)
      BY <1>1, <1>2, Parts DEF MigrationInv, MessageOK
    <2> QED BY <1>3, <2>1 DEF Takes
  <1> QED BY <1>1, <1>2, <1>3, <1>4, <1>5, <1>6, <1>7, <1>8, ReceiveStep

LEMMA ExamineStateStep ==
    ASSUME ControlInv, NEW s \in Shard, ExamineState(s)
    PROVE  ControlInv'
  <1>1. recv[s] # NoReceive
    BY DEF ExamineState, NoReceive
  <1>2. PICK m \in Migrations : /\ m = recv[s].m /\ Begun(m) /\ to(m) = s /\ m # 0
                                /\ recv[s] \in Receive /\ ReceiveOK(s, recv[s], primary(s))
    BY <1>1, ReceiverFacts
  <1>3. recv \in [Shard -> Receive]
    BY Parts DEF RecvType
  <1>4. UNCHANGED <<config, committed, mig, term, thr, log, del, acked, meta>>
    BY DEF ExamineState
  <1>5. CASE complete(s) /\ flushed(s)
    <2>1. send("received", m) /\ recv' = [recv EXCEPT ![s] = NoReceive]
      BY <1>2, <1>5 DEF ExamineState
    <2>2. Sends("received", m) /\ MsgType'
      BY <2>1, SendFacts, Parts DEF Request
    <2>3. NoReceive \in Receive /\ NoReceive.m = 0
      BY BoundAssumption DEF NoReceive, Receive
    <2>4. /\ recv' \in [Shard -> Receive] /\ recv'[s] = NoReceive
          /\ \A r \in Shard \ {s} : recv'[r] = recv[r]
      BY <1>3, <2>1, <2>3
    <2>5. MetaType' /\ RecvType'
      BY <1>4, <2>4, Parts DEF MetaType, RecvType
    <2>6. recv[s].state = "commitStart" /\ \A u \in States(s) : u.task[m] = "pending"
      BY <1>2, <1>5 DEF complete, ExamineState, ReceiveOK
    <2>7. ReceiveOK(s, recv[s], primary(s))'
      BY <2>3, <2>4 DEF ReceiveOK
    <2>8. /\ \A y, x : x # m => (sent(y, x)' <=> sent(y, x))
          /\ \A y : y \notin {"recvChunkStart", "recvChunkCommit", "received"}
                      => (sent(y, m)' <=> sent(y, m))
          /\ \A y \in {"recvChunkStart", "recvChunkCommit"} : sent(y, m)' => sent(y, m)
          /\ sent("received", m) => sent("received", m)'
      BY <2>2 DEF Sends
    <2>9. recv[s].m = m /\ recv[s].m \in {0, m} /\ recv'[s].m = 0 /\ recv'[s].m # m
      BY <1>2, <2>3, <2>4
    <2> QED BY <1>2, <1>4, <2>2, <2>4, <2>5, <2>6, <2>7, <2>8, <2>9, ReceiveStep
  <1>6. CASE ~(complete(s) /\ flushed(s))
    <2> DEFINE v == [recv[s] EXCEPT !.empty = FALSE]
    <2>1. v \in Receive
      BY <1>2 DEF Receive
    <2>2. recv' = [recv EXCEPT ![s] = v] /\ UNCHANGED msgs
      BY <1>3, <1>6 DEF ExamineState
    <2>3. /\ v.m = recv[s].m /\ v.state = recv[s].state /\ (v.after <=> recv[s].after)
          /\ ~v.empty /\ v.batch = recv[s].batch
      BY <1>2 DEF Receive
    <2>4. ReceiveOK(s, v, primary(s))
      <3> HIDE DEF v
      <3> QED BY <1>2, <2>3 DEF ReceiveOK
    <2> HIDE DEF v
    <2> QED BY <1>1, <1>4, <2>1, <2>2, <2>3, <2>4, ReceiverStep
  <1> QED BY <1>5, <1>6

-----------------------------------------------------------------------------
(* Steps that change only the metadata and the submitted deletions. *)

LEMMA MemoryStep ==
    ASSUME ControlInv, UNCHANGED <<config, committed, mig, log, term, recv, thr, msgs, acked>>,
           MetaType', DelType',
           \A s \in Shard, x \in Migrations : del'[s][x].step = "replicate" =>
               del[s][x].step = "replicate" \/ primary(s).task[x] = "ready"
    PROVE  ControlInv'
  <1>1. PICK s \in Shard : TRUE
    BY ShardAssumption
  <1>2. PICK st : st = primary(s)
    OBVIOUS
  <1>3. \A r \in Shard : States(r)' = States(r) /\ primary(r)' = primary(r)
    BY SameLog
  <1>4. Moves(s, st)
    BY <1>2, <1>3 DEF Moves
  <1>5. LogType' /\ RecvType' /\ acked' \subseteq Doc /\ ThrType' /\ MsgType'
    BY Parts DEF LogType, RecvType, TypeInv, ThrType, MsgType
  <1>6. Quiet
    BY QuietFacts
  <1>7. TypeInv'
    BY <1>5, <1>6, Parts DEF TypeInv, Quiet
  <1>8. SameMessages
    BY NoMessageFacts, Parts
  <1>9. ASSUME NEW x \in Migrations, Begun(x)
        PROVE  MigrationInv(x)' /\ (Live(x)' => Live(x))
    <2>1. Mirrors(x)
      BY <1>9, SameMirrors
    <2>2. SameReceive(x)
      BY DEF SameReceive
    <2>3. /\ \A u \in 0 .. MaxTerm : thr'[x][u] = thr[x][u]
          /\ \A y : sent(y, x)' <=> sent(y, x)
      BY <1>8 DEF SameMessages
    <2> QED BY <1>6, <1>9, <2>1, <2>2, <2>3, KeptMigration
  <1>10. \A x \in Migrations : ~Begun(x) =>
            /\ \A u \in 0 .. MaxTerm : thr'[x][u] = thr[x][u]
            /\ \A y : sent(y, x)' => sent(y, x)
            /\ \A r \in Shard : recv'[r].m = x => recv[r].m = x
    BY <1>8 DEF SameMessages
  <1>11. \A x \in Migrations :
            /\ CoordOK(s, st, x) /\ TaskOK(s, st, x)
            /\ ~Begun(x) => st.coord[x] = "none" /\ st.task[x] = "none"
    BY <1>2, Parts DEF ControlInv, UnknownOK
  <1>12. ASSUME NEW r \in Shard PROVE ReceiveOK(r, recv[r], primary(r))'
    <2>1. ReceiveOK(r, recv[r], primary(r))
      BY DEF ControlInv
    <2>2. \A x : to(x)' = to(x)
      BY DEF to
    <2> QED BY <1>3, <2>1, <2>2 DEF ReceiveOK
  <1>13. \A r \in Shard, x \in Migrations :
             del'[r][x].step = "replicate" => primary(r)'.task[x] = "ready"
    BY <1>3 DEF ControlInv
  <1> QED BY <1>3, <1>6, <1>7, <1>9, <1>10, <1>11, <1>12, <1>13, Assemble

LEMMA RefreshStep ==
    ASSUME ControlInv, NEW s \in Shard, Refresh(s)
    PROVE  ControlInv'
  <1>1. config \in Metadata
    BY Parts DEF ConfigType, Metadata
  <1>2. MetaType' /\ DelType'
    BY <1>1, Parts DEF MetaType, DelType, Refresh
  <1> QED BY <1>2, MemoryStep DEF Refresh

LEMMA CleanUpRangeStep ==
    ASSUME ControlInv, NEW s \in Shard, NEW m \in Migrations, CleanUpRange(s, m)
    PROVE  ControlInv'
  <1>1. config \in Metadata /\ meta[s] \in Metadata /\ del[s][m] \in Deletion
    BY Parts DEF ConfigType, Metadata, MetaType, DelType
  <1>2. MetaType'
    BY <1>1, Parts DEF MetaType, CleanUpRange
  <1>3. PICK e \in Deletion : del' = [del EXCEPT ![s][m] = e] /\ e.step # "replicate"
    <2>1. PICK k : k = IF meta[s] = Unknown THEN config ELSE meta[s]
      OBVIOUS
    <2>2. del' = [del EXCEPT ![s][m] = IF k.owner = s THEN finished(del[s][m])
                                       ELSE [del[s][m] EXCEPT !.step = "scheduled"]]
      BY <2>1, Parts DEF CleanUpRange, DelType
    <2>3. finished(del[s][m]) \in Deletion /\ finished(del[s][m]).step # "replicate"
      BY <1>1, DeletionFacts
    <2>4. /\ [del[s][m] EXCEPT !.step = "scheduled"] \in Deletion
          /\ [del[s][m] EXCEPT !.step = "scheduled"].step # "replicate"
      BY <1>1 DEF Deletion
    <2> QED BY <2>2, <2>3, <2>4
  <1>4. /\ DelType' /\ del'[s][m] = e
        /\ \A r \in Shard, x \in Migrations : r # s \/ x # m => del'[r][x] = del[r][x]
    BY <1>3, Parts DEF DelType
  <1>5. \A r \in Shard, x \in Migrations : del'[r][x].step = "replicate" => del[r][x].step = "replicate"
    BY <1>3, <1>4
  <1> QED BY <1>2, <1>4, <1>5, MemoryStep DEF CleanUpRange

LEMMA DeletionEndsStep ==
    ASSUME ControlInv, NEW s \in Shard, NEW m \in Migrations, DeletionEnds(s, m)
    PROVE  ControlInv'
  <1>1. del[s][m] \in Deletion
    BY Parts DEF DelType
  <1>2. PICK e \in Deletion : /\ del' = [del EXCEPT ![s][m] = e]
                              /\ e.step = "replicate" => primary(s).task[m] = "ready"
    <2>1. CASE taskStillExists(s, m) /\ del' = [del EXCEPT ![s][m].step = "replicate"]
      <3>1. [del[s][m] EXCEPT !.step = "replicate"] \in Deletion
        BY <1>1 DEF Deletion
      <3>2. del' = [del EXCEPT ![s][m] = [del[s][m] EXCEPT !.step = "replicate"]]
        BY <2>1, Parts DEF DelType
      <3> QED BY <2>1, <3>1, <3>2 DEF taskStillExists
    <2>2. CASE del' = [del EXCEPT ![s][m] = finished(@)]
      <3>1. finished(del[s][m]) \in Deletion /\ finished(del[s][m]).step # "replicate"
        BY <1>1, DeletionFacts
      <3>2. del' = [del EXCEPT ![s][m] = finished(del[s][m])]
        BY <2>2, Parts DEF DelType
      <3> QED BY <3>1, <3>2
    <2> QED BY <2>1, <2>2 DEF DeletionEnds
  <1>3. /\ DelType' /\ del'[s][m] = e
        /\ \A r \in Shard, x \in Migrations : r # s \/ x # m => del'[r][x] = del[r][x]
    BY <1>2, Parts DEF DelType
  <1>4. \A r \in Shard, x \in Migrations : del'[r][x].step = "replicate" =>
            del[r][x].step = "replicate" \/ primary(r).task[x] = "ready"
    BY <1>2, <1>3
  <1>5. MetaType'
    BY Parts DEF MetaType, DeletionEnds
  <1> QED BY <1>3, <1>4, <1>5, MemoryStep DEF DeletionEnds

-----------------------------------------------------------------------------
(* A migration begins. *)

LEMMA StartVersion ==
    ASSUME ControlInv, NEW m \in Migrations, NEW s \in Shard, NEW r \in Shard,
           StartMigration(m, s, r)
    PROVE  /\ ~Begun(m) /\ config' = config /\ committed' = committed /\ s # r
           /\ \A x \in Migrations : x # m => mig'[x] = mig[x]
           /\ mig'[m] = [from |-> s, to |-> r, version |-> config.version]
           /\ config.owner = s
           /\ ConfigType' /\ VersionInv'
  <1>1. ConfigType /\ VersionInv
    BY Parts
  <1>2. mig[m] = NoMigration /\ ~Begun(m)
    BY DEF StartMigration, Begun, from, NoMigration
  <1>3. /\ config' = config /\ committed' = committed /\ s # r /\ config.owner = s
        /\ mig' = [mig EXCEPT ![m] = [from |-> s, to |-> r, version |-> config.version]]
        /\ m > 1 => mig[m - 1] # NoMigration
    BY DEF StartMigration
  <1>4. /\ \A x \in Migrations : x # m => mig'[x] = mig[x]
        /\ mig'[m] = [from |-> s, to |-> r, version |-> config.version]
    BY <1>1, <1>3 DEF ConfigType
  <1>5. ConfigType'
    BY <1>1, <1>3 DEF ConfigType
  <1>6. /\ \A x \in Migrations : x # m => /\ (Begun(x)' <=> Begun(x)) /\ from(x)' = from(x)
                                          /\ to(x)' = to(x)
        /\ Begun(m)' /\ from(m)' = s /\ to(m)' = r /\ mig'[m].version = config.version
    BY <1>4, ShardAssumption DEF Begun, from, to
  <1>7. /\ config.version \in Nat /\ config.version >= 1
        /\ \A x \in Migrations : MigrationOK(x)
        /\ config.version = 1 \/ \E k \in Migrations : /\ Begun(k)
                                                       /\ config.version = mig[k].version + 1
    BY <1>1 DEF ConfigType, VersionInv, Version
  <1>8. m \in Nat /\ m >= 1 /\ \A k \in Migrations : k \in Nat
    BY DEF Migrations
  <1>9. \A k \in Migrations : Begun(k) => k < m
    BY <1>2, <1>7, <1>8 DEF MigrationOK
  <1>10. config.version <= m
    <2>1. CASE config.version = 1
      BY <1>8, <2>1
    <2>2. CASE config.version # 1
      <3>1. PICK k \in Migrations : Begun(k) /\ config.version = mig[k].version + 1
        BY <1>7, <2>2
      <3>2. mig[k].version <= k /\ mig[k].version \in Nat
        BY <1>7, <3>1 DEF MigrationOK
      <3>3. k < m
        BY <1>9, <3>1
      <3> QED BY <1>8, <3>1, <3>2, <3>3
    <2> QED BY <2>1, <2>2
  <1>11. \A k \in Migrations : k < m => Begun(k)
    <2>1. SUFFICES ASSUME NEW k \in Migrations, k < m PROVE Begun(k)
      OBVIOUS
    <2>2. m - 1 \in Migrations /\ m > 1 /\ (k = m - 1 \/ k < m - 1)
      <3>1. k \in Nat /\ k >= 1 /\ m <= MaxMigrations /\ MaxMigrations \in Nat
        BY BoundAssumption DEF Migrations
      <3>2. m - 1 \in 1 .. MaxMigrations
        BY <1>8, <2>1, <3>1
      <3> QED BY <1>8, <2>1, <3>1, <3>2 DEF Migrations
    <2>3. Begun(m - 1)
      BY <1>3, <1>7, <2>2 DEF MigrationOK
    <2> QED BY <1>7, <2>2, <2>3 DEF MigrationOK
  <1>12. MigrationOK(m)'
    BY <1>3, <1>6, <1>7, <1>8, <1>10, <1>11 DEF MigrationOK
  <1>13. ASSUME NEW x \in Migrations, x # m PROVE MigrationOK(x)'
    <2>1. MigrationOK(x) /\ mig'[x] = mig[x] /\ (Begun(x)' <=> Begun(x))
          /\ from(x)' = from(x) /\ to(x)' = to(x)
      BY <1>4, <1>6, <1>7, <1>13
    <2>2. \A k \in Migrations : Begun(k) => Begun(k)'
      BY <1>6
    <2> QED BY <1>3, <2>1, <2>2 DEF MigrationOK
  <1>14. VersionInv'
    <2>1. ASSUME NEW k \in Migrations, Begun(k), config.version = mig[k].version + 1
          PROVE  Begun(k)' /\ config'.version = mig'[k].version + 1
      BY <1>2, <1>3, <1>4, <1>6, <2>1
    <2> QED BY <1>3, <1>7, <1>12, <1>13, <2>1 DEF VersionInv
  <1> QED BY <1>2, <1>3, <1>4, <1>5, <1>14

LEMMA StartMigrationStep ==
    ASSUME ControlInv, NEW m \in Migrations, NEW s \in Shard, NEW r \in Shard,
           StartMigration(m, s, r)
    PROVE  ControlInv'
  <1>1. /\ ~Begun(m) /\ config' = config /\ committed' = committed /\ s # r
        /\ \A x \in Migrations : x # m => mig'[x] = mig[x]
        /\ mig'[m] = [from |-> s, to |-> r, version |-> config.version]
        /\ config.owner = s /\ ConfigType' /\ VersionInv'
    BY StartVersion
  <1>2. /\ \A x \in Migrations : x # m => /\ (Begun(x)' <=> Begun(x)) /\ from(x)' = from(x)
                                          /\ to(x)' = to(x)
        /\ Begun(m)' /\ from(m)' = s /\ to(m)' = r /\ mig'[m].version = config.version
    BY <1>1, ShardAssumption DEF Begun, from, to
  <1>3. recv[s] = NoReceive /\ \A k \in Migrations : primary(s).coord[k] = "none"
    BY FreeFacts DEF StartMigration
  <1>4. UNCHANGED <<term, recv, del, msgs, acked>> /\ meta' = [meta EXCEPT ![s] = config]
    BY DEF StartMigration
  <1>5. PICK t \in 0 .. MaxTerm : t = term[s]
    BY Parts DEF TypeInv
  <1>6. PICK d, c : Goes(m, t, "persistCoordinator", d, c) /\ ThrType'
    BY <1>5, GotoFacts, Parts DEF StartMigration, Pc, Undecided, Before, Starting
  <1>7. PICK st \in State : /\ st = [primary(s) EXCEPT !.coord[m] = "unknown"]
                            /\ st.task = primary(s).task /\ st.txn = primary(s).txn /\ st.docs = primary(s).docs
                            /\ st.coord[m] = "unknown"
                            /\ \A x \in Migrations : x # m => st.coord[x] = primary(s).coord[x]
    <2>1. primary(s) \in State
      BY Parts
    <2> QED BY <2>1, SetCoord
  <1>8. Writes(s, st) /\ LogType' /\ primary(s) \in States(s)
    <2>1. write(s, st)
      BY <1>7 DEF StartMigration
    <2> QED BY <2>1, WriteFacts, Parts
  <1>9. /\ \A u \in 0 .. MaxTerm : thr[m][u] = NoThread
        /\ \A y \in Request : ~sent(y, m)
        /\ m \notin committed
        /\ \A q \in Shard : /\ recv[q].m # m
                            /\ \A u \in States(q) : u.coord[m] = "none" /\ u.task[m] = "none"
    BY <1>1 DEF ControlInv, UnknownOK
  <1>10. SameMessages /\ MsgType'
    BY <1>4, NoMessageFacts, Parts
  <1>11. TypeInv'
    <2>1. config \in Metadata
      BY Parts DEF ConfigType, Metadata
    <2>2. MetaType'
      BY <1>4, <2>1, Parts DEF MetaType
    <2> QED BY <1>1, <1>4, <1>6, <1>8, <1>10, <2>2, Parts DEF TypeInv, RecvType, DelType
  <1>12. /\ thr'[m][t] = [pc |-> "persistCoordinator", decision |-> d, critSec |-> c]
         /\ \A u \in 0 .. MaxTerm : u # t => thr'[m][u] = NoThread
         /\ thr'[m][t].pc = "persistCoordinator" /\ NoThread.pc = "idle"
    BY <1>6, <1>9 DEF Goes, NoThread
  <1>13. MessageOK(m)'
    BY <1>1, <1>2, <1>4, <1>9, <1>10 DEF MessageOK, SameMessages, Request
  <1>14. ASSUME NEW u \in 0 .. MaxTerm PROVE ThreadOK(m, u)'
    <2>1. CASE u = t
      <3>1. ~(u > term'[s])
        BY <1>4, <1>5, <2>1, BoundAssumption
      <3> QED BY <1>2, <1>4, <1>9, <1>10, <1>12, <2>1, <3>1
              DEF ThreadOK, SameMessages, Request, Before, Starting, Cloning, Completing
    <2>2. CASE u # t
      BY <1>12, <2>2 DEF ThreadOK, Before, Starting, Cloning, Completing
    <2> QED BY <2>1, <2>2
  <1>15. DocumentOK(m)'
    <2>1. primary(s)' = st /\ st.coord[m] = "unknown" /\ thr'[m][term'[s]] = thr'[m][t]
      BY <1>4, <1>5, <1>7, <1>8 DEF Writes
    <2>2. Agree(m, thr[m][term[s]], primary(s).coord[m])'
      BY <1>12, <2>1 DEF Agree, Undecided, Before, Starting, Cloning, Completing
    <2> QED BY <1>2, <2>2 DEF DocumentOK
  <1>16. LiveOK(m)'
    <2>1. States(r)' = States(r)
      BY <1>1, <1>8 DEF Writes
    <2>2. /\ ~sent("commit", m)' /\ ~sent("received", m)'
          /\ \A u \in 0 .. MaxTerm : thr'[m][u].pc \notin Before \ {"persistCoordinator"}
      BY <1>9, <1>10, <1>12 DEF SameMessages, Request, Before, Starting, Cloning
    <2>3. \A u \in States(r) : u.task[m] = "none"
      BY <1>9
    <2>4. \A u \in States(r)' : Reserved(m, u)'
      BY <2>1, <2>3 DEF Reserved
    <2>5. \A u \in 0 .. MaxTerm : thr'[m][u].pc \notin Cloning
      BY <2>2 DEF Before, Starting, Cloning
    <2> QED BY <1>2, <2>2, <2>4, <2>5 DEF LiveOK
  <1>17. ASSUME NEW x \in Migrations, x # m, Begun(x)
         PROVE  MigrationInv(x)' /\ (Live(x)' => Live(x))
    <2>1. LiveOK(x) /\ from(x) \in Shard /\ to(x) \in Shard /\ from(x) # to(x)
      BY <1>17, Parts DEF MigrationInv
    <2>2. ASSUME NEW q \in Shard, q = from(x)
          PROVE  /\ \A v \in States(q)' : \E u \in States(q) :
                       u.coord[x] = v.coord[x] /\ (Live(x) => u.task[x] = v.task[x])
                 /\ primary(q)'.coord[x] = primary(q).coord[x]
      <3>1. CASE q = s
        <4>1. \A v \in States(s)' : v \in States(s) \/ v = st
          BY <1>8 DEF Writes
        <4>2. st.coord[x] = primary(s).coord[x] /\ st.task[x] = primary(s).task[x]
              /\ primary(s)' = st
          BY <1>7, <1>8, <1>17 DEF Writes
        <4> QED BY <1>8, <3>1, <4>1, <4>2
      <3>2. CASE q # s
        BY <1>8, <3>2 DEF Writes
      <3> QED BY <3>1, <3>2
    <2>3. ASSUME NEW q \in Shard, q = to(x)
          PROVE  (\A u \in States(q) : u.txn[x]) => \A v \in States(q)' : v.txn[x]
      <3>1. CASE q = s
        BY <1>7, <1>8, <3>1 DEF Writes
      <3>2. CASE q # s
        BY <1>8, <3>2 DEF Writes
      <3> QED BY <3>1, <3>2
    <2>4. ASSUME NEW q \in Shard, q = to(x), Live(x)
          PROVE  \A v \in States(q)' :
                     Reserved(x, v) /\ (sent("received", x) => v.task[x] = "pending")
      <3>1. q # s
        <4>1. config.owner = from(x)
          BY <1>17, <2>4 DEF Live, ControlInv, VersionInv, MigrationOK
        <4> QED BY <1>1, <2>1, <2>4, <4>1
      <3>2. States(q)' = States(q)
        BY <1>8, <3>1 DEF Writes
      <3> QED BY <2>1, <2>4, <3>2 DEF LiveOK
    <2>5. Mirrors(x)
      BY <2>2, <2>3, <2>4 DEF Mirrors
    <2>6. SameReceive(x)
      BY <1>4 DEF SameReceive
    <2>7. /\ \A u \in 0 .. MaxTerm : thr'[x][u] = thr[x][u]
          /\ \A y : sent(y, x)' <=> sent(y, x)
          /\ mig'[x] = mig[x]
      BY <1>1, <1>6, <1>10, <1>17 DEF SameMessages, Goes
    <2> QED BY <1>1, <1>4, <1>17, <2>5, <2>6, <2>7, KeptWhile
  <1>18. ASSUME NEW x \in Migrations PROVE UnknownOK(x)'
    <2>1. CASE x = m
      BY <1>2, <2>1 DEF UnknownOK
    <2>2. CASE x # m
      <3>1. UnknownOK(x)
        BY DEF ControlInv
      <3>2. \A u \in 0 .. MaxTerm : thr'[x][u] = thr[x][u]
        BY <1>6, <2>2 DEF Goes
      <3>3. ~Begun(x) => st.coord[x] = "none" /\ st.task[x] = "none"
        BY <1>7, <1>8, <2>2, <3>1 DEF UnknownOK
      <3>4. \A q \in Shard : \A u \in States(q)' : u \in States(q) \/ u = st
        BY <1>8 DEF Writes
      <3> QED BY <1>1, <1>2, <1>4, <1>10, <2>2, <3>1, <3>2, <3>3, <3>4 DEF UnknownOK, SameMessages
    <2> QED BY <2>1, <2>2
  <1>19. \A x \in Migrations : x # m => (Live(x)' => Live(x))
    BY <1>2, <1>17 DEF Live
  <1>20. \A q \in Shard : \A u \in States(q)' : u \in States(q) \/ (q = s /\ u = st)
    BY <1>8 DEF Writes
  <1>21. ASSUME NEW q \in Shard, NEW u \in States(q)', NEW x \in Migrations
         PROVE  CoordOK(q, u, x)' /\ TaskOK(q, u, x)'
    <2>1. CASE x # m
      <3>1. \A e : Correct(x, e) => Correct(x, e)'
        BY <1>1, <1>19, <2>1 DEF Correct, Aborted
      <3>2. CASE u \in States(q)
        <4>1. CoordOK(q, u, x) /\ TaskOK(q, u, x)
          BY <3>2 DEF ControlInv
        <4>2. Aborted(x) => Aborted(x)'
          BY <1>1, <1>19, <2>1 DEF Aborted
        <4>3. CoordOK(q, u, x)'
          BY <1>1, <1>2, <2>1, <3>1, <4>1 DEF CoordOK
        <4> QED BY <1>1, <1>2, <2>1, <4>1, <4>2, <4>3 DEF TaskOK
      <3>3. CASE q = s /\ u = st
        <4>1. CoordOK(s, primary(s), x) /\ TaskOK(s, primary(s), x)
          BY <1>8 DEF ControlInv
        <4>2. Aborted(x) => Aborted(x)'
          BY <1>1, <1>19, <2>1 DEF Aborted
        <4>3. st.coord[x] = "none" /\ st.task[x] = primary(s).task[x]
          BY <1>3, <1>7, <2>1
        <4> QED BY <1>1, <1>2, <2>1, <3>3, <4>1, <4>2, <4>3 DEF CoordOK, TaskOK
      <3> QED BY <1>20, <3>2, <3>3
    <2>2. CASE x = m
      <3>1. CASE u \in States(q)
        BY <1>9, <2>2, <3>1 DEF CoordOK, TaskOK
      <3>2. CASE q = s /\ u = st
        <4>1. st.task[m] = "none" /\ \A k \in Migrations : st.coord[k] # "none" => k = m
          BY <1>3, <1>7, <1>8, <1>9
        <4> QED BY <1>1, <1>2, <1>7, <1>9, <2>2, <3>2, <4>1 DEF CoordOK, TaskOK
      <3> QED BY <1>20, <3>1, <3>2
    <2> QED BY <2>1, <2>2
  <1>22. ASSUME NEW q \in Shard PROVE ReceiveOK(q, recv[q], primary(q))'
    <2>1. ReceiveOK(q, recv[q], primary(q)) /\ recv[q].m # m /\ recv[q] \in Receive
      BY <1>9, Parts DEF ControlInv, RecvType
    <2>2. recv[q].m # 0 => recv[q].m \in Migrations
      BY <2>1 DEF Receive, Migrations
    <2>3. CASE q = s
      BY <1>3, <1>4, <2>3 DEF ReceiveOK, NoReceive
    <2>4. CASE q # s
      <3>1. States(q)' = States(q) /\ primary(q)' = primary(q)
        BY <1>8, <2>4 DEF Writes
      <3> QED BY <1>2, <1>4, <2>1, <2>2, <3>1 DEF ReceiveOK
    <2> QED BY <2>3, <2>4
  <1>23. \A q \in Shard, x \in Migrations :
             del'[q][x].step = "replicate" => primary(q)'.task[x] = "ready"
    <2>1. \A q \in Shard, x \in Migrations :
              del[q][x].step = "replicate" => primary(q).task[x] = "ready"
      BY DEF ControlInv
    <2>2. \A q \in Shard : primary(q)'.task = primary(q).task
      BY <1>7, <1>8 DEF Writes
    <2> QED BY <1>4, <2>1, <2>2
  <1>24. ASSUME NEW x \in Migrations PROVE LiveOK(x)'
    BY <1>2, <1>16, <1>17 DEF LiveOK, Live, MigrationInv
  <1>25. ASSUME NEW x \in Migrations, Begun(x)'
         PROVE  MessageOK(x)' /\ DocumentOK(x)' /\ \A u \in 0 .. MaxTerm : ThreadOK(x, u)'
    BY <1>2, <1>13, <1>14, <1>15, <1>17, <1>25 DEF MigrationInv
  <1> QED BY <1>1, <1>11, <1>18, <1>21, <1>22, <1>23, <1>24, <1>25 DEF ControlInv

-----------------------------------------------------------------------------
(* A shard fails over. *)

LEMMA FailoverThreads ==
    ASSUME ControlInv, NEW s \in Shard, NEW k \in DOMAIN log[s], Failover(s, k)
    PROVE  /\ term[s] \in Nat /\ term[s] + 1 \in 0 .. MaxTerm
           /\ ThrType'
           /\ \A x \in Migrations : \A u \in 0 .. MaxTerm :
                \/ thr'[x][u] = thr[x][u] /\ ~(/\ from(x) = s /\ u = term[s] + 1
                                               /\ log[s][k].coord[x] # "none")
                \/ /\ from(x) = s /\ u = term[s] + 1 /\ log[s][k].coord[x] # "none"
                   /\ thr'[x][u].pc = "recover"
  <1>1. term[s] \in 0 .. MaxTerm /\ term[s] < MaxTerm /\ MaxTerm \in Nat
    BY BoundAssumption DEF Failover, ControlInv, TypeInv
  <1>2. PICK n \in 0 .. MaxTerm : n = term[s] + 1
    BY <1>1
  <1>3. thr \in [Migrations -> [0 .. MaxTerm -> Thread]]
    BY Parts DEF ThrType
  <1>4. thr' = [x \in Migrations |->
                  IF from(x) = s /\ log[s][k].coord[x] # "none"
                  THEN [thr[x] EXCEPT ![n].pc = "recover"] ELSE thr[x]]
    BY <1>2 DEF Failover
  <1>5. \A th \in Thread : [th EXCEPT !.pc = "recover"] \in Thread
                           /\ [th EXCEPT !.pc = "recover"].pc = "recover"
    BY DEF Thread, Pc
  <1>6. ASSUME NEW x \in Migrations
        PROVE  /\ thr'[x] \in [0 .. MaxTerm -> Thread]
               /\ \A u \in 0 .. MaxTerm :
                    \/ thr'[x][u] = thr[x][u] /\ ~(from(x) = s /\ u = n /\ log[s][k].coord[x] # "none")
                    \/ /\ from(x) = s /\ u = n /\ log[s][k].coord[x] # "none"
                       /\ thr'[x][u].pc = "recover"
    <2>1. CASE from(x) = s /\ log[s][k].coord[x] # "none"
      <3>1. thr'[x] = [thr[x] EXCEPT ![n].pc = "recover"]
        BY <1>4, <2>1
      <3>2. thr[x] \in [0 .. MaxTerm -> Thread]
        BY <1>3
      <3>3. thr'[x] = [thr[x] EXCEPT ![n] = [thr[x][n] EXCEPT !.pc = "recover"]]
        BY <3>1
      <3>4. PICK th \in Thread : th = [thr[x][n] EXCEPT !.pc = "recover"] /\ th.pc = "recover"
        BY <1>5, <3>2
      <3>5. thr'[x] = [thr[x] EXCEPT ![n] = th]
        BY <3>3, <3>4
      <3>6. /\ thr'[x] \in [0 .. MaxTerm -> Thread] /\ thr'[x][n] = th
            /\ \A u \in 0 .. MaxTerm : u # n => thr'[x][u] = thr[x][u]
        BY <3>2, <3>5
      <3> QED BY <2>1, <3>4, <3>6
    <2>2. CASE ~(from(x) = s /\ log[s][k].coord[x] # "none")
      <3>1. thr'[x] = thr[x]
        BY <1>4, <2>2
      <3> QED BY <1>3, <2>2, <3>1
    <2> QED BY <2>1, <2>2
  <1>7. ThrType'
    <2>1. thr' = [x \in Migrations |-> thr'[x]]
      BY <1>4
    <2> QED BY <1>6, <2>1 DEF ThrType
  <1> QED BY <1>1, <1>2, <1>6, <1>7

LEMMA FailoverStep ==
    ASSUME ControlInv, NEW s \in Shard, NEW k \in DOMAIN log[s], Failover(s, k)
    PROVE  ControlInv'
  <1>1. PICK st : st = log[s][k]
    OBVIOUS
  <1>2. /\ UNCHANGED <<config, committed, mig, msgs, acked>>
        /\ term' = [term EXCEPT ![s] = @ + 1]
        /\ meta' = [meta EXCEPT ![s] = Unknown]
        /\ recv' = [recv EXCEPT ![s] = NoReceive]
        /\ del' = [del EXCEPT ![s] = resubmitted(st)]
    BY <1>1 DEF Failover
  <1>3. Loses(s) /\ primary(s)' = st /\ st \in States(s) /\ LogType'
    BY <1>1, FailoverLog, Parts DEF Failover
  <1>4. PICK n \in 0 .. MaxTerm : n = term[s] + 1
    BY FailoverThreads
  <1>5. /\ ThrType' /\ term[s] \in Nat
        /\ \A x \in Migrations : \A u \in 0 .. MaxTerm :
             \/ thr'[x][u] = thr[x][u] /\ ~(from(x) = s /\ u = n /\ st.coord[x] # "none")
             \/ from(x) = s /\ u = n /\ st.coord[x] # "none" /\ thr'[x][u].pc = "recover"
    BY <1>1, <1>4, FailoverThreads
  <1>6. Quiet /\ SameMessages /\ MsgType'
    BY <1>2, QuietFacts, NoMessageFacts, Parts
  <1>7. /\ \A q \in Shard : States(q)' \subseteq States(q)
        /\ \A q \in Shard \ {s} : States(q)' = States(q) /\ primary(q)' = primary(q)
    BY <1>3 DEF Loses
  <1>8. /\ term' \in [Shard -> 0 .. MaxTerm] /\ term'[s] = n
        /\ \A q \in Shard \ {s} : term'[q] = term[q]
    BY <1>2, <1>4, Parts DEF TypeInv
  <1>9. /\ RecvType' /\ recv'[s] = NoReceive /\ \A q \in Shard \ {s} : recv'[q] = recv[q]
    <2>1. NoReceive \in Receive
      BY BoundAssumption DEF NoReceive, Receive
    <2> QED BY <1>2, <2>1, Parts DEF RecvType
  <1>10. MetaType'
    <2>1. Unknown \in Metadata
      BY BoundAssumption DEF Unknown, Metadata, Version
    <2> QED BY <1>2, <2>1, Parts DEF MetaType
  <1>11. /\ DelType' /\ \A x \in Migrations : del'[s][x].step # "replicate"
         /\ \A q \in Shard \ {s} : del'[q] = del[q]
    <2>1. /\ NoDeletion \in Deletion /\ submitted(NoDeletion) \in Deletion
          /\ NoDeletion.step # "replicate" /\ submitted(NoDeletion).step # "replicate"
      BY DEF NoDeletion, Deletion, submitted
    <2>2. /\ resubmitted(st) \in [Migrations -> Deletion]
          /\ \A x \in Migrations : resubmitted(st)[x].step # "replicate"
      BY <2>1 DEF resubmitted
    <2> QED BY <1>2, <2>2, Parts DEF DelType
  <1>12. TypeInv'
    BY <1>2, <1>3, <1>5, <1>6, <1>8, <1>9, <1>10, <1>11, Parts DEF TypeInv, Quiet
  <1>13. ASSUME NEW x \in Migrations, Begun(x)
         PROVE  MigrationInv(x)' /\ (Live(x)' => Live(x))
    <2>1. MigrationInv(x) /\ term[from(x)] \in 0 .. MaxTerm
      BY <1>13, Parts
    <2>2. PICK f \in Shard, r \in Shard : f = from(x) /\ r = to(x)
      BY <1>13, Parts
    <2>3. from(x)' = f /\ to(x)' = r /\ (Begun(x)' <=> Begun(x)) /\ mig'[x] = mig[x]
      BY <1>2, <2>2 DEF from, to, Begun
    <2>4. \A u \in 0 .. MaxTerm :
            \/ thr'[x][u] = thr[x][u]
            \/ thr'[x][u].pc = "recover" /\ f = s /\ u = n /\ st.coord[x] # "none"
      BY <1>5, <2>2
    <2>5. \A u \in 0 .. MaxTerm : \A P \in {Before, Before \ {"persistCoordinator"}, Cloning} :
            thr'[x][u].pc \in P => thr[x][u].pc \in P
      BY <2>4 DEF Before, Starting, Cloning
    <2>6. Live(x)' => Live(x)
      BY <1>2, <1>6, <2>3, <2>5 DEF Live, SameMessages
    <2>7. /\ Aborted(x) => Aborted(x)'
          /\ \A d : Correct(x, d) => Correct(x, d)'
      BY <1>2, <2>6 DEF Correct, Aborted
    <2>8. Bound(x) => Bound(x)'
      BY <1>7, <2>2, <2>3 DEF Bound
    <2>9. Closed(x) => Closed(x)'
      BY <1>7, <2>2, <2>3 DEF Closed
    <2>10. /\ recv'[r].m = x => recv[r].m = x
           /\ recv'[r].m = x /\ recv'[r].state = "commitStart" => recv[r].state = "commitStart"
      BY <1>9 DEF NoReceive, Migrations
    <2>11. MessageOK(x)'
      <3>1. MessageOK(x)
        BY <2>1 DEF MigrationInv
      <3> QED BY <1>2, <1>6, <2>2, <2>3, <2>7, <2>8, <2>9, <2>10, <3>1 DEF MessageOK, SameMessages
    <2>12. ASSUME NEW u \in 0 .. MaxTerm PROVE ThreadOK(x, u)'
      <3>1. ThreadOK(x, u) /\ u \in Nat
        BY <2>1 DEF MigrationInv
      <3>2. CASE thr'[x][u] = thr[x][u]
        <4>1. u > term'[f] => u > term[f]
          BY <1>4, <1>5, <1>8, <3>1
        <4>2. thr[x][u].pc \in Before => \A v \in 0 .. MaxTerm : thr'[x][v].pc \in Before => v = u
          BY <2>5, <3>1 DEF ThreadOK
        <4> QED BY <1>2, <1>6, <2>2, <2>3, <2>7, <2>8, <2>9, <2>10, <3>1, <3>2, <4>1, <4>2
                DEF ThreadOK, SameMessages
      <3>3. CASE thr'[x][u].pc = "recover" /\ f = s /\ u = n
        <4>1. ~(u > term'[f])
          BY <1>4, <1>5, <1>8, <3>3
        <4> QED BY <2>3, <3>3, <4>1 DEF ThreadOK, Before, Starting, Cloning, Completing
      <3> QED BY <2>4, <3>2, <3>3
    <2>13. DocumentOK(x)'
      <3>1. CASE f # s
        <4>1. thr'[x][term'[f]] = thr[x][term[f]] /\ primary(f)' = primary(f)
          BY <1>7, <1>8, <2>1, <2>2, <2>4, <3>1
        <4>2. Agree(x, thr[x][term[f]], primary(f).coord[x])
          BY <2>1, <2>2 DEF MigrationInv, DocumentOK
        <4>3. \A th, co : Agree(x, th, co) => Agree(x, th, co)'
          BY <2>7 DEF Agree
        <4> QED BY <2>3, <4>1, <4>2, <4>3 DEF DocumentOK
      <3>2. CASE f = s
        <4>1. primary(f)' = st /\ term'[f] = n
          BY <1>3, <1>8, <3>2
        <4>2. thr[x][n] = NoThread
          <5>1. n > term[f]
            BY <1>4, <1>5, <3>2
          <5> QED BY <2>1, <2>2, <5>1 DEF MigrationInv, ThreadOK
        <4>3. CASE st.coord[x] # "none"
          <5>1. thr'[x][n].pc = "recover"
            BY <1>5, <2>2, <3>2, <4>3
          <5> QED BY <2>3, <4>1, <4>3, <5>1
                  DEF DocumentOK, Agree, Undecided, Before, Starting, Cloning, Completing
        <4>4. CASE st.coord[x] = "none"
          <5>1. thr'[x][n].pc = "idle"
            BY <2>4, <4>2, <4>4 DEF NoThread
          <5> QED BY <2>3, <4>1, <4>4, <5>1
                  DEF DocumentOK, Agree, Undecided, Before, Starting, Cloning, Completing
        <4> QED BY <4>3, <4>4
      <3> QED BY <3>1, <3>2
    <2>14. LiveOK(x)'
      <3>1. SUFFICES ASSUME Live(x)' PROVE LiveOK(x)'
        BY DEF LiveOK
      <3>2. LiveOK(x) /\ Live(x)
        BY <2>1, <2>6, <3>1 DEF MigrationInv
      <3>3. \A u : Reserved(x, u)' <=> Reserved(x, u)
        BY DEF Reserved
      <3>4. (\/ sent("commit", x)'
             \/ \E u \in 0 .. MaxTerm : thr'[x][u].pc \in Before \ {"persistCoordinator"})
            => \A v \in States(f)' : v.coord[x] = "unknown"
        BY <1>6, <1>7, <2>2, <2>5, <3>2 DEF LiveOK, SameMessages
      <3>5. sent("commit", x)' \/ (\E u \in 0 .. MaxTerm : thr'[x][u].pc \in Cloning)
            => \A v \in States(f)' : v.task[x] = "pending"
        BY <1>6, <1>7, <2>2, <2>5, <3>2 DEF LiveOK, SameMessages
      <3>6. \A v \in States(r)' : Reserved(x, v) /\ (sent("received", x) => v.task[x] = "pending")
        BY <1>7, <2>2, <3>2 DEF LiveOK
      <3> QED BY <1>6, <2>3, <3>3, <3>4, <3>5, <3>6 DEF LiveOK, SameMessages
    <2> QED BY <2>6, <2>11, <2>12, <2>13, <2>14 DEF MigrationInv
  <1>14. ASSUME NEW x \in Migrations, ~Begun(x)
         PROVE  /\ \A u \in 0 .. MaxTerm : thr'[x][u] = thr[x][u]
                /\ \A y : sent(y, x)' => sent(y, x)
                /\ \A q \in Shard : recv'[q].m = x => recv[q].m = x
    <2>1. from(x) # s /\ x # 0
      BY <1>14, ShardAssumption DEF Begun, Migrations
    <2>2. NoReceive.m = 0
      BY DEF NoReceive
    <2> QED BY <1>5, <1>6, <1>9, <2>1, <2>2 DEF SameMessages
  <1>15. \A x \in Migrations :
            /\ CoordOK(s, st, x) /\ TaskOK(s, st, x)
            /\ ~Begun(x) => st.coord[x] = "none" /\ st.task[x] = "none"
    BY <1>3 DEF ControlInv, UnknownOK
  <1>16. ASSUME NEW q \in Shard PROVE ReceiveOK(q, recv[q], primary(q))'
    <2>1. CASE q = s
      BY <1>9, <2>1 DEF ReceiveOK, NoReceive
    <2>2. CASE q # s
      <3>1. ReceiveOK(q, recv[q], primary(q)) /\ recv'[q] = recv[q]
        BY <1>9, <2>2 DEF ControlInv
      <3>2. \A x : to(x)' = to(x)
        BY <1>2 DEF to
      <3>3. States(q)' = States(q) /\ primary(q)' = primary(q)
        BY <1>7, <2>2
      <3> QED BY <3>1, <3>2, <3>3 DEF ReceiveOK
    <2> QED BY <2>1, <2>2
  <1>17. ASSUME NEW q \in Shard, NEW x \in Migrations, del'[q][x].step = "replicate"
         PROVE  primary(q)'.task[x] = "ready"
    <2>1. q # s /\ del[q][x].step = "replicate"
      BY <1>11, <1>17
    <2> QED BY <1>7, <2>1 DEF ControlInv
  <1>18. States(s)' \subseteq States(s) \cup {st} /\ \A q \in Shard \ {s} : States(q)' = States(q)
    BY <1>7
  <1> QED BY <1>6, <1>12, <1>13, <1>14, <1>15, <1>16, <1>17, <1>18, Assemble

-----------------------------------------------------------------------------
(* The config server commits a migration. *)

LEMMA CommitFacts ==
    ASSUME ControlInv, NEW m \in Migrations, Begun(m), CommitChunkMigration(m)
    PROVE  /\ Live(m) /\ m \notin committed /\ config.owner = from(m)
           /\ config' = [owner |-> to(m), version |-> config.version + 1]
           /\ committed' = committed \cup {m}
           /\ UNCHANGED <<mig, log, term, meta, recv, del, thr, msgs, acked>>
           /\ config.version \in Nat /\ config.version = mig[m].version
           /\ \A x \in Migrations : Begun(x) => mig[x].version \in Nat /\ mig[x].version <= config.version
           /\ sent("commit", m)
           /\ \A st \in States(from(m)) : st.coord[m] = "unknown"
           /\ \A st \in States(to(m)) : st.task[m] = "pending" /\ Reserved(m, st)
           /\ to(m) \in Shard /\ from(m) \in Shard /\ to(m) # from(m)
  <1>1. ConfigType /\ VersionInv /\ MigrationInv(m)
    BY Parts
  <1>2. /\ config.version \in Nat
        /\ \A x \in Migrations : Begun(x) => mig[x].version \in Nat /\ mig[x].version <= config.version
    BY <1>1 DEF ConfigType, VersionInv, MigrationOK, Version
  <1>3. sent("commit", m) /\ config.owner = from(m) /\ config.version <= mig[m].version
    BY DEF CommitChunkMigration, chunkMatches
  <1>4. config.version = mig[m].version
    BY <1>2, <1>3
  <1>5. Live(m)
    BY <1>3, <1>4 DEF Live
  <1>6. m \notin committed
    BY <1>5, CommittedNotLive
  <1>7. sent("received", m)
    BY <1>1, <1>3 DEF MigrationInv, MessageOK
  <1>8. /\ \A st \in States(from(m)) : st.coord[m] = "unknown"
        /\ \A st \in States(to(m)) : st.task[m] = "pending" /\ Reserved(m, st)
    BY <1>1, <1>3, <1>5, <1>7 DEF MigrationInv, LiveOK
  <1>9. to(m) \in Shard /\ from(m) \in Shard /\ to(m) # from(m)
    BY Parts
  <1> QED BY <1>2, <1>3, <1>4, <1>5, <1>6, <1>8, <1>9 DEF CommitChunkMigration

LEMMA CommitChunkMigrationStep ==
    ASSUME ControlInv, NEW m \in Migrations, Begun(m), CommitChunkMigration(m)
    PROVE  ControlInv'
  <1>1. /\ Live(m) /\ m \notin committed /\ config.owner = from(m)
        /\ config' = [owner |-> to(m), version |-> config.version + 1]
        /\ committed' = committed \cup {m}
        /\ UNCHANGED <<mig, log, term, meta, recv, del, thr, msgs, acked>>
        /\ config.version \in Nat /\ config.version = mig[m].version
        /\ \A x \in Migrations : Begun(x) => mig[x].version \in Nat /\ mig[x].version <= config.version
        /\ sent("commit", m)
        /\ \A st \in States(from(m)) : st.coord[m] = "unknown"
        /\ \A st \in States(to(m)) : st.task[m] = "pending" /\ Reserved(m, st)
        /\ to(m) \in Shard /\ from(m) \in Shard /\ to(m) # from(m)
    BY CommitFacts
  <1>2. PICK f \in Shard, r \in Shard : f = from(m) /\ r = to(m) /\ f # r
    BY <1>1
  <1>3. config'.owner = r /\ config'.version = config.version + 1
    BY <1>1, <1>2
  <1>4. \A x : from(x)' = from(x) /\ to(x)' = to(x) /\ (Begun(x)' <=> Begun(x))
    BY <1>1 DEF from, to, Begun
  <1>5. \A q \in Shard : States(q)' = States(q) /\ primary(q)' = primary(q)
    BY <1>1, SameLog
  <1>6. SameMessages /\ MsgType'
    BY <1>1, NoMessageFacts, Parts
  <1>7. \A x \in Migrations : ~Live(x)' /\ (Begun(x) => mig[x].version < config'.version)
    <2>1. \A x \in Migrations : Begun(x) => mig[x].version < config'.version /\ mig[x].version # config'.version
      BY <1>1, <1>3
    <2> QED BY <1>1, <1>4, <2>1 DEF Live
  <1>8. \A x \in Migrations : Aborted(x) => Aborted(x)'
    BY <1>1, <1>7 DEF Aborted
  <1>9. \A x \in Migrations : \A d : Correct(x, d) => Correct(x, d)'
    BY <1>1, <1>8 DEF Correct
  <1>10. ConfigType' /\ VersionInv'
    <2>1. mig[m].version <= m /\ m \in Nat /\ m <= MaxMigrations /\ MaxMigrations \in Nat
      BY Parts, BoundAssumption DEF VersionInv, MigrationOK, Migrations
    <2>2. config'.version \in Version
      BY <1>1, <1>3, <2>1 DEF Version
    <2>3. ConfigType'
      BY <1>1, <1>2, <2>2, Parts DEF ConfigType
    <2>4. ASSUME NEW x \in Migrations PROVE MigrationOK(x)'
      <3>1. MigrationOK(x)
        BY DEF ControlInv, VersionInv
      <3>2. Begun(x) => mig[x].version \in 1 .. config'.version /\ mig[x].version # config'.version
        BY <1>1, <1>3, <3>1 DEF MigrationOK
      <3> QED BY <1>1, <1>4, <3>1, <3>2 DEF MigrationOK
    <2>5. config'.version >= 1 /\ config'.version = mig'[m].version + 1
      BY <1>1, <1>3
    <2> QED BY <1>4, <2>3, <2>4, <2>5 DEF VersionInv
  <1>11. TypeInv'
    BY <1>1, <1>6, <1>10, Parts DEF TypeInv, LogType, MetaType, RecvType, DelType, ThrType
  <1>12. ASSUME NEW x \in Migrations PROVE UnknownOK(x)'
    <2>1. UnknownOK(x)
      BY DEF ControlInv
    <2>2. ~Begun(x) => x # m
      OBVIOUS
    <2> QED BY <1>1, <1>4, <1>5, <1>6, <2>1, <2>2 DEF UnknownOK, SameMessages
  <1>13. ASSUME NEW x \in Migrations, Begun(x)
         PROVE  MessageOK(x)' /\ DocumentOK(x)' /\ \A u \in 0 .. MaxTerm : ThreadOK(x, u)'
    <2>1. MigrationInv(x)
      BY <1>13, Parts
    <2>2. PICK p \in Shard, q \in Shard : p = from(x) /\ q = to(x)
      BY <1>13, Parts
    <2>3. (Closed(x)' <=> Closed(x)) /\ (Bound(x)' <=> Bound(x))
      BY <1>4, <1>5, <2>2 DEF Closed, Bound
    <2>4. MessageOK(x)'
      BY <1>1, <1>3, <1>4, <1>6, <1>7, <1>8, <1>13, <2>1, <2>3 DEF MigrationInv, MessageOK, SameMessages
    <2>5. ASSUME NEW u \in 0 .. MaxTerm PROVE ThreadOK(x, u)'
      <3>1. ThreadOK(x, u)
        BY <2>1 DEF MigrationInv
      <3> QED BY <1>1, <1>4, <1>6, <1>7, <1>9, <1>13, <2>3, <3>1 DEF ThreadOK, SameMessages
    <2>6. DocumentOK(x)'
      <3>1. \A th, co : Agree(x, th, co) => Agree(x, th, co)'
        BY <1>9 DEF Agree
      <3>2. Agree(x, thr[x][term[p]], primary(p).coord[x])
        BY <2>1, <2>2 DEF MigrationInv, DocumentOK
      <3> QED BY <1>1, <1>4, <1>5, <2>2, <3>1, <3>2 DEF DocumentOK
    <2> QED BY <2>4, <2>5, <2>6
  <1>14. ASSUME NEW q \in Shard, NEW u \in States(q), NEW x \in Migrations
         PROVE  CoordOK(q, u, x)' /\ TaskOK(q, u, x)'
    <2>1. CoordOK(q, u, x) /\ TaskOK(q, u, x) /\ CoordOK(q, u, m)
      BY DEF ControlInv
    <2>2. CoordOK(q, u, x)'
      <3>1. SUFFICES ASSUME u.coord[x] # "none" PROVE CoordOK(q, u, x)'
        BY DEF CoordOK
      <3>2. /\ from(x) = q /\ \A k \in Migrations : u.coord[k] # "none" => k = x
            /\ u.coord[x] # "unknown" => Correct(x, u.coord[x])
            /\ x \in committed <=> config.owner # q
        BY <2>1, <3>1 DEF CoordOK
      <3>3. q # r
        BY <1>1, <1>2, <3>1 DEF Reserved
      <3>4. q = f => x = m
        BY <1>1, <1>2, <3>2
      <3>5. x \in committed' <=> config'.owner # q
        BY <1>1, <1>2, <1>3, <3>2, <3>3, <3>4
      <3> QED BY <1>4, <1>9, <3>2, <3>5 DEF CoordOK
    <2>3. TaskOK(q, u, x)'
      <3>1. q = r /\ u.task[x] # "none" => x = m /\ u.task[x] = "pending"
        BY <1>1, <1>2 DEF Reserved
      <3> QED BY <1>1, <1>2, <1>3, <1>4, <1>8, <2>1, <3>1 DEF TaskOK
    <2> QED BY <2>2, <2>3
  <1>15. \A x \in Migrations : LiveOK(x)'
    BY <1>7 DEF LiveOK
  <1>16. ASSUME NEW q \in Shard PROVE ReceiveOK(q, recv[q], primary(q))'
    <2>1. ReceiveOK(q, recv[q], primary(q))
      BY DEF ControlInv
    <2> QED BY <1>1, <1>4, <1>5, <2>1 DEF ReceiveOK
  <1>17. \A q \in Shard, x \in Migrations :
             del'[q][x].step = "replicate" => primary(q)'.task[x] = "ready"
    BY <1>1, <1>5 DEF ControlInv
  <1> QED BY <1>4, <1>5, <1>10, <1>11, <1>12, <1>13, <1>14, <1>15, <1>16, <1>17 DEF ControlInv

-----------------------------------------------------------------------------
(* The invariant holds throughout. *)

LEMMA DonorControl ==
    ASSUME ControlInv, NEW m \in Migrations, NEW t \in 0 .. MaxTerm,
           donorStep(m, t) \/ donorFails(m, t)
    PROVE  ControlInv'
  BY PersistDonorTaskStep, StartCloneStep, EnterCriticalSectionStep, CommitChunkOnRecipientStep,
     CommitChunkMetadataOnConfigStep, CommitAnsweredStep, EnsureChunkVersionStep,
     RefreshAndDecideStep, PersistDecisionStep, AdvanceTransactionOnRecipientStep,
     DeleteTaskOnRecipientStep, MarkAsReadyLocallyStep, SubmitLocallyStep, DeleteTaskLocallyStep,
     MarkAsReadyOnRecipientStep, AbortDeliveredStep, ForgetMigrationStep, ResumeMigrationStep,
     CommitFailedStep, CleanupOnErrorStep
  DEF donorStep, donorFails

LEMMA UnchangedControl ==
    ASSUME ControlInv, UNCHANGED vars
    PROVE  ControlInv'
  <1>1. UNCHANGED <<config, committed, mig, log, term, meta, recv, del, thr, msgs, acked>>
    BY DEF vars
  <1>2. MetaType' /\ DelType'
    BY <1>1, Parts DEF MetaType, DelType
  <1> QED BY <1>1, <1>2, MemoryStep

LEMMA NextControl == ControlInv /\ [Next]_vars => ControlInv'
  <1> SUFFICES ASSUME ControlInv, [Next]_vars PROVE ControlInv'
    OBVIOUS
  <1>1. CASE UNCHANGED vars
    BY <1>1, UnchangedControl
  <1>2. CASE \E m \in Migrations, s, r \in Shard : StartMigration(m, s, r)
    BY <1>2, StartMigrationStep
  <1>3. CASE \E m \in Migrations, t \in 0 .. MaxTerm : donorStep(m, t) \/ donorFails(m, t)
    BY <1>3, DonorControl
  <1>4. CASE \E m \in Migrations : from(m) # None /\ (RecvChunkStart(m) \/ StartCommit(m))
    BY <1>4, RecvChunkStartStep, StartCommitStep DEF Begun
  <1>5. CASE \E m \in Migrations : from(m) # None /\ (handleRequest(m) \/ CommitChunkMigration(m))
    BY <1>5, AdvanceTransactionStep, DeleteTaskStep, ReadyTaskStep, CommitChunkMigrationStep
       DEF Begun, handleRequest
  <1>6. CASE \E s \in Shard : receive(s) \/ ReceiveFails(s)
    BY <1>6, PersistRecipientTaskStep, FetchBatchStep, InsertBatchStep, SteadyStep,
       TransferNothingStep, ExamineStateStep, ReceiveFailsStep DEF receive
  <1>7. CASE \E s \in Shard, m \in Migrations : rangeDeleter(s, m)
    BY <1>7, CleanUpRangeStep, DeletionEndsStep, RemoveTaskStep, DeleteNextBatchStep
       DEF rangeDeleter
  <1>8. CASE \E s \in Shard : Refresh(s) \/ Replicate(s)
    BY <1>8, RefreshStep, ReplicateStep
  <1>9. CASE \E s \in Shard, d \in Doc : ClientInsert(s, d)
    BY <1>9, ClientInsertStep
  <1>10. CASE \E s \in Shard : \E k \in DOMAIN log[s] : Failover(s, k)
    BY <1>10, FailoverStep
  <1> QED BY <1>1, <1>2, <1>3, <1>4, <1>5, <1>6, <1>7, <1>8, <1>9, <1>10 DEF Next
-----------------------------------------------------------------------------
(* What follows, whoever serves writes before it has recovered. *)

LEMMA ControlCorrect == Spec => []ControlInv
  BY InitControl, NextControl, PTL DEF Spec

(* Every variable of the shards and the config server keeps its type, and   *)
(* the chunk's version its bound: a migration raises it once at most.       *)
THEOREM TypeCorrect == Spec => []TypeOK
  <1>1. ControlInv => TypeOK
    <2> SUFFICES ASSUME ControlInv PROVE TypeOK
      OBVIOUS
    <2>1. TypeInv
      BY DEF ControlInv
    <2>2. \A s \in Shard : /\ Len(log[s]) \in 1 .. MaxUncommitted + 1
                           /\ \A i \in DOMAIN log[s] : log[s][i] \in State
      BY <2>1 DEF TypeInv, LogType
    <2>3. \A m \in Migrations, t \in 0 .. MaxTerm :
              /\ thr[m][t].decision \in {"none", "committed", "aborted"}
              /\ thr[m][t].critSec \in BOOLEAN
      BY <2>1 DEF TypeInv, ThrType, Thread
    <2>4. /\ ConfigType /\ MetaType /\ RecvType /\ DelType
          /\ term \in [Shard -> 0 .. MaxTerm] /\ acked \subseteq Doc
      BY <2>1 DEF TypeInv
    <2> QED BY <2>2, <2>3, <2>4
            DEF TypeOK, ConfigType, MetaType, RecvType, DelType, Receive, Deletion
  <1> QED BY <1>1, ControlCorrect, PTL

(* Whatever state of a shard survives, a decision that a coordinator        *)
(* document records is what the config server did with the migration        *)
(* (persistDecision and the recovery of the outcome).                       *)
THEOREM DecisionsAgree == Spec => []DecisionAgrees
  <1>1. ControlInv => DecisionAgrees
    <2> SUFFICES ASSUME ControlInv, NEW s \in Shard, NEW m \in Migrations,
                        NEW i \in DOMAIN log[s]
                 PROVE  /\ log[s][i].coord[m] = "committed" => m \in committed
                        /\ log[s][i].coord[m] = "aborted" => m \notin committed
      BY DEF DecisionAgrees
    <2>1. log[s][i] \in States(s)
      BY DEF States
    <2>2. CoordOK(s, log[s][i], m)
      BY <2>1 DEF ControlInv
    <2> QED BY <2>2 DEF CoordOK, Correct, Aborted
  <1> QED BY <1>1, ControlCorrect, PTL

(* No state of the owner holds a range deletion task that may run, so that  *)
(* no range deleter takes its documents for orphans.                        *)
THEOREM RangeKept == Spec => []OwnerKeepsRange
  <1>1. ControlInv => OwnerKeepsRange
    <2> SUFFICES ASSUME ControlInv, NEW i \in DOMAIN log[config.owner], NEW m \in Migrations,
                        log[config.owner][i].task[m] = "ready"
                 PROVE  FALSE
      BY DEF OwnerKeepsRange
    <2>1. config.owner \in Shard
      BY DEF ControlInv, TypeInv, ConfigType
    <2>2. log[config.owner][i] \in States(config.owner)
      BY DEF States
    <2>3. TaskOK(config.owner, log[config.owner][i], m)
      BY <2>1, <2>2 DEF ControlInv
    <2> QED BY <2>3 DEF TaskOK, Aborted
  <1> QED BY <1>1, ControlCorrect, PTL

-----------------------------------------------------------------------------
(* The documents, where no primary serves writes before it has recovered.  *)

(* A migration of which the recipient has everything, or soon will, and    *)
(* that may still commit, keeps the donor from taking writes.              *)
LEMMA LiveBlocks ==
    ASSUME ControlInv, NEW m \in Migrations, Live(m),
           \/ sent("received", m) \/ sent("commit", m)
           \/ recv[to(m)].m = m /\ recv[to(m)].state = "commitStart"
    PROVE  config.owner = from(m) /\ Blocked(from(m))
  <1>1. /\ Begun(m) /\ MigrationInv(m) /\ from(m) \in Shard /\ term[from(m)] \in 0 .. MaxTerm
        /\ config.version = mig[m].version /\ primary(from(m)) \in States(from(m))
        /\ thr[m][term[from(m)]] \in Thread
    BY Parts DEF Live, ThrType
  <1>2. PICK f \in Shard, t \in 0 .. MaxTerm : f = from(m) /\ t = term[f]
    BY <1>1
  <1>3. /\ MessageOK(m) /\ LiveOK(m) /\ Agree(m, thr[m][t], primary(f).coord[m])
        /\ \A u \in 0 .. MaxTerm : ThreadOK(m, u)
    BY <1>1, <1>2 DEF MigrationInv, DocumentOK
  <1>4. \A u \in 0 .. MaxTerm : thr[m][u].pc \notin Starting \cup {"cloning"}
    BY <1>3 DEF ThreadOK, Before, Cloning
  <1>5. sent("commit", m) \/ \E u \in 0 .. MaxTerm : thr[m][u].pc \in Before \ {"persistCoordinator"}
    BY <1>4 DEF Live, Starting
  <1>6. primary(f).coord[m] = "unknown"
    BY <1>1, <1>2, <1>3, <1>5 DEF LiveOK
  <1>7. \A e : Correct(m, e) => FALSE
    <2>1. config.version \in Int
      BY Parts DEF ConfigType, Version
    <2>2. m \notin committed
      BY <1>1, <1>3, <2>1 DEF MessageOK
    <2> QED BY <2>2 DEF Correct, Aborted
  <1>8. thr[m][t].pc \notin Completing /\ thr[m][t].pc # "decide"
    <2>1. ThreadOK(m, t)
      BY <1>3
    <2> QED BY <1>3, <1>7, <2>1 DEF ThreadOK, Agree
  <1>9. thr[m][t].pc \notin {"idle", "done"}
    BY <1>3, <1>6 DEF Agree
  <1>10. thr[m][t].pc \in Pc
    BY <1>1, <1>2 DEF Thread
  <1>11. thr[m][t].pc \in Blocking \/ thr[m][t].pc = "recover"
    BY <1>4, <1>8, <1>9, <1>10 DEF Pc, Undecided, Before, Starting, Cloning, Blocking
  <1>12. config.owner = f
    BY <1>1, <1>2 DEF ControlInv, VersionInv, MigrationOK
  <1> QED BY <1>2, <1>6, <1>11, <1>12 DEF Blocked, Blocks

(* A step after which no more migrations may commit than before it. *)
Fewer ==
    /\ config'.owner = config.owner
    /\ UNCHANGED <<committed, mig>>
    /\ \A x \in Migrations : Live(x)' => Live(x)

LEMMA LiveBack ==
    ASSUME ControlInv, Quiet,
           \A x \in Migrations, u \in 0 .. MaxTerm :
               thr'[x][u].pc \in Before => thr[x][u].pc \in Before,
           \A x \in Migrations : sent("commit", x)' =>
               sent("commit", x) \/ \E u \in 0 .. MaxTerm : thr[x][u].pc \in Before
    PROVE  Fewer
  <1>1. ASSUME NEW x \in Migrations, Live(x)' PROVE Live(x)
    <2>1. Begun(x) /\ config'.version = mig[x].version
      BY <1>1 DEF Quiet, Live, Begun, from
    <2>2. sent("commit", x)' \/ \E u \in 0 .. MaxTerm : thr'[x][u].pc \in Before
      BY <1>1 DEF Live
    <2> QED BY <2>1, <2>2 DEF Live, Quiet
  <1> QED BY <1>1 DEF Fewer, Quiet

(* A shard whose documents no one needs. *)
Unneeded(s) ==
    /\ s # config.owner
    /\ \A x \in Migrations : Live(x) /\ to(x) = s => ~sent("received", x)

LEMMA DocsKept ==
    ASSUME ControlInv, DocsInv, Fewer, UNCHANGED acked, NEW s \in Shard, NEW st, Moves(s, st),
           (HasAcked(s) => acked \subseteq st.docs) \/ Unneeded(s),
           \A x \in Migrations : Live(x) /\ sent("received", x)' =>
               sent("received", x) \/ (HasAcked(to(x)) /\ st = primary(s)),
           \A r \in Shard, x \in Migrations :
               Live(x) /\ to(x) = r /\ recv'[r].m = x /\ recv'[r].after /\ recv'[r].empty
               => acked \subseteq primary(r)'.docs
    PROVE  DocsInv'
  <1>1. \A x : from(x)' = from(x) /\ to(x)' = to(x)
    BY DEF Fewer, from, to
  <1>2. \A r \in Shard : primary(r) \in States(r)
    BY Parts
  <1>3. ASSUME NEW r \in Shard, HasAcked(r), r = s => st = primary(s) \/ ~Unneeded(s)
        PROVE  HasAcked(r)'
    <2>1. \A u \in States(r)' : u \in States(r) \/ (r = s /\ u = st)
      BY DEF Moves
    <2>2. r = s => acked \subseteq st.docs
      BY <1>2, <1>3 DEF HasAcked
    <2> QED BY <1>3, <2>1, <2>2 DEF HasAcked
  <1>4. HasAcked(config.owner)'
    <2>1. PICK o \in Shard : o = config.owner /\ o = config'.owner
      BY Parts DEF Fewer, ConfigType
    <2>2. HasAcked(o)
      BY <2>1 DEF DocsInv
    <2>3. HasAcked(o)'
      BY <1>3, <2>1, <2>2 DEF Unneeded
    <2> QED BY <2>1, <2>3
  <1>5. ASSUME NEW x \in Migrations, Live(x)'
        PROVE  /\ sent("received", x)' => HasAcked(to(x))'
               /\ recv'[to(x)'].m = x /\ recv'[to(x)'].after /\ recv'[to(x)'].empty
                  => acked' \subseteq primary(to(x))'.docs
    <2>1. Live(x) /\ Begun(x)
      BY <1>5 DEF Fewer, Live
    <2>2. PICK r \in Shard : r = to(x) /\ r = to(x)'
      BY <1>1, <2>1, Parts
    <2>3. ASSUME sent("received", x)' PROVE HasAcked(r)'
      <3>1. CASE sent("received", x)
        BY <1>3, <2>1, <2>2, <3>1 DEF DocsInv, Unneeded
      <3>2. CASE HasAcked(to(x)) /\ st = primary(s)
        BY <1>3, <2>2, <3>2
      <3> QED BY <2>1, <2>3, <3>1, <3>2
    <2>4. recv'[r].m = x /\ recv'[r].after /\ recv'[r].empty => acked \subseteq primary(r)'.docs
      BY <2>1, <2>2
    <2> QED BY <2>2, <2>3, <2>4
  <1> QED BY <1>4, <1>5 DEF DocsInv

(* An orphan of s is accounted for in st. *)
Accounted(s, st) == \E x \in Migrations : st.task[x] # "none" /\ ~(x \in committed /\ to(x) = s)

LEMMA OrphansKept ==
    ASSUME OrphanInv, UNCHANGED <<committed, mig>>, config'.owner = config.owner,
           NEW s \in Shard, NEW st, Moves(s, st),
           s = config.owner \/ st \in States(s) \/ st.docs = {} \/ Accounted(s, st),
           \A r \in Shard, x \in Migrations :
               del'[r][x].step = "replicate" => primary(r)'.docs = {}
    PROVE  OrphanInv'
  <1>1. \A x : to(x)' = to(x)
    BY DEF to
  <1>2. ASSUME NEW r \in Shard \ {config.owner}, NEW v \in States(r)', v.docs # {}
        PROVE  \E x \in Migrations : v.task[x] # "none" /\ ~(x \in committed /\ to(x) = r)
    <2>1. v \in States(r) \/ (r = s /\ v = st)
      BY DEF Moves
    <2>2. CASE v \in States(r)
      BY <1>2, <2>2 DEF OrphanInv
    <2>3. CASE r = s /\ v = st
      <3>1. CASE Accounted(s, st)
        BY <2>3, <3>1 DEF Accounted
      <3> QED BY <1>2, <2>2, <2>3, <3>1
    <2> QED BY <2>1, <2>2, <2>3
  <1> QED BY <1>1, <1>2 DEF OrphanInv

LEMMA MetaKept ==
    ASSUME MetaInv, config'.owner = config.owner,
           \A r \in Shard : meta'[r].owner = r => meta[r].owner = r \/ config.owner = r,
           \A r \in Shard : Blocked(r) /\ meta'[r].owner = r => Blocked(r)' \/ config.owner = r
    PROVE  MetaInv'
  BY DEF MetaInv

(* A step that only writes, on one shard, or receives. *)
LEMMA BlockedKept ==
    ASSUME UNCHANGED <<mig, term, thr>>,
           \A r \in Shard : primary(r)'.coord = primary(r).coord
    PROVE  \A r \in Shard : Blocked(r) => Blocked(r)'
  <1>1. ASSUME NEW r \in Shard, NEW x \in Migrations, Blocks(x, r) PROVE Blocks(x, r)'
    BY <1>1 DEF Blocks, from
  <1> QED BY <1>1 DEF Blocked

(* A step that changes what one shard stores and what its migrate thread has. *)
LEMMA ShardWriteData ==
    ASSUME ControlInv, DataInv, UNCHANGED <<config, committed, mig, term, thr, msgs, meta, acked>>,
           NEW s \in Shard, NEW st, Moves(s, st), st.coord = primary(s).coord,
           primary(s).docs \subseteq st.docs \/ Unneeded(s),
           \A r \in Shard \ {s} : recv'[r] = recv[r],
           recv'[s].m # 0 /\ recv'[s].after /\ recv'[s].empty =>
               /\ recv'[s].m = recv[s].m /\ recv[s].after /\ recv[s].empty
               /\ primary(s).docs \subseteq st.docs,
           s = config.owner \/ st.docs = {} \/ st \in States(s) \/ Accounted(s, st),
           \A x \in Migrations : del'[s][x].step = "replicate" => st.docs = {},
           \A r \in Shard \ {s}, x \in Migrations :
               del'[r][x].step = "replicate" => del[r][x].step = "replicate"
    PROVE  DataInv'
  <1>1. MetaInv /\ DocsInv /\ OrphanInv
    BY DEF DataInv
  <1>2. SameMessages
    BY NoMessageFacts, Parts
  <1>3. Fewer
    <2>1. Quiet
      BY QuietFacts
    <2> QED BY <1>2, <2>1, LiveBack DEF SameMessages
  <1>4. primary(s) \in States(s) /\ \A r \in Shard : recv[r] \in Receive
    BY Parts DEF RecvType
  <1>5. DocsInv'
    <2>1. (HasAcked(s) => acked \subseteq st.docs) \/ Unneeded(s)
      BY <1>4 DEF HasAcked
    <2>2. \A x \in Migrations : Live(x) /\ sent("received", x)' =>
              sent("received", x) \/ (HasAcked(to(x)) /\ st = primary(s))
      BY <1>2 DEF SameMessages
    <2>3. ASSUME NEW r \in Shard, NEW x \in Migrations,
                 Live(x), to(x) = r, recv'[r].m = x, recv'[r].after, recv'[r].empty
          PROVE  acked \subseteq primary(r)'.docs
      <3>1. x # 0
        BY DEF Migrations
      <3>2. CASE r = s
        <4>1. recv[s].m = x /\ recv[s].after /\ recv[s].empty /\ primary(s).docs \subseteq st.docs
          BY <2>3, <3>1, <3>2
        <4>2. acked \subseteq primary(s).docs
          BY <1>1, <2>3, <3>2, <4>1 DEF DocsInv
        <4> QED BY <3>2, <4>1, <4>2 DEF Moves
      <3>3. CASE r # s
        <4>1. recv'[r] = recv[r] /\ primary(r)' = primary(r)
          BY <3>3 DEF Moves
        <4> QED BY <1>1, <2>3, <4>1 DEF DocsInv
      <3> QED BY <3>2, <3>3
    <2> QED BY <1>1, <1>3, <2>1, <2>2, <2>3, DocsKept
  <1>6. OrphanInv'
    <2>1. \A r \in Shard, x \in Migrations :
              del'[r][x].step = "replicate" => primary(r)'.docs = {}
      BY <1>1 DEF OrphanInv, Moves
    <2> QED BY <1>1, <2>1, OrphansKept
  <1>7. MetaInv'
    <2>1. \A r \in Shard : primary(r)'.coord = primary(r).coord
      BY DEF Moves
    <2>2. \A r \in Shard : Blocked(r) => Blocked(r)'
      BY <2>1, BlockedKept
    <2> QED BY <1>1, <2>2, MetaKept
  <1> QED BY <1>5, <1>6, <1>7 DEF DataInv

(* The primary of a shard that is not the owner accounts for its orphans. *)
LEMMA PrimaryAccounts ==
    ASSUME ControlInv, DataInv, NEW s \in Shard, s # config.owner, primary(s).docs # {}
    PROVE  Accounted(s, primary(s))
  BY Parts DEF DataInv, OrphanInv, Accounted

LEMMA ReplicateData ==
    ASSUME ControlInv, DataInv, NEW s \in Shard, Replicate(s)
    PROVE  DataInv'
  <1>1. Loses(s) /\ primary(s)' = primary(s)
    BY Parts, ReplicateLog DEF Replicate
  <1>2. PICK st : st = primary(s)
    OBVIOUS
  <1>3. Moves(s, st) /\ st \in States(s)
    BY <1>1, <1>2, Parts DEF Moves, Loses
  <1>4. \A x \in Migrations : del[s][x].step = "replicate" => st.docs = {}
    BY <1>2 DEF DataInv, OrphanInv
  <1> QED BY <1>2, <1>3, <1>4, ShardWriteData DEF Replicate

(* The migrate thread inserts only while its task accounts for what it inserts. *)
LEMMA InsertBatchData ==
    ASSUME ControlInv, DataInv, NEW s \in Shard, InsertBatch(s)
    PROVE  DataInv'
  <1>1. /\ primary(s) \in State /\ recv[s].batch \subseteq Doc /\ recv \in [Shard -> Receive]
        /\ primary(s) \in States(s)
    BY Parts DEF RecvType, Receive
  <1>2. PICK d \in SUBSET Doc : d = primary(s).docs \cup recv[s].batch
    BY <1>1 DEF State
  <1>3. PICK st \in State : /\ st = [primary(s) EXCEPT !.docs = d]
                            /\ st.coord = primary(s).coord /\ st.task = primary(s).task
                            /\ st.txn = primary(s).txn /\ st.docs = d
    BY <1>1, SetDocs
  <1>4. Moves(s, st)
    BY <1>2, <1>3, WritesMoves DEF InsertBatch
  <1>5. PICK m \in Migrations : m = recv[s].m
    BY <1>1 DEF InsertBatch, ControlInv, ReceiveOK, NoReceive, Receive, Migrations
  <1>6. /\ to(m) = s /\ primary(s).task[m] = "pending"
        /\ \A k \in Migrations : k # m => primary(s).task[k] = "none"
    <2>1. ReceiveOK(s, recv[s], primary(s)) /\ m # 0
      BY DEF ControlInv, Migrations
    <2> QED BY <1>5, <2>1 DEF ReceiveOK, InsertBatch
  <1>7. m \notin committed
    <2>1. Begun(m)
      BY <1>6, <1>1 DEF ControlInv, UnknownOK
    <2> QED BY <1>5, <1>6, <2>1, Parts DEF MigrationInv, MessageOK
  <1>8. Accounted(s, st)
    BY <1>3, <1>6, <1>7 DEF Accounted
  <1>9. \A x \in Migrations : del[s][x].step # "replicate"
    BY <1>6 DEF ControlInv
  <1>10. /\ \A r \in Shard \ {s} : recv'[r] = recv[r]
         /\ recv'[s].m = recv[s].m
         /\ (recv'[s].empty <=> recv[s].empty) /\ (recv'[s].after <=> recv[s].after)
    BY <1>1 DEF InsertBatch, Receive
  <1>11. primary(s).docs \subseteq st.docs
    BY <1>2, <1>3
  <1>12. UNCHANGED <<config, committed, mig, term, thr, msgs, meta, acked, del>>
    BY DEF InsertBatch
  <1> QED BY <1>3, <1>4, <1>8, <1>9, <1>10, <1>11, <1>12, ShardWriteData

(* A range is deleted only where no one needs it. *)
LEMMA DeleteNextBatchData ==
    ASSUME ControlInv, DataInv, NEW s \in Shard, NEW m \in Migrations, NEW e \in Doc,
           DeleteNextBatch(s, m, e)
    PROVE  DataInv'
  <1>1. primary(s) \in State /\ primary(s) \in States(s)
    BY Parts
  <1>2. PICK d \in SUBSET Doc : d = primary(s).docs \ {e}
    BY <1>1 DEF State
  <1>3. PICK st \in State : /\ st = [primary(s) EXCEPT !.docs = d]
                            /\ st.coord = primary(s).coord /\ st.task = primary(s).task
                            /\ st.txn = primary(s).txn /\ st.docs = d
    BY <1>1, SetDocs
  <1>4. Moves(s, st)
    BY <1>2, <1>3, WritesMoves DEF DeleteNextBatch
  <1>5. primary(s).task[m] = "ready"
    BY DEF DeleteNextBatch, taskStillExists
  <1>6. s # config.owner
    <2>1. TaskOK(s, primary(s), m)
      BY <1>1 DEF ControlInv
    <2> QED BY <1>5, <2>1 DEF TaskOK, Aborted
  <1>7. ASSUME NEW x \in Migrations, Live(x), to(x) = s, sent("received", x) PROVE FALSE
    <2>1. LiveOK(x)
      BY DEF ControlInv
    <2>2. primary(s).task[x] = "pending" /\ Reserved(x, primary(s))
      BY <1>1, <1>7, <2>1 DEF LiveOK
    <2> QED BY <1>5, <2>2 DEF Reserved
  <1>8. Unneeded(s)
    BY <1>6, <1>7 DEF Unneeded
  <1>9. ~(recv[s].m # 0 /\ recv[s].after /\ recv[s].empty)
    <2>1. ReceiveOK(s, recv[s], primary(s))
      BY DEF ControlInv
    <2> QED BY <1>5, <2>1 DEF ReceiveOK
  <1>10. Accounted(s, st)
    <2>1. primary(s).docs # {}
      BY DEF DeleteNextBatch
    <2> QED BY <1>3, <1>6, <2>1, PrimaryAccounts DEF Accounted
  <1>11. \A x \in Migrations : del[s][x].step = "replicate" => st.docs = {}
    BY <1>2, <1>3 DEF DataInv, OrphanInv
  <1>12. UNCHANGED <<config, committed, mig, term, thr, msgs, meta, recv, acked, del>>
    BY DEF DeleteNextBatch
  <1> QED BY <1>3, <1>4, <1>8, <1>9, <1>10, <1>11, <1>12, ShardWriteData

(* A shard writes something else than documents. *)
LEMMA TaskData ==
    ASSUME ControlInv, DataInv, UNCHANGED <<config, committed, mig, term, thr, msgs, meta, acked>>,
           NEW s \in Shard, NEW st \in State, write(s, st),
           st.coord = primary(s).coord, st.docs = primary(s).docs,
           st.docs = {} \/ \A x \in Migrations : primary(s).task[x] # "none" =>
               st.task[x] # "none" \/ (x \in committed /\ to(x) = s),
           \A r \in Shard \ {s} : recv'[r] = recv[r],
           recv'[s] = recv[s] \/ ~recv'[s].empty,
           \A r \in Shard, x \in Migrations :
               del'[r][x].step = "replicate" => del[r][x].step = "replicate"
    PROVE  DataInv'
  <1>1. Moves(s, st)
    BY WritesMoves
  <1>2. s = config.owner \/ st.docs = {} \/ st \in States(s) \/ Accounted(s, st)
    <2>1. SUFFICES ASSUME s # config.owner, st.docs # {} PROVE Accounted(s, st)
      OBVIOUS
    <2>2. Accounted(s, primary(s))
      BY <2>1, PrimaryAccounts
    <2>3. PICK x \in Migrations : primary(s).task[x] # "none" /\ ~(x \in committed /\ to(x) = s)
      BY <2>2 DEF Accounted
    <2> QED BY <2>1, <2>3 DEF Accounted
  <1>3. \A x \in Migrations : del'[s][x].step = "replicate" => st.docs = {}
    BY DEF DataInv, OrphanInv
  <1>4. primary(s).docs \subseteq st.docs \/ Unneeded(s)
    OBVIOUS
  <1>5. recv'[s].m # 0 /\ recv'[s].after /\ recv'[s].empty =>
            /\ recv'[s].m = recv[s].m /\ recv[s].after /\ recv[s].empty
            /\ primary(s).docs \subseteq st.docs
    OBVIOUS
  <1> QED BY <1>1, <1>2, <1>3, <1>4, <1>5, ShardWriteData

LEMMA PersistRecipientTaskData ==
    ASSUME ControlInv, DataInv, NEW s \in Shard, PersistRecipientTask(s)
    PROVE  DataInv'
  <1>1. /\ recv[s] \in Receive /\ recv \in [Shard -> Receive] /\ primary(s) \in State
        /\ ReceiveOK(s, recv[s], primary(s)) /\ recv[s].state = "ready"
    BY Parts DEF RecvType, ControlInv, PersistRecipientTask
  <1>2. PICK m \in Migrations : m = recv[s].m
    <2>1. recv[s].m # 0
      BY <1>1 DEF ReceiveOK, NoReceive
    <2> QED BY <1>1, <2>1 DEF Receive, Migrations
  <1>3. PICK st \in State :
            /\ st = [primary(s) EXCEPT !.task[m] = "pending"]
            /\ st.coord = primary(s).coord /\ st.txn = primary(s).txn /\ st.docs = primary(s).docs
            /\ st.task[m] = "pending"
            /\ \A x \in Migrations : x # m => st.task[x] = primary(s).task[x]
    BY <1>1, SetTask
  <1>4. write(s, st)
    BY <1>2, <1>3 DEF PersistRecipientTask
  <1>5. /\ \A r \in Shard \ {s} : recv'[r] = recv[r]
        /\ recv'[s].empty <=> recv[s].empty
    BY <1>1 DEF PersistRecipientTask, Receive
  <1>6. ~recv'[s].empty
    <2>1. m # 0
      BY DEF Migrations
    <2> QED BY <1>1, <1>2, <1>5, <2>1 DEF ReceiveOK
  <1>7. \A x \in Migrations : primary(s).task[x] # "none" => st.task[x] # "none"
    BY <1>3
  <1>8. UNCHANGED <<config, committed, mig, term, thr, msgs, meta, acked, del>>
    BY DEF PersistRecipientTask
  <1> QED BY <1>3, <1>4, <1>5, <1>6, <1>7, <1>8, TaskData

LEMMA AdvanceTransactionData ==
    ASSUME ControlInv, DataInv, NEW m \in Migrations, Begun(m), AdvanceTransaction(m)
    PROVE  DataInv'
  <1>1. PICK s \in Shard : s = to(m)
    BY Parts
  <1>2. primary(s) \in State
    BY Parts
  <1>3. PICK st \in State : /\ st = [primary(s) EXCEPT !.txn[m] = TRUE]
                            /\ st.coord = primary(s).coord /\ st.task = primary(s).task
                            /\ st.docs = primary(s).docs
                            /\ \A x \in Migrations : primary(s).txn[x] => st.txn[x]
                            /\ \A x \in Migrations : x # m /\ ~primary(s).txn[x] => ~st.txn[x]
    BY <1>2, SetTxn
  <1>4. write(s, st)
    BY <1>1, <1>3 DEF AdvanceTransaction
  <1>5. UNCHANGED <<config, committed, mig, term, thr, msgs, meta, recv, del, acked>>
    BY DEF AdvanceTransaction
  <1> QED BY <1>3, <1>4, <1>5, TaskData

(* The task that goes is of a migration that made the shard the owner. *)
LEMMA DeleteTaskData ==
    ASSUME ControlInv, DataInv, NEW m \in Migrations, Begun(m), DeleteTask(m)
    PROVE  DataInv'
  <1>1. PICK s \in Shard : s = to(m)
    BY Parts
  <1>2. m \in committed
    BY Parts DEF MigrationInv, MessageOK, DeleteTask
  <1>3. PICK st \in State :
            /\ st = [primary(s) EXCEPT !.task[m] = "none"]
            /\ st.coord = primary(s).coord /\ st.txn = primary(s).txn /\ st.docs = primary(s).docs
            /\ st.task[m] = "none"
            /\ \A x \in Migrations : x # m => st.task[x] = primary(s).task[x]
    <2>1. primary(s) \in State
      BY Parts
    <2> QED BY <2>1, SetTask
  <1>4. write(s, st)
    BY <1>1, <1>3 DEF DeleteTask
  <1>5. UNCHANGED <<config, committed, mig, term, thr, msgs, meta, recv, del, acked>>
    BY DEF DeleteTask
  <1>6. \A x \in Migrations : primary(s).task[x] # "none" =>
            st.task[x] # "none" \/ (x \in committed /\ to(x) = s)
    BY <1>1, <1>2, <1>3
  <1> QED BY <1>3, <1>4, <1>5, <1>6, TaskData

LEMMA ReadyTaskData ==
    ASSUME ControlInv, DataInv, NEW m \in Migrations, Begun(m), ReadyTask(m)
    PROVE  DataInv'
  <1>1. PICK s \in Shard : s = to(m)
    BY Parts
  <1>2. PICK st \in State :
            /\ st = [primary(s) EXCEPT !.task[m] = "ready"]
            /\ st.coord = primary(s).coord /\ st.txn = primary(s).txn /\ st.docs = primary(s).docs
            /\ st.task[m] = "ready"
            /\ \A x \in Migrations : x # m => st.task[x] = primary(s).task[x]
    <2>1. primary(s) \in State
      BY Parts
    <2> QED BY <2>1, SetTask
  <1>3. write(s, st)
    BY <1>1, <1>2 DEF ReadyTask
  <1>4. \A r \in Shard, x \in Migrations :
            del'[r][x].step = "replicate" => del[r][x].step = "replicate"
    <2>1. DelType /\ del[s][m] \in Deletion
      BY Parts DEF DelType
    <2>2. PICK e \in Deletion : e = submitted(del[s][m]) /\ del' = [del EXCEPT ![s][m] = e]
      BY <1>1, <2>1, DeletionFacts DEF ReadyTask
    <2>3. e.step = "replicate" => del[s][m].step = "replicate"
      BY <2>1, <2>2 DEF submitted, NoDeletion, Deletion
    <2> QED BY <2>1, <2>2, <2>3 DEF DelType
  <1>5. UNCHANGED <<config, committed, mig, term, thr, msgs, meta, recv, acked>>
    BY DEF ReadyTask
  <1>6. \A x \in Migrations : primary(s).task[x] # "none" => st.task[x] # "none"
    BY <1>2
  <1> QED BY <1>2, <1>3, <1>4, <1>5, <1>6, TaskData

(* A task ends only when there are no documents left. *)
LEMMA RemoveTaskData ==
    ASSUME ControlInv, DataInv, NEW s \in Shard, NEW m \in Migrations, RemoveTask(s, m)
    PROVE  DataInv'
  <1>1. primary(s).docs = {}
    BY DEF RemoveTask, DataInv, OrphanInv
  <1>2. PICK st \in State :
            /\ st = [primary(s) EXCEPT !.task[m] = "none"]
            /\ st.coord = primary(s).coord /\ st.txn = primary(s).txn /\ st.docs = primary(s).docs
            /\ st.task[m] = "none"
            /\ \A x \in Migrations : x # m => st.task[x] = primary(s).task[x]
    <2>1. primary(s) \in State
      BY Parts
    <2> QED BY <2>1, SetTask
  <1>3. write(s, st)
    BY <1>2 DEF RemoveTask
  <1>4. \A r \in Shard, x \in Migrations :
            del'[r][x].step = "replicate" => del[r][x].step = "replicate"
    <2>1. DelType /\ del[s][m] \in Deletion
      BY Parts DEF DelType
    <2>2. PICK e \in Deletion : e = finished(del[s][m]) /\ del' = [del EXCEPT ![s][m] = e]
      BY <2>1, DeletionFacts DEF RemoveTask
    <2> QED BY <2>1, <2>2 DEF DelType, RemoveTask
  <1>5. UNCHANGED <<config, committed, mig, term, thr, msgs, meta, recv, acked>>
    BY DEF RemoveTask
  <1> QED BY <1>1, <1>2, <1>3, <1>4, <1>5, TaskData

(* A step that changes only what is in memory or under way. *)
LEMMA MemoryData ==
    ASSUME ControlInv, DataInv, UNCHANGED <<config, committed, mig, log, term, thr, acked>>,
           \A x \in Migrations : sent("commit", x)' => sent("commit", x),
           \A x \in Migrations : Live(x) /\ sent("received", x)' =>
               sent("received", x) \/ HasAcked(to(x)),
           \A r \in Shard, x \in Migrations :
               Live(x) /\ to(x) = r /\ recv'[r].m = x /\ recv'[r].after /\ recv'[r].empty
               => acked \subseteq primary(r).docs,
           \A r \in Shard : meta'[r].owner = r => meta[r].owner = r \/ config.owner = r,
           \A r \in Shard, x \in Migrations : del'[r][x].step = "replicate" =>
               del[r][x].step = "replicate" \/ primary(r).docs = {}
    PROVE  DataInv'
  <1>1. MetaInv /\ DocsInv /\ OrphanInv
    BY DEF DataInv
  <1>2. PICK s \in Shard : TRUE
    BY ShardAssumption
  <1>3. PICK st : st = primary(s)
    OBVIOUS
  <1>4. \A r \in Shard : States(r)' = States(r) /\ primary(r)' = primary(r)
    BY SameLog
  <1>5. Moves(s, st) /\ st \in States(s)
    BY <1>3, <1>4, Parts DEF Moves
  <1>6. Fewer
    <2>1. Quiet
      BY QuietFacts
    <2> QED BY <2>1, LiveBack
  <1>7. DocsInv'
    <2>1. HasAcked(s) => acked \subseteq st.docs
      BY <1>5 DEF HasAcked
    <2>2. \A r \in Shard, x \in Migrations :
              Live(x) /\ to(x) = r /\ recv'[r].m = x /\ recv'[r].after /\ recv'[r].empty
              => acked \subseteq primary(r)'.docs
      BY <1>4
    <2> QED BY <1>1, <1>3, <1>5, <1>6, <2>1, <2>2, DocsKept
  <1>8. OrphanInv'
    <2>1. \A r \in Shard, x \in Migrations :
              del'[r][x].step = "replicate" => primary(r)'.docs = {}
      BY <1>1, <1>4 DEF OrphanInv
    <2> QED BY <1>1, <1>5, <2>1, OrphansKept
  <1>9. MetaInv'
    <2>1. \A r \in Shard : Blocked(r) => Blocked(r)'
      BY <1>4, BlockedKept
    <2> QED BY <1>1, <2>1, MetaKept
  <1> QED BY <1>7, <1>8, <1>9 DEF DataInv

(* A step of one migrate thread. *)
LEMMA ReceiverData ==
    ASSUME ControlInv, DataInv, UNCHANGED <<config, committed, mig, log, term, thr, acked, del>>,
           \A x \in Migrations : sent("commit", x)' => sent("commit", x),
           \A x \in Migrations : Live(x) /\ sent("received", x)' =>
               sent("received", x) \/ HasAcked(to(x)),
           \A r \in Shard : meta'[r].owner = r => meta[r].owner = r \/ config.owner = r,
           NEW s \in Shard, NEW v, recv' = [recv EXCEPT ![s] = v],
           \A x \in Migrations : Live(x) /\ to(x) = s /\ v.m = x /\ v.after /\ v.empty
               => acked \subseteq primary(s).docs
    PROVE  DataInv'
  <1>1. recv'[s] = v /\ \A r \in Shard \ {s} : recv'[r] = recv[r]
    BY Parts DEF RecvType
  <1>2. ASSUME NEW r \in Shard, NEW x \in Migrations,
               Live(x), to(x) = r, recv'[r].m = x, recv'[r].after, recv'[r].empty
        PROVE  acked \subseteq primary(r).docs
    <2>1. CASE r = s
      BY <1>1, <1>2, <2>1
    <2>2. CASE r # s
      BY <1>1, <1>2, <2>2 DEF DataInv, DocsInv
    <2> QED BY <2>1, <2>2
  <1> QED BY <1>2, MemoryData

LEMMA RecvChunkStartData ==
    ASSUME ControlInv, DataInv, NEW m \in Migrations, Begun(m), RecvChunkStart(m)
    PROVE  DataInv'
  <1>1. PICK s \in Shard : s = to(m)
    BY Parts
  <1>2. Takes("recvChunkStart", m)
    BY ReceiveFacts, Parts DEF RecvChunkStart
  <1>3. PICK v : v = [NoReceive EXCEPT !.m = m, !.state = "ready"]
    OBVIOUS
  <1>4. recv' = [recv EXCEPT ![s] = v] /\ ~v.empty
    BY <1>1, <1>3 DEF RecvChunkStart, NoReceive
  <1>5. \A r \in Shard : meta'[r].owner = r => meta[r].owner = r \/ config.owner = r
    BY <1>1, Parts DEF RecvChunkStart, MetaType
  <1>6. UNCHANGED <<config, committed, mig, log, term, thr, acked, del>>
    BY DEF RecvChunkStart
  <1>7. \A y, x : sent(y, x)' => sent(y, x)
    BY <1>2 DEF Takes
  <1> QED BY <1>4, <1>5, <1>6, <1>7, ReceiverData

LEMMA ReceiveFailsData ==
    ASSUME ControlInv, DataInv, NEW s \in Shard, ReceiveFails(s)
    PROVE  DataInv'
  <1>1. SameMessages
    BY NoMessageFacts, Parts DEF ReceiveFails
  <1>2. ~NoReceive.empty
    BY DEF NoReceive
  <1> QED BY <1>1, <1>2, ReceiverData DEF ReceiveFails, SameMessages

LEMMA FetchBatchData ==
    ASSUME ControlInv, DataInv, NEW s \in Shard, FetchBatch(s)
    PROVE  DataInv'
  <1>1. SameMessages
    BY NoMessageFacts, Parts DEF FetchBatch
  <1>2. recv \in [Shard -> Receive]
    BY Parts DEF RecvType
  <1>3. PICK v : v = [recv[s] EXCEPT !.batch = missing(s), !.after = nowAfter(s)]
    OBVIOUS
  <1>4. recv' = [recv EXCEPT ![s] = v] /\ ~v.empty
    BY <1>2, <1>3 DEF FetchBatch, transferring, Receive
  <1>5. UNCHANGED <<config, committed, mig, log, term, thr, acked, del, meta>>
    BY DEF FetchBatch
  <1> QED BY <1>1, <1>4, <1>5, ReceiverData DEF SameMessages

LEMMA SteadyData ==
    ASSUME ControlInv, DataInv, NEW s \in Shard, Steady(s)
    PROVE  DataInv'
  <1>1. SameMessages
    BY NoMessageFacts, Parts DEF Steady
  <1>2. recv \in [Shard -> Receive]
    BY Parts DEF RecvType
  <1>3. PICK v : v = [recv[s] EXCEPT !.state = "steady"]
    OBVIOUS
  <1>4. recv' = [recv EXCEPT ![s] = v] /\ ~v.empty
    BY <1>2, <1>3 DEF Steady, transferring, Receive
  <1>5. UNCHANGED <<config, committed, mig, log, term, thr, acked, del, meta>>
    BY DEF Steady
  <1> QED BY <1>1, <1>4, <1>5, ReceiverData DEF SameMessages

(* Nothing is missing: the recipient has what the owner has. *)
LEMMA TransferNothingData ==
    ASSUME ControlInv, DataInv, NEW s \in Shard, TransferNothing(s)
    PROVE  DataInv'
  <1>1. SameMessages
    BY NoMessageFacts, Parts DEF TransferNothing
  <1>2. recv \in [Shard -> Receive]
    BY Parts DEF RecvType
  <1>3. PICK v : v = [recv[s] EXCEPT !.empty = TRUE, !.after = nowAfter(s)]
    OBVIOUS
  <1>4. recv' = [recv EXCEPT ![s] = v] /\ v.m = recv[s].m
    BY <1>2, <1>3 DEF TransferNothing, Receive
  <1>5. ASSUME NEW x \in Migrations, Live(x), v.m = x PROVE acked \subseteq primary(s).docs
    <2>1. Begun(x) /\ config.version = mig[x].version /\ from(x) \in Shard
      BY <1>5, Parts DEF Live
    <2>2. config.owner = from(x)
      BY <2>1 DEF ControlInv, VersionInv, MigrationOK
    <2>3. acked \subseteq primary(from(x)).docs
      BY <2>1, <2>2, Parts DEF DataInv, DocsInv, HasAcked
    <2>4. primary(from(x)).docs \subseteq primary(s).docs
      BY <1>4, <1>5 DEF TransferNothing, missing
    <2> QED BY <2>3, <2>4
  <1>6. UNCHANGED <<config, committed, mig, log, term, thr, acked, del, meta>>
    BY DEF TransferNothing
  <1> QED BY <1>1, <1>4, <1>5, <1>6, ReceiverData DEF SameMessages

(* No transfer before the commit message counts. *)
LEMMA StartCommitData ==
    ASSUME ControlInv, DataInv, NEW m \in Migrations, Begun(m), StartCommit(m)
    PROVE  DataInv'
  <1>1. PICK s \in Shard : s = to(m)
    BY Parts
  <1>2. /\ recv \in [Shard -> Receive] /\ recv[s].m = m
        /\ recv[s].state = "steady" /\ ReceiveOK(s, recv[s], primary(s)) /\ m # 0
    BY <1>1, Parts DEF StartCommit, RecvType, ControlInv, Migrations
  <1>3. Takes("recvChunkCommit", m)
    BY ReceiveFacts, Parts DEF StartCommit
  <1>4. PICK v : v = [recv[s] EXCEPT !.state = "commitStart"]
    OBVIOUS
  <1>5. recv' = [recv EXCEPT ![s] = v] /\ (v.after <=> recv[s].after)
    BY <1>1, <1>2, <1>4 DEF StartCommit, Receive
  <1>6. ~v.after
    BY <1>2, <1>5 DEF ReceiveOK
  <1>7. UNCHANGED <<config, committed, mig, log, term, thr, acked, del, meta>>
    BY DEF StartCommit
  <1>8. \A y, x : sent(y, x)' => sent(y, x)
    BY <1>3 DEF Takes
  <1> QED BY <1>5, <1>6, <1>7, <1>8, ReceiverData

(* What the recipient says that it has, every state of it has. *)
LEMMA ExamineStateData ==
    ASSUME ControlInv, DataInv, NEW s \in Shard, ExamineState(s)
    PROVE  DataInv'
  <1>1. recv[s] # NoReceive
    BY DEF ExamineState, NoReceive
  <1>2. PICK m \in Migrations : m = recv[s].m /\ Begun(m) /\ to(m) = s
    BY <1>1, ReceiverFacts
  <1>3. recv \in [Shard -> Receive]
    BY Parts DEF RecvType
  <1>4. UNCHANGED <<config, committed, mig, log, term, thr, acked, del, meta>>
    BY DEF ExamineState
  <1>5. CASE complete(s) /\ flushed(s)
    <2>1. send("received", m) /\ recv' = [recv EXCEPT ![s] = NoReceive]
      BY <1>2, <1>5 DEF ExamineState
    <2>2. Sends("received", m)
      BY <2>1, SendFacts, Parts DEF Request
    <2>3. ASSUME Live(m) PROVE HasAcked(s)
      <3>1. acked \subseteq primary(s).docs
        BY <1>2, <1>5, <2>3 DEF DataInv, DocsInv, complete, ExamineState
      <3> QED BY <1>5, <3>1 DEF HasAcked, States, flushed
    <2>4. /\ \A x \in Migrations : sent("commit", x)' => sent("commit", x)
          /\ \A x \in Migrations : Live(x) /\ sent("received", x)' =>
                 sent("received", x) \/ HasAcked(to(x))
      BY <1>2, <2>2, <2>3 DEF Sends
    <2>5. ~NoReceive.empty
      BY DEF NoReceive
    <2> QED BY <1>4, <2>1, <2>4, <2>5, ReceiverData
  <1>6. CASE ~(complete(s) /\ flushed(s))
    <2>1. PICK v : v = [recv[s] EXCEPT !.empty = FALSE]
      OBVIOUS
    <2>2. recv' = [recv EXCEPT ![s] = v] /\ UNCHANGED msgs /\ ~v.empty
      BY <1>3, <1>6, <2>1 DEF ExamineState, Receive
    <2>3. SameMessages
      BY <2>2, NoMessageFacts, Parts
    <2> QED BY <1>4, <2>2, <2>3, ReceiverData DEF SameMessages
  <1> QED BY <1>5, <1>6

LEMMA RefreshData ==
    ASSUME ControlInv, DataInv, NEW s \in Shard, Refresh(s)
    PROVE  DataInv'
  <1>1. SameMessages
    BY NoMessageFacts, Parts DEF Refresh
  <1>2. \A r \in Shard : meta'[r].owner = r => meta[r].owner = r \/ config.owner = r
    BY Parts DEF Refresh, MetaType
  <1>3. UNCHANGED <<config, committed, mig, log, term, thr, acked, del, recv>>
    BY DEF Refresh
  <1> QED BY <1>1, <1>2, <1>3, MemoryData DEF SameMessages, DataInv, DocsInv

LEMMA CleanUpRangeData ==
    ASSUME ControlInv, DataInv, NEW s \in Shard, NEW m \in Migrations, CleanUpRange(s, m)
    PROVE  DataInv'
  <1>1. SameMessages
    BY NoMessageFacts, Parts DEF CleanUpRange
  <1>2. \A r \in Shard : meta'[r].owner = r => meta[r].owner = r \/ config.owner = r
    BY Parts DEF CleanUpRange, MetaType
  <1>3. \A r \in Shard, x \in Migrations :
            del'[r][x].step = "replicate" => del[r][x].step = "replicate"
    <2>1. DelType /\ del[s][m] \in Deletion
      BY Parts DEF DelType
    <2>2. PICK e : del' = [del EXCEPT ![s][m] = e] /\ e.step # "replicate"
      <3>1. finished(del[s][m]).step # "replicate"
        BY <2>1, DeletionFacts
      <3>2. [del[s][m] EXCEPT !.step = "scheduled"].step # "replicate"
        BY <2>1 DEF Deletion
      <3>3. PICK k : k = IF meta[s] = Unknown THEN config ELSE meta[s]
        OBVIOUS
      <3>4. del' = [del EXCEPT ![s][m] = IF k.owner = s THEN finished(del[s][m])
                                         ELSE [del[s][m] EXCEPT !.step = "scheduled"]]
        BY <2>1, <3>3 DEF CleanUpRange, DelType
      <3> QED BY <3>1, <3>2, <3>4
    <2> QED BY <2>1, <2>2 DEF DelType
  <1>4. UNCHANGED <<config, committed, mig, log, term, thr, acked, recv>>
    BY DEF CleanUpRange
  <1> QED BY <1>1, <1>2, <1>3, <1>4, MemoryData DEF SameMessages, DataInv, DocsInv

LEMMA DeletionEndsData ==
    ASSUME ControlInv, DataInv, NEW s \in Shard, NEW m \in Migrations, DeletionEnds(s, m)
    PROVE  DataInv'
  <1>1. SameMessages
    BY NoMessageFacts, Parts DEF DeletionEnds
  <1>2. \A r \in Shard, x \in Migrations : del'[r][x].step = "replicate" =>
            del[r][x].step = "replicate" \/ primary(r).docs = {}
    <2>1. DelType /\ del[s][m] \in Deletion
      BY Parts DEF DelType
    <2>2. \A r \in Shard, x \in Migrations : r # s \/ x # m => del'[r][x] = del[r][x]
      BY <2>1 DEF DeletionEnds, DelType
    <2>3. primary(s).docs = {} \/ del' = [del EXCEPT ![s][m] = finished(del[s][m])]
      BY <2>1 DEF DeletionEnds, DelType
    <2>4. finished(del[s][m]).step # "replicate"
      BY <2>1, DeletionFacts
    <2>5. primary(s).docs = {} \/ del'[s][m].step # "replicate"
      BY <2>1, <2>3, <2>4 DEF DelType
    <2> QED BY <2>2, <2>5
  <1>3. UNCHANGED <<config, committed, mig, log, term, thr, acked, recv, meta>>
    BY DEF DeletionEnds
  <1> QED BY <1>1, <1>2, <1>3, MemoryData DEF SameMessages, DataInv, DocsInv

(* The new primary knows neither its metadata nor a migration it received. *)
LEMMA FailoverData ==
    ASSUME ControlInv, DataInv, NEW s \in Shard, NEW k \in DOMAIN log[s], Failover(s, k)
    PROVE  DataInv'
  <1>1. MetaInv /\ DocsInv /\ OrphanInv
    BY DEF DataInv
  <1>2. PICK st : st = log[s][k]
    OBVIOUS
  <1>3. /\ UNCHANGED <<config, committed, mig, msgs, acked>>
        /\ term' = [term EXCEPT ![s] = @ + 1]
        /\ meta' = [meta EXCEPT ![s] = Unknown]
        /\ recv' = [recv EXCEPT ![s] = NoReceive]
        /\ del' = [del EXCEPT ![s] = resubmitted(st)]
    BY <1>2 DEF Failover
  <1>4. Loses(s) /\ primary(s)' = st /\ st \in States(s)
    BY <1>2, FailoverLog, Parts DEF Failover
  <1>5. Moves(s, st)
    BY <1>4 DEF Moves, Loses
  <1>6. \A x \in Migrations : \A u \in 0 .. MaxTerm :
            thr'[x][u] = thr[x][u] \/ (from(x) = s /\ thr'[x][u].pc = "recover")
    BY FailoverThreads
  <1>7. Quiet /\ SameMessages
    BY <1>3, QuietFacts, NoMessageFacts, Parts
  <1>8. Fewer
    <2>1. "recover" \notin Before
      BY DEF Before, Starting, Cloning
    <2> QED BY <1>6, <1>7, <2>1, LiveBack DEF SameMessages
  <1>9. recv'[s].m = 0 /\ \A q \in Shard \ {s} : recv'[q] = recv[q]
    BY <1>3, Parts DEF RecvType, NoReceive
  <1>10. DocsInv'
    <2>1. HasAcked(s) => acked \subseteq st.docs
      BY <1>4 DEF HasAcked
    <2>2. ASSUME NEW r \in Shard, NEW x \in Migrations,
                 Live(x), to(x) = r, recv'[r].m = x, recv'[r].after, recv'[r].empty
          PROVE  acked \subseteq primary(r)'.docs
      <3>1. r # s /\ recv'[r] = recv[r]
        BY <1>9, <2>2 DEF Migrations
      <3>2. primary(r)' = primary(r)
        BY <1>5, <3>1 DEF Moves
      <3> QED BY <1>1, <2>2, <3>1, <3>2 DEF DocsInv
    <2> QED BY <1>1, <1>3, <1>5, <1>7, <1>8, <2>1, <2>2, DocsKept DEF SameMessages
  <1>11. OrphanInv'
    <2>1. \A x \in Migrations : del'[s][x].step # "replicate"
      <3>1. NoDeletion.step # "replicate" /\ submitted(NoDeletion).step # "replicate"
        BY DEF NoDeletion, submitted
      <3>2. \A x \in Migrations : resubmitted(st)[x].step # "replicate"
        BY <3>1 DEF resubmitted
      <3> QED BY <1>3, <3>2, Parts DEF DelType
    <2>2. \A q \in Shard \ {s} : del'[q] = del[q] /\ primary(q)' = primary(q)
      BY <1>3, <1>5, Parts DEF DelType, Moves
    <2>3. \A r \in Shard, x \in Migrations :
              del'[r][x].step = "replicate" => primary(r)'.docs = {}
      BY <1>1, <2>1, <2>2 DEF OrphanInv
    <2> QED BY <1>1, <1>3, <1>4, <1>5, <2>3, OrphansKept
  <1>12. MetaInv'
    <2>1. meta'[s].owner # s /\ \A q \in Shard \ {s} : meta'[q] = meta[q]
      BY <1>3, Parts, ShardAssumption DEF MetaType, Unknown
    <2>2. ASSUME NEW r \in Shard \ {s}, NEW x \in Migrations, Blocks(x, r)
          PROVE  Blocks(x, r)'
      <3>1. from(x) = r /\ from(x)' = r /\ term'[r] = term[r] /\ term[r] \in 0 .. MaxTerm
        BY <1>3, <2>2, Parts DEF Blocks, from, TypeInv
      <3>2. thr'[x][term'[r]] = thr[x][term[r]] /\ primary(r)' = primary(r)
        BY <1>5, <1>6, <2>2, <3>1 DEF Moves
      <3> QED BY <2>2, <3>1, <3>2 DEF Blocks
    <2>3. \A r \in Shard : Blocked(r) /\ meta'[r].owner = r => Blocked(r)' \/ config.owner = r
      BY <2>1, <2>2 DEF Blocked
    <2> QED BY <1>1, <1>3, <2>1, <2>3, MetaKept
  <1> QED BY <1>10, <1>11, <1>12 DEF DataInv

(* A primary that takes writes is the owner's, and no recipient is close to *)
(* becoming the owner.                                                      *)
LEMMA ServesOwner ==
    ASSUME ControlInv, DataInv, ~ServeBeforeRecovery, NEW s \in Shard, NEW e, ClientInsert(s, e)
    PROVE  config.owner = s /\ ~Blocked(s)
  <1>1. ASSUME NEW m \in Migrations, Blocks(m, s) PROVE FALSE
    <2>1. Begun(m) /\ from(m) = s /\ term[s] \in 0 .. MaxTerm
      BY <1>1, Parts, ShardAssumption DEF Blocks, Begun, TypeInv
    <2>2. ThreadOK(m, term[s])
      BY <2>1 DEF ControlInv
    <2>3. ~thr[m][term[s]].critSec
      BY <2>1 DEF ClientInsert, inCriticalSection
    <2>4. thr[m][term[s]].pc \notin {"recover", "ensure", "refresh"}
      BY <2>1, <2>3 DEF ClientInsert, undecided
    <2>5. thr[m][term[s]].pc \notin {"critical", "cloneCompleted", "committing", "confirm"}
      BY <2>2, <2>3 DEF ThreadOK
    <2> QED BY <1>1, <2>4, <2>5 DEF Blocks, Blocking
  <1>2. meta[s].owner = s
    BY DEF ClientInsert
  <1> QED BY <1>1, <1>2 DEF Blocked, DataInv, MetaInv

LEMMA ClientInsertData ==
    ASSUME ControlInv, DataInv, ~ServeBeforeRecovery, NEW s \in Shard, NEW e \in Doc,
           ClientInsert(s, e)
    PROVE  DataInv'
  <1>1. MetaInv /\ DocsInv /\ OrphanInv
    BY DEF DataInv
  <1>2. config.owner = s /\ ~Blocked(s)
    BY ServesOwner
  <1>3. primary(s) \in State /\ primary(s) \in States(s) /\ LogType
    BY Parts
  <1>4. PICK d \in SUBSET Doc : d = primary(s).docs \cup {e}
    BY <1>3 DEF State
  <1>5. PICK st \in State : /\ st = [primary(s) EXCEPT !.docs = d]
                            /\ st.coord = primary(s).coord /\ st.task = primary(s).task
                            /\ st.txn = primary(s).txn /\ st.docs = d
    BY <1>3, SetDocs
  <1>6. log' = [log EXCEPT ![s] = <<st>>]
    BY <1>4, <1>5 DEF ClientInsert
  <1>7. /\ States(s)' = {st} /\ primary(s)' = st
        /\ \A r \in Shard \ {s} : States(r)' = States(r) /\ primary(r)' = primary(r)
    BY <1>3, <1>6, InsertLog
  <1>8. /\ UNCHANGED <<config, committed, mig, term, meta, recv, del, thr, msgs>>
        /\ acked' = acked \cup {e}
    BY DEF ClientInsert
  <1>9. Quiet /\ SameMessages /\ Fewer
    <2>1. Quiet /\ SameMessages
      BY <1>8, QuietFacts, NoMessageFacts, Parts
    <2> QED BY <1>8, <2>1, LiveBack DEF SameMessages
  <1>10. DocsInv'
    <2>1. acked' \subseteq st.docs
      BY <1>1, <1>2, <1>3, <1>4, <1>5, <1>8 DEF DocsInv, HasAcked
    <2>2. HasAcked(s)'
      BY <1>7, <2>1 DEF HasAcked
    <2>3. HasAcked(config.owner)'
      BY <1>2, <1>8, <2>2
    <2>4. ASSUME NEW x \in Migrations, Live(x)'
          PROVE  /\ ~sent("received", x)'
                 /\ ~(recv'[to(x)'].m = x /\ recv'[to(x)'].after /\ recv'[to(x)'].empty)
      <3>1. Live(x) /\ Begun(x) /\ to(x)' = to(x) /\ to(x) \in Shard
        BY <1>8, <1>9, <2>4, Parts DEF Fewer, Live, to
      <3>2. config.owner = from(x)
        BY <3>1 DEF ControlInv, VersionInv, MigrationOK, Live
      <3>3. ~(sent("received", x) \/ (recv[to(x)].m = x /\ recv[to(x)].state = "commitStart"))
        BY <1>2, <3>1, <3>2, LiveBlocks
      <3>4. ReceiveOK(to(x), recv[to(x)], primary(to(x))) /\ x # 0
        BY <3>1 DEF ControlInv, Migrations
      <3> QED BY <1>8, <1>9, <3>1, <3>3, <3>4 DEF ReceiveOK, SameMessages
    <2> QED BY <2>3, <2>4 DEF DocsInv
  <1>11. OrphanInv'
    <2>1. Moves(s, st)
      BY <1>7 DEF Moves
    <2>2. \A x \in Migrations : del[s][x].step # "replicate"
      <3>1. ASSUME NEW x \in Migrations, del[s][x].step = "replicate" PROVE FALSE
        <4>1. primary(s).task[x] = "ready" /\ TaskOK(s, primary(s), x)
          BY <1>3, <3>1 DEF ControlInv
        <4> QED BY <1>2, <4>1 DEF TaskOK, Aborted
      <3> QED BY <3>1
    <2>3. \A r \in Shard, x \in Migrations :
              del'[r][x].step = "replicate" => primary(r)'.docs = {}
      BY <1>1, <1>7, <1>8, <2>2 DEF OrphanInv
    <2> QED BY <1>1, <1>2, <1>8, <2>1, <2>3, OrphansKept
  <1>12. MetaInv'
    <2>1. \A r \in Shard : primary(r)'.coord = primary(r).coord
      BY <1>5, <1>7
    <2>2. \A r \in Shard : Blocked(r) => Blocked(r)'
      BY <1>8, <2>1, BlockedKept
    <2> QED BY <1>1, <1>8, <2>2, MetaKept
  <1> QED BY <1>10, <1>11, <1>12 DEF DataInv

(* The new owner has what the old one acknowledged, and the old one keeps its *)
(* task and knows that it must find out.                                      *)
LEMMA CommitData ==
    ASSUME ControlInv, DataInv, NEW m \in Migrations, Begun(m), CommitChunkMigration(m)
    PROVE  DataInv'
  <1>1. /\ Live(m) /\ config.owner = from(m)
        /\ config' = [owner |-> to(m), version |-> config.version + 1]
        /\ committed' = committed \cup {m}
        /\ UNCHANGED <<mig, log, term, meta, recv, del, thr, msgs, acked>>
        /\ config.version \in Nat
        /\ \A x \in Migrations : Begun(x) => mig[x].version \in Nat /\ mig[x].version <= config.version
        /\ sent("commit", m)
        /\ to(m) \in Shard /\ from(m) \in Shard /\ to(m) # from(m)
    BY CommitFacts
  <1>2. MetaInv /\ DocsInv /\ OrphanInv
    BY DEF DataInv
  <1>3. PICK f \in Shard, r \in Shard : f = from(m) /\ r = to(m) /\ f # r
    BY <1>1
  <1>4. \A q \in Shard : States(q)' = States(q) /\ primary(q)' = primary(q)
    BY <1>1, SameLog
  <1>5. \A x : from(x)' = from(x) /\ to(x)' = to(x) /\ (Begun(x)' <=> Begun(x))
    BY <1>1 DEF from, to, Begun
  <1>6. sent("received", m) /\ LiveOK(m)
    BY <1>1, Parts DEF MigrationInv, MessageOK
  <1>7. DocsInv'
    <2>1. HasAcked(r)
      BY <1>1, <1>2, <1>3, <1>6 DEF DocsInv
    <2>2. HasAcked(r)' /\ config'.owner = r
      BY <1>1, <1>3, <1>4, <2>1 DEF HasAcked
    <2>3. \A x \in Migrations : ~Live(x)'
      <3>1. SUFFICES ASSUME NEW x \in Migrations, Live(x)' PROVE FALSE
        OBVIOUS
      <3>2. Begun(x) /\ config'.version = mig[x].version
        BY <1>1, <1>5, <3>1 DEF Live
      <3>3. config'.version = config.version + 1 /\ config.version \in Nat
        BY <1>1
      <3>4. mig[x].version \in Nat /\ mig[x].version <= config.version
        BY <1>1, <3>2
      <3> QED BY <3>2, <3>3, <3>4
    <2> QED BY <2>2, <2>3 DEF DocsInv
  <1>8. OrphanInv'
    <2>1. ASSUME NEW q \in Shard \ {r}, NEW v \in States(q), v.docs # {}
          PROVE  \E x \in Migrations : v.task[x] # "none" /\ ~(x \in committed' /\ to(x) = q)
      <3>1. CASE q = f
        <4>1. v.task[m] = "pending"
          BY <1>1, <1>3, <1>6, <3>1 DEF LiveOK
        <4>2. PICK x \in Migrations : x = m
          OBVIOUS
        <4>3. v.task[x] # "none" /\ to(x) # q
          BY <1>3, <3>1, <4>1, <4>2
        <4> QED BY <4>3
      <3>2. CASE q # f
        <4>1. PICK x \in Migrations : v.task[x] # "none" /\ ~(x \in committed /\ to(x) = q)
          BY <1>1, <1>2, <1>3, <2>1, <3>2 DEF OrphanInv
        <4>2. ~(x \in committed' /\ to(x) = q)
          BY <1>1, <1>3, <2>1, <4>1
        <4> QED BY <4>1, <4>2
      <3> QED BY <3>1, <3>2
    <2>2. config'.owner = r
      BY <1>1, <1>3
    <2>3. \A q \in Shard \ {r} : \A v \in States(q)' :
              v.docs # {} => \E x \in Migrations : v.task[x] # "none"
                                                   /\ ~(x \in committed' /\ to(x)' = q)
      BY <1>4, <1>5, <2>1
    <2>4. \A q \in Shard, x \in Migrations :
              del'[q][x].step = "replicate" => primary(q)'.docs = {}
      BY <1>1, <1>2, <1>4 DEF OrphanInv
    <2> QED BY <2>2, <2>3, <2>4 DEF OrphanInv
  <1>9. MetaInv'
    <2>1. \A q \in Shard : Blocked(q) => Blocked(q)'
      BY <1>1, <1>4, BlockedKept
    <2>2. Blocked(f)
      BY <1>1, <1>3, LiveBlocks
    <2>3. \A q \in Shard : meta'[q].owner = q => meta[q].owner = q
      BY <1>1
    <2> QED BY <1>1, <1>2, <1>3, <2>1, <2>2, <2>3 DEF MetaInv
  <1> QED BY <1>7, <1>8, <1>9 DEF DataInv

(* Nothing has been received of a migration that begins. *)
LEMMA StartMigrationData ==
    ASSUME ControlInv, DataInv, NEW m \in Migrations, NEW s \in Shard, NEW r \in Shard,
           StartMigration(m, s, r)
    PROVE  DataInv'
  <1>1. /\ ~Begun(m) /\ config' = config /\ committed' = committed /\ s # r
        /\ \A x \in Migrations : x # m => mig'[x] = mig[x]
        /\ mig'[m] = [from |-> s, to |-> r, version |-> config.version]
        /\ config.owner = s
    BY StartVersion
  <1>2. MetaInv /\ DocsInv /\ OrphanInv
    BY DEF DataInv
  <1>3. \A x \in Migrations : x # m => /\ (Begun(x)' <=> Begun(x)) /\ from(x)' = from(x)
                                       /\ to(x)' = to(x)
    BY <1>1 DEF Begun, from, to
  <1>4. UNCHANGED <<term, recv, del, msgs, acked>> /\ meta' = [meta EXCEPT ![s] = config]
    BY DEF StartMigration
  <1>5. PICK t \in 0 .. MaxTerm : t = term[s]
    BY Parts DEF TypeInv
  <1>6. \A x \in Migrations, u \in 0 .. MaxTerm : x # m => thr'[x][u] = thr[x][u]
    <2>1. Goes(m, t, "persistCoordinator", thr[m][t].decision, thr[m][t].critSec)
      BY <1>5, GotoFacts, Parts DEF StartMigration, Pc, Undecided, Before, Starting
    <2> QED BY <2>1 DEF Goes
  <1>7. PICK st \in State : /\ st = [primary(s) EXCEPT !.coord[m] = "unknown"]
                            /\ st.task = primary(s).task /\ st.txn = primary(s).txn /\ st.docs = primary(s).docs
                            /\ st.coord[m] = "unknown"
                            /\ \A x \in Migrations : x # m => st.coord[x] = primary(s).coord[x]
    <2>1. primary(s) \in State
      BY Parts
    <2> QED BY <2>1, SetCoord
  <1>8. Moves(s, st) /\ primary(s) \in States(s)
    BY <1>7, WritesMoves, Parts DEF StartMigration
  <1>9. /\ \A y \in Request : ~sent(y, m)
        /\ m \notin committed
        /\ \A q \in Shard : /\ recv[q].m # m
                            /\ \A u \in States(q) : u.task[m] = "none"
    BY <1>1 DEF ControlInv, UnknownOK
  <1>10. SameMessages
    BY <1>4, NoMessageFacts, Parts
  <1>11. \A q \in Shard : HasAcked(q) => HasAcked(q)'
    <2>1. \A q \in Shard : \A v \in States(q)' : v \in States(q) \/ (q = s /\ v = st)
      BY <1>8 DEF Moves
    <2> QED BY <1>4, <1>7, <1>8, <2>1 DEF HasAcked
  <1>12. \A q \in Shard : primary(q)'.docs = primary(q).docs
    BY <1>7, <1>8 DEF Moves
  <1>13. DocsInv'
    <2>1. HasAcked(s)' /\ config'.owner = s
      BY <1>1, <1>2, <1>11 DEF DocsInv
    <2>2. ASSUME NEW x \in Migrations, Live(x)'
          PROVE  /\ sent("received", x)' => HasAcked(to(x))'
                 /\ recv'[to(x)'].m = x /\ recv'[to(x)'].after /\ recv'[to(x)'].empty
                    => acked' \subseteq primary(to(x))'.docs
      <3>1. CASE x = m
        <4>1. ~sent("received", m)'
          BY <1>9, <1>10 DEF SameMessages, Request
        <4>2. to(m)' = r
          BY <1>1 DEF to
        <4> QED BY <1>4, <1>9, <3>1, <4>1, <4>2
      <3>2. CASE x # m
        <4>1. Begun(x)
          BY <1>3, <2>2, <3>2 DEF Live
        <4>2. PICK q \in Shard : q = to(x) /\ q = to(x)'
          BY <1>3, <3>2, <4>1, Parts
        <4>3. Live(x)
          BY <1>1, <1>3, <1>6, <1>10, <2>2, <3>2 DEF Live, SameMessages
        <4>4. sent("received", x) => HasAcked(q)
          BY <1>2, <4>2, <4>3 DEF DocsInv
        <4>5. recv[q].m = x /\ recv[q].after /\ recv[q].empty => acked \subseteq primary(q).docs
          BY <1>2, <4>2, <4>3 DEF DocsInv
        <4>6. sent("received", x)' => HasAcked(q)'
          BY <1>10, <1>11, <4>4 DEF SameMessages
        <4>7. recv'[q].m = x /\ recv'[q].after /\ recv'[q].empty => acked' \subseteq primary(q)'.docs
          BY <1>4, <1>12, <4>5
        <4> QED BY <4>2, <4>6, <4>7
      <3> QED BY <3>1, <3>2
    <2> QED BY <2>1, <2>2 DEF DocsInv
  <1>14. OrphanInv'
    <2>1. ASSUME NEW q \in Shard \ {s}, NEW v \in States(q)', v.docs # {}
          PROVE  \E x \in Migrations : v.task[x] # "none" /\ ~(x \in committed' /\ to(x)' = q)
      <3>1. v \in States(q)
        BY <1>8 DEF Moves
      <3>2. PICK x \in Migrations : v.task[x] # "none" /\ ~(x \in committed /\ to(x) = q)
        BY <1>1, <1>2, <2>1, <3>1 DEF OrphanInv
      <3>3. x # m
        BY <1>9, <3>1, <3>2
      <3>4. to(x)' = to(x)
        BY <1>3, <3>3
      <3>5. ~(x \in committed' /\ to(x)' = q)
        BY <1>1, <3>2, <3>4
      <3> QED BY <3>2, <3>5
    <2>2. \A q \in Shard, x \in Migrations :
              del'[q][x].step = "replicate" => primary(q)'.docs = {}
      BY <1>2, <1>4, <1>12 DEF OrphanInv
    <2>3. config'.owner = s
      BY <1>1
    <2> QED BY <2>1, <2>2, <2>3 DEF OrphanInv
  <1>15. MetaInv'
    <2>1. \A q \in Shard \ {s} : meta'[q] = meta[q]
      BY <1>4, Parts DEF MetaType
    <2>2. ASSUME NEW q \in Shard \ {s}, NEW x \in Migrations, Blocks(x, q) PROVE Blocks(x, q)'
      <3>1. x # m /\ term[q] \in 0 .. MaxTerm
        BY <1>1, <2>2, ShardAssumption, Parts DEF Blocks, Begun, TypeInv
      <3>2. thr'[x][term[q]] = thr[x][term[q]] /\ primary(q)' = primary(q) /\ term' = term
            /\ from(x)' = from(x)
        BY <1>3, <1>4, <1>6, <1>8, <2>2, <3>1 DEF Moves
      <3> QED BY <2>2, <3>2 DEF Blocks
    <2>3. \A q \in Shard : meta'[q].owner = q => meta[q].owner = q \/ config.owner = q
      BY <1>1, <2>1
    <2>4. \A q \in Shard : Blocked(q) /\ meta'[q].owner = q => Blocked(q)' \/ config.owner = q
      BY <1>1, <2>2 DEF Blocked
    <2> QED BY <1>1, <1>2, <2>3, <2>4, MetaKept
  <1> QED BY <1>13, <1>14, <1>15 DEF DataInv

(* The step of one thread of a donor. *)
LEMMA DonorData ==
    ASSUME ControlInv, DataInv, NEW m \in Migrations, NEW t \in 0 .. MaxTerm,
           NEW f \in Shard, f = from(m), Quiet, UNCHANGED <<term, recv, acked>>,
           \A x \in Migrations, u \in 0 .. MaxTerm : x # m \/ u # t => thr'[x][u] = thr[x][u],
           thr'[m][t].pc \in Before => thr[m][t].pc \in Before,
           \A x \in Migrations : sent("received", x)' => sent("received", x),
           \A x \in Migrations : sent("commit", x)' =>
               sent("commit", x) \/ (x = m /\ thr[m][t].pc \in Before),
           NEW st, Moves(f, st), st.docs = primary(f).docs,
           \A x \in Migrations : x # m => st.coord[x] = primary(f).coord[x],
           t = term[f] \/ st.coord[m] = primary(f).coord[m],
           f = config.owner \/ st.docs = {} \/ \A x \in Migrations :
               primary(f).task[x] # "none" => st.task[x] # "none",
           \A r \in Shard, x \in Migrations :
               del'[r][x].step = "replicate" => del[r][x].step = "replicate",
           \A r \in Shard : meta'[r].owner = r => meta[r].owner = r \/ config.owner = r,
           /\ t = term[f]
           /\ \/ thr[m][t].pc \in Blocking
              \/ thr[m][t].pc = "recover" /\ primary(f).coord[m] = "unknown"
           => thr'[m][t].pc \in Blocking \/ config.owner = f \/ meta'[f].owner # f
    PROVE  DataInv'
  <1>1. MetaInv /\ DocsInv /\ OrphanInv
    BY DEF DataInv
  <1>2. /\ \A r \in Shard : primary(r)'.docs = primary(r).docs
        /\ \A r \in Shard \ {f} : primary(r)' = primary(r)
    BY DEF Moves
  <1>3. Fewer
    <2>1. \A x \in Migrations, u \in 0 .. MaxTerm :
              thr'[x][u].pc \in Before => thr[x][u].pc \in Before
      OBVIOUS
    <2>2. \A x \in Migrations : sent("commit", x)' =>
              sent("commit", x) \/ \E u \in 0 .. MaxTerm : thr[x][u].pc \in Before
      OBVIOUS
    <2> QED BY <2>1, <2>2, LiveBack
  <1>4. primary(f) \in States(f)
    BY Parts
  <1>5. DocsInv'
    <2>1. HasAcked(f) => acked \subseteq st.docs
      BY <1>4 DEF HasAcked
    <2>2. \A r \in Shard, x \in Migrations :
              Live(x) /\ to(x) = r /\ recv'[r].m = x /\ recv'[r].after /\ recv'[r].empty
              => acked \subseteq primary(r)'.docs
      BY <1>1, <1>2 DEF DocsInv
    <2> QED BY <1>1, <1>3, <2>1, <2>2, DocsKept
  <1>6. OrphanInv'
    <2>1. f = config.owner \/ st.docs = {} \/ Accounted(f, st)
      <3>1. SUFFICES ASSUME f # config.owner, st.docs # {} PROVE Accounted(f, st)
        OBVIOUS
      <3>2. Accounted(f, primary(f))
        BY <3>1, PrimaryAccounts
      <3> QED BY <3>1, <3>2 DEF Accounted
    <2>2. \A r \in Shard, x \in Migrations :
              del'[r][x].step = "replicate" => primary(r)'.docs = {}
      BY <1>1, <1>2 DEF OrphanInv
    <2> QED BY <1>1, <2>1, <2>2, OrphansKept DEF Quiet
  <1>7. MetaInv'
    <2>1. ASSUME NEW r \in Shard, NEW x \in Migrations, Blocks(x, r)
          PROVE  Blocks(x, r)' \/ config.owner = r \/ meta'[r].owner # r
      <3>1. from(x)' = from(x) /\ from(x) = r /\ term'[r] = term[r] /\ term[r] \in 0 .. MaxTerm
        BY <2>1, Parts DEF Blocks, Quiet, from, TypeInv
      <3>2. CASE x = m /\ t = term[f]
        BY <2>1, <3>1, <3>2 DEF Blocks
      <3>3. CASE x # m \/ t # term[f]
        <4>1. thr'[x][term[r]] = thr[x][term[r]]
          BY <3>1, <3>3
        <4>2. primary(r)'.coord[x] = primary(r).coord[x]
          BY <3>1, <3>3 DEF Moves
        <4> QED BY <2>1, <3>1, <4>1, <4>2 DEF Blocks
      <3> QED BY <3>2, <3>3
    <2>2. \A r \in Shard : Blocked(r) /\ meta'[r].owner = r => Blocked(r)' \/ config.owner = r
      BY <2>1 DEF Blocked
    <2> QED BY <1>1, <2>2, MetaKept DEF Quiet
  <1> QED BY <1>5, <1>6, <1>7 DEF DataInv

(* A thread that writes nothing. *)
LEMMA ThreadData ==
    ASSUME ControlInv, DataInv, NEW m \in Migrations, NEW t \in 0 .. MaxTerm,
           thr[m][t].pc # "idle", Quiet, UNCHANGED <<log, term, recv, acked>>,
           \A x \in Migrations, u \in 0 .. MaxTerm : x # m \/ u # t => thr'[x][u] = thr[x][u],
           thr'[m][t].pc \in Before => thr[m][t].pc \in Before,
           UNCHANGED msgs \/ \E y \in Request \ {"received"} :
                                 /\ send(y, m)
                                 /\ y = "commit" => thr[m][t].pc \in Before,
           \A r \in Shard, x \in Migrations :
               del'[r][x].step = "replicate" => del[r][x].step = "replicate",
           \A r \in Shard : meta'[r].owner = r => meta[r].owner = r \/ config.owner = r,
           /\ t = term[from(m)]
           /\ \/ thr[m][t].pc \in Blocking
              \/ thr[m][t].pc = "recover" /\ primary(from(m)).coord[m] = "unknown"
           => thr'[m][t].pc \in Blocking \/ config.owner = from(m) \/ meta'[from(m)].owner # from(m)
    PROVE  DataInv'
  <1>1. Begun(m)
    BY BegunThread
  <1>2. PICK f \in Shard : f = from(m)
    BY <1>1, Parts
  <1>3. PICK st : st = primary(f)
    OBVIOUS
  <1>4. Moves(f, st)
    BY <1>3, SameLog DEF Moves
  <1>5. /\ \A x \in Migrations : sent("received", x)' => sent("received", x)
        /\ \A x \in Migrations : sent("commit", x)' =>
               sent("commit", x) \/ (x = m /\ thr[m][t].pc \in Before)
    <2>1. CASE UNCHANGED msgs
      BY <2>1 DEF sent
    <2>2. CASE \E y \in Request \ {"received"} :
                   send(y, m) /\ (y = "commit" => thr[m][t].pc \in Before)
      <3>1. PICK y \in Request : /\ send(y, m) /\ y # "received"
                                 /\ y = "commit" => thr[m][t].pc \in Before
        BY <2>2
      <3>2. Sends(y, m)
        BY <3>1, SendFacts, Parts
      <3> QED BY <3>1, <3>2 DEF Sends
    <2> QED BY <2>1, <2>2
  <1> QED BY <1>2, <1>3, <1>4, <1>5, DonorData

LEMMA ThreadGoes ==
    ASSUME ThrType, NEW m \in Migrations, NEW t \in 0 .. MaxTerm, NEW pc, goto(m, t, pc)
    PROVE  /\ thr'[m][t].pc = pc
           /\ \A x \in Migrations, u \in 0 .. MaxTerm : x # m \/ u # t => thr'[x][u] = thr[x][u]
  BY DEF ThrType, Thread, goto

(* A thread that goes on without a decision, or has nothing to decide. *)
LEMMA GotoData ==
    ASSUME ControlInv, DataInv, NEW m \in Migrations, NEW t \in 0 .. MaxTerm,
           thr[m][t].pc \notin {"idle", "recover"}, Quiet,
           UNCHANGED <<log, term, recv, acked, meta>>,
           NEW pc, goto(m, t, pc),
           pc \in Before => thr[m][t].pc \in Before,
           thr[m][t].pc \in Blocking => pc \in Blocking,
           UNCHANGED msgs \/ \E y \in Request \ {"received"} :
                                 /\ send(y, m)
                                 /\ y = "commit" => thr[m][t].pc \in Before,
           \A r \in Shard, x \in Migrations :
               del'[r][x].step = "replicate" => del[r][x].step = "replicate"
    PROVE  DataInv'
  <1>1. /\ thr'[m][t].pc = pc
        /\ \A x \in Migrations, u \in 0 .. MaxTerm : x # m \/ u # t => thr'[x][u] = thr[x][u]
    BY ThreadGoes, Parts
  <1>2. thr[m][t].pc # "idle" /\ thr[m][t].pc # "recover"
    OBVIOUS
  <1>3. thr'[m][t].pc \in Before => thr[m][t].pc \in Before
    BY <1>1
  <1>4. \A r \in Shard : meta'[r].owner = r => meta[r].owner = r \/ config.owner = r
    OBVIOUS
  <1>5. /\ t = term[from(m)]
        /\ \/ thr[m][t].pc \in Blocking
           \/ thr[m][t].pc = "recover" /\ primary(from(m)).coord[m] = "unknown"
        => thr'[m][t].pc \in Blocking \/ config.owner = from(m) \/ meta'[from(m)].owner # from(m)
    BY <1>1, <1>2
  <1> QED BY <1>1, <1>2, <1>3, <1>4, <1>5, ThreadData

(* The threads that go on without a write. *)
LEMMA DonorGoesData ==
    ASSUME ControlInv, DataInv, NEW m \in Migrations, NEW t \in 0 .. MaxTerm,
           \/ StartClone(m, t)
           \/ CommitChunkOnRecipient(m, t)
           \/ CommitChunkMetadataOnConfig(m, t)
           \/ CommitAnswered(m, t)
           \/ CommitFailed(m, t)
           \/ AdvanceTransactionOnRecipient(m, t)
           \/ DeleteTaskOnRecipient(m, t)
           \/ MarkAsReadyOnRecipient(m, t)
           \/ AbortDelivered(m, t)
    PROVE  DataInv'
  <1>1. CASE StartClone(m, t)
    <2>1. /\ thr[m][t].pc = "persistTask" /\ goto(m, t, "cloning") /\ send("recvChunkStart", m)
          /\ UNCHANGED <<config, committed, mig, log, term, meta, recv, del, acked>>
      BY <1>1 DEF StartClone, at
    <2>2. Quiet
      BY <2>1, QuietFacts
    <2> QED BY <2>1, <2>2, GotoData DEF Before, Starting, Cloning, Blocking, Request
  <1>2. CASE CommitChunkOnRecipient(m, t)
    <2>1. /\ thr[m][t].pc = "critical" /\ goto(m, t, "cloneCompleted") /\ UNCHANGED msgs
          /\ UNCHANGED <<config, committed, mig, log, term, meta, recv, del, acked>>
      BY <1>2 DEF CommitChunkOnRecipient, at
    <2>2. Quiet
      BY <2>1, QuietFacts
    <2> QED BY <2>1, <2>2, GotoData DEF Before, Starting, Cloning, Blocking, Request
  <1>3. CASE CommitChunkMetadataOnConfig(m, t)
    <2>1. /\ thr[m][t].pc = "cloneCompleted" /\ goto(m, t, "committing") /\ send("commit", m)
          /\ UNCHANGED <<config, committed, mig, log, term, meta, recv, del, acked>>
      BY <1>3 DEF CommitChunkMetadataOnConfig, at
    <2>2. Quiet
      BY <2>1, QuietFacts
    <2> QED BY <2>1, <2>2, GotoData DEF Before, Starting, Cloning, Blocking, Request
  <1>4. CASE CommitAnswered(m, t)
    <2>1. /\ thr[m][t].pc = "committing" /\ goto(m, t, "confirm") /\ UNCHANGED msgs
          /\ UNCHANGED <<config, committed, mig, log, term, meta, recv, del, acked>>
      BY <1>4 DEF CommitAnswered, at
    <2>2. Quiet
      BY <2>1, QuietFacts
    <2> QED BY <2>1, <2>2, GotoData DEF Before, Starting, Cloning, Blocking, Request
  <1>5. CASE CommitFailed(m, t)
    <2>1. /\ thr[m][t].pc = "committing" /\ goto(m, t, "ensure") /\ UNCHANGED msgs
          /\ UNCHANGED <<config, committed, mig, log, term, meta, recv, del, acked>>
      BY <1>5 DEF CommitFailed, at
    <2>2. Quiet
      BY <2>1, QuietFacts
    <2> QED BY <2>1, <2>2, GotoData DEF Before, Starting, Cloning, Blocking, Request
  <1>6. CASE AdvanceTransactionOnRecipient(m, t)
    <2>1. /\ thr[m][t].pc = "persistDecision" /\ goto(m, t, "advance") /\ send("advanceTransaction", m)
          /\ UNCHANGED <<config, committed, mig, log, term, meta, recv, del, acked>>
      BY <1>6 DEF AdvanceTransactionOnRecipient, at
    <2>2. Quiet
      BY <2>1, QuietFacts
    <2> QED BY <2>1, <2>2, GotoData DEF Before, Starting, Cloning, Blocking, Request
  <1>7. CASE DeleteTaskOnRecipient(m, t)
    <2>1. /\ thr[m][t].pc = "advance" /\ goto(m, t, "recipientTask") /\ send("deleteTask", m)
          /\ UNCHANGED <<config, committed, mig, log, term, meta, recv, del, acked>>
      BY <1>7 DEF DeleteTaskOnRecipient, at
    <2>2. Quiet
      BY <2>1, QuietFacts
    <2> QED BY <2>1, <2>2, GotoData DEF Before, Starting, Cloning, Blocking, Request
  <1>8. CASE MarkAsReadyOnRecipient(m, t)
    <2>1. /\ thr[m][t].pc = "donorTask" /\ goto(m, t, "recipientTask") /\ send("readyTask", m)
          /\ UNCHANGED <<config, committed, mig, log, term, meta, recv, del, acked>>
      BY <1>8 DEF MarkAsReadyOnRecipient, at
    <2>2. Quiet
      BY <2>1, QuietFacts
    <2> QED BY <2>1, <2>2, GotoData DEF Before, Starting, Cloning, Blocking, Request
  <1>9. CASE AbortDelivered(m, t)
    <2>1. /\ thr[m][t].pc = "recipientTask" /\ goto(m, t, "forget") /\ UNCHANGED msgs
          /\ UNCHANGED <<config, committed, mig, log, term, meta, recv, del, acked>>
      BY <1>9 DEF AbortDelivered, at
    <2>2. Quiet
      BY <2>1, QuietFacts
    <2> QED BY <2>1, <2>2, GotoData DEF Before, Starting, Cloning, Blocking, Request
  <1> QED BY <1>1, <1>2, <1>3, <1>4, <1>5, <1>6, <1>7, <1>8, <1>9

LEMMA SubmitLocallyData ==
    ASSUME ControlInv, DataInv, NEW m \in Migrations, NEW t \in 0 .. MaxTerm, SubmitLocally(m, t)
    PROVE  DataInv'
  <1>1. /\ thr[m][t].pc = "donorTask" /\ goto(m, t, "forget")
        /\ UNCHANGED <<config, committed, mig, log, term, meta, recv, msgs, acked>>
    BY DEF SubmitLocally, at
  <1>2. PICK f \in Shard : f = from(m)
    BY <1>1, BegunThread, Parts
  <1>3. \A r \in Shard, x \in Migrations :
            del'[r][x].step = "replicate" => del[r][x].step = "replicate"
    <2>1. DelType /\ del[f][m] \in Deletion
      BY Parts DEF DelType
    <2>2. PICK e : e = submitted(del[f][m]) /\ del' = [del EXCEPT ![f][m] = e]
      BY <1>2, <2>1 DEF SubmitLocally
    <2>3. e.step = "replicate" => del[f][m].step = "replicate"
      BY <2>1, <2>2, DeletionFacts
    <2> QED BY <2>1, <2>2, <2>3 DEF DelType
  <1>4. Quiet
    BY <1>1, QuietFacts
  <1> QED BY <1>1, <1>3, <1>4, GotoData DEF Before, Starting, Cloning, Blocking

LEMMA EnsureChunkVersionData ==
    ASSUME ControlInv, DataInv, NEW m \in Migrations, NEW t \in 0 .. MaxTerm,
           EnsureChunkVersion(m, t)
    PROVE  DataInv'
  <1>1. /\ thr[m][t].pc = "ensure" /\ goto(m, t, "refresh")
        /\ UNCHANGED <<log, term, meta, recv, del, msgs, acked>>
    BY DEF EnsureChunkVersion, at
  <1>2. Quiet
    BY <1>1, BegunThread, EnsureFacts DEF EnsureChunkVersion
  <1> QED BY <1>1, <1>2, GotoData DEF Before, Starting, Cloning, Blocking

LEMMA EnterCriticalSectionData ==
    ASSUME ControlInv, DataInv, NEW m \in Migrations, NEW t \in 0 .. MaxTerm,
           EnterCriticalSection(m, t)
    PROVE  DataInv'
  <1>1. /\ thr[m][t].pc = "cloning" /\ send("recvChunkCommit", m)
        /\ UNCHANGED <<config, committed, mig, log, term, meta, recv, del, acked>>
    BY DEF EnterCriticalSection, at
  <1>2. \A x \in Migrations, u \in 0 .. MaxTerm : x # m \/ u # t => thr'[x][u] = thr[x][u]
    BY Parts DEF EnterCriticalSection, ThrType
  <1>3. Quiet
    BY <1>1, QuietFacts
  <1> QED BY <1>1, <1>2, <1>3, ThreadData DEF Before, Cloning, Blocking, Request

(* Before the commit is sent, the donor is still the owner. *)
LEMMA CleanupOnErrorData ==
    ASSUME ControlInv, DataInv, NEW m \in Migrations, NEW t \in 0 .. MaxTerm,
           CleanupOnError(m, t)
    PROVE  DataInv'
  <1>1. /\ thr[m][t].pc \in Before
        /\ UNCHANGED <<config, committed, mig, log, term, meta, recv, del, msgs, acked>>
    BY DEF CleanupOnError, Before, Starting, Cloning
  <1>2. Begun(m) /\ thr[m][t].pc # "idle" /\ thr[m][t].pc \in Undecided
    BY <1>1, BegunThread DEF Before, Starting, Cloning, Undecided
  <1>3. PICK f \in Shard : f = from(m)
    BY <1>2, Parts
  <1>4. ASSUME t = term[f] PROVE config.owner = f
    <2>1. /\ MessageOK(m) /\ ThreadOK(m, t) /\ Agree(m, thr[m][t], primary(f).coord[m])
          /\ CoordOK(f, primary(f), m)
      BY <1>2, <1>3, <1>4, Parts DEF MigrationInv, DocumentOK, ControlInv
    <2>2. m \notin committed
      BY <1>1, <2>1 DEF MessageOK, ThreadOK
    <2>3. primary(f).coord[m] = "unknown"
      BY <1>2, <2>1 DEF Agree
    <2> QED BY <2>1, <2>2, <2>3 DEF CoordOK
  <1>5. \A x \in Migrations, u \in 0 .. MaxTerm : x # m \/ u # t => thr'[x][u] = thr[x][u]
    BY Parts DEF CleanupOnError, ThrType
  <1>6. Quiet
    BY <1>1, QuietFacts
  <1> QED BY <1>1, <1>2, <1>3, <1>4, <1>5, <1>6, ThreadData

(* The donor learns who the owner is when it decides. *)
LEMMA RefreshAndDecideData ==
    ASSUME ControlInv, DataInv, NEW m \in Migrations, NEW t \in 0 .. MaxTerm,
           RefreshAndDecide(m, t)
    PROVE  DataInv'
  <1>1. /\ thr[m][t].pc \in {"confirm", "refresh"}
        /\ UNCHANGED <<config, committed, mig, log, term, recv, del, msgs, acked>>
    BY DEF RefreshAndDecide, at
  <1>2. Begun(m) /\ thr[m][t].pc # "idle"
    BY <1>1, BegunThread
  <1>3. PICK f \in Shard : f = from(m)
    BY <1>2, Parts
  <1>4. /\ t = term[f] => meta'[f] = config
        /\ \A r \in Shard : meta'[r].owner = r => meta[r].owner = r \/ config.owner = r
    BY <1>2, <1>3, Parts DEF RefreshAndDecide, current, MetaType, Begun
  <1>5. /\ \A x \in Migrations, u \in 0 .. MaxTerm : x # m \/ u # t => thr'[x][u] = thr[x][u]
        /\ thr'[m][t].pc \in {"done", "decide"}
    BY Parts DEF RefreshAndDecide, ThrType
  <1>6. Quiet
    BY <1>1, QuietFacts
  <1>7. thr'[m][t].pc \notin Before
    BY <1>5 DEF Before, Starting, Cloning
  <1> QED BY <1>1, <1>2, <1>3, <1>4, <1>5, <1>6, <1>7, ThreadData

LEMMA ResumeMigrationData ==
    ASSUME ControlInv, DataInv, NEW m \in Migrations, NEW t \in 0 .. MaxTerm,
           ResumeMigration(m, t)
    PROVE  DataInv'
  <1>1. /\ thr[m][t].pc = "recover" /\ thr[m][t].pc # "idle" /\ thr[m][t].pc \notin Blocking
        /\ UNCHANGED <<config, committed, mig, log, term, meta, recv, del, msgs, acked>>
    BY DEF ResumeMigration, at, Blocking
  <1>2. /\ \A x \in Migrations, u \in 0 .. MaxTerm : x # m \/ u # t => thr'[x][u] = thr[x][u]
        /\ thr'[m][t].pc = IF primary(from(m)).coord[m] = "unknown" THEN "ensure" ELSE "decide"
    BY Parts DEF ResumeMigration, ThrType
  <1>3. Quiet
    BY <1>1, QuietFacts
  <1>4. /\ thr'[m][t].pc \notin Before
        /\ primary(from(m)).coord[m] = "unknown" => thr'[m][t].pc \in Blocking
    BY <1>2 DEF Before, Starting, Cloning, Blocking
  <1> QED BY <1>1, <1>2, <1>3, <1>4, ThreadData

(* A thread of the current primary that writes what its document or task says. *)
LEMMA DonorWriteData ==
    ASSUME ControlInv, DataInv, NEW m \in Migrations, NEW t \in 0 .. MaxTerm,
           NEW f \in Shard, f = from(m), t = term[f],
           thr[m][t].pc \notin Blocking \cup {"recover"},
           UNCHANGED <<config, committed, mig, term, meta, recv, del, msgs, acked>>,
           NEW pc, goto(m, t, pc), pc \in Before => thr[m][t].pc \in Before,
           NEW st \in State, write(f, st), st.docs = primary(f).docs,
           \A x \in Migrations : x # m => st.coord[x] = primary(f).coord[x],
           f = config.owner \/ \A x \in Migrations :
               primary(f).task[x] # "none" => st.task[x] # "none"
    PROVE  DataInv'
  <1>1. /\ thr'[m][t].pc = pc
        /\ \A x \in Migrations, u \in 0 .. MaxTerm : x # m \/ u # t => thr'[x][u] = thr[x][u]
    BY ThreadGoes, Parts
  <1>2. Quiet /\ SameMessages /\ Moves(f, st)
    BY QuietFacts, NoMessageFacts, WritesMoves, Parts
  <1>3. thr'[m][t].pc \in Before => thr[m][t].pc \in Before
    BY <1>1
  <1> QED BY <1>1, <1>2, <1>3, DonorData DEF SameMessages

(* What the writes of the current primary's thread start from. *)
LEMMA WriterFacts ==
    ASSUME ControlInv, NEW m \in Migrations, NEW t \in 0 .. MaxTerm,
           thr[m][t].pc # "idle", t = term[from(m)]
    PROVE  \E f \in Shard : /\ f = from(m) /\ t = term[f] /\ primary(f) \in State
                            /\ ThreadOK(m, t) /\ Agree(m, thr[m][t], primary(f).coord[m])
                            /\ CoordOK(f, primary(f), m)
  <1>1. Begun(m)
    BY BegunThread
  <1>2. PICK f \in Shard : f = from(m) /\ t = term[f]
    BY <1>1, Parts
  <1>3. /\ ThreadOK(m, t) /\ Agree(m, thr[m][t], primary(f).coord[m])
        /\ CoordOK(f, primary(f), m) /\ primary(f) \in State
    BY <1>1, <1>2, Parts DEF MigrationInv, DocumentOK, ControlInv
  <1> QED BY <1>2, <1>3

LEMMA PersistDonorTaskData ==
    ASSUME ControlInv, DataInv, NEW m \in Migrations, NEW t \in 0 .. MaxTerm,
           PersistDonorTask(m, t)
    PROVE  DataInv'
  <1>1. /\ thr[m][t].pc = "persistCoordinator" /\ t = term[from(m)] /\ goto(m, t, "persistTask")
        /\ UNCHANGED <<config, committed, mig, term, meta, recv, del, msgs, acked>>
    BY DEF PersistDonorTask, at, current
  <1>2. PICK f \in Shard : f = from(m) /\ t = term[f] /\ primary(f) \in State
    BY <1>1, WriterFacts
  <1>3. PICK st \in State :
            /\ st = [primary(f) EXCEPT !.task[m] = "pending"]
            /\ st.coord = primary(f).coord /\ st.txn = primary(f).txn /\ st.docs = primary(f).docs
            /\ st.task[m] = "pending"
            /\ \A x \in Migrations : x # m => st.task[x] = primary(f).task[x]
    BY <1>2, SetTask
  <1>4. write(f, st)
    BY <1>2, <1>3 DEF PersistDonorTask
  <1>5. \A x \in Migrations : primary(f).task[x] # "none" => st.task[x] # "none"
    BY <1>3
  <1>6. thr[m][t].pc \notin Blocking \cup {"recover"} /\ thr[m][t].pc \in Before
    BY <1>1 DEF Blocking, Before, Starting
  <1> QED BY <1>1, <1>2, <1>3, <1>4, <1>5, <1>6, DonorWriteData

LEMMA PersistDecisionData ==
    ASSUME ControlInv, DataInv, NEW m \in Migrations, NEW t \in 0 .. MaxTerm,
           PersistDecision(m, t)
    PROVE  DataInv'
  <1>1. /\ thr[m][t].pc = "decide" /\ t = term[from(m)] /\ goto(m, t, "persistDecision")
        /\ UNCHANGED <<config, committed, mig, term, meta, recv, del, msgs, acked>>
    BY DEF PersistDecision, at, current
  <1>2. PICK f \in Shard : /\ f = from(m) /\ t = term[f] /\ primary(f) \in State
                           /\ Agree(m, thr[m][t], primary(f).coord[m])
    BY <1>1, WriterFacts
  <1>3. primary(f).coord[m] # "none" /\ thr[m][t].decision \in {"committed", "aborted"}
    BY <1>1, <1>2 DEF Agree, Correct
  <1>4. PICK c \in {"none", "unknown", "committed", "aborted"} : c = thr[m][t].decision
    BY <1>3
  <1>5. PICK st \in State : /\ st = [primary(f) EXCEPT !.coord[m] = c]
                            /\ st.task = primary(f).task /\ st.txn = primary(f).txn /\ st.docs = primary(f).docs
                            /\ st.coord[m] = c
                            /\ \A x \in Migrations : x # m => st.coord[x] = primary(f).coord[x]
    <2>1. primary(f) \in State
      BY <1>2
    <2>2. CASE c = "committed"
      <3>1. PICK u \in State :
               /\ u = [primary(f) EXCEPT !.coord[m] = "committed"]
               /\ u.task = primary(f).task /\ u.txn = primary(f).txn /\ u.docs = primary(f).docs
               /\ u.coord[m] = "committed"
               /\ \A x \in Migrations : x # m => u.coord[x] = primary(f).coord[x]
        BY <2>1, SetCoord
      <3> QED BY <2>2, <3>1
    <2>3. CASE c = "aborted"
      <3>1. PICK u \in State :
               /\ u = [primary(f) EXCEPT !.coord[m] = "aborted"]
               /\ u.task = primary(f).task /\ u.txn = primary(f).txn /\ u.docs = primary(f).docs
               /\ u.coord[m] = "aborted"
               /\ \A x \in Migrations : x # m => u.coord[x] = primary(f).coord[x]
        BY <2>1, SetCoord
      <3> QED BY <2>3, <3>1
    <2> QED BY <1>3, <1>4, <2>2, <2>3
  <1>6. write(f, st)
    BY <1>2, <1>3, <1>4, <1>5 DEF PersistDecision
  <1>7. thr[m][t].pc \notin Blocking \cup {"recover"} /\ "persistDecision" \notin Before
    BY <1>1 DEF Blocking, Before, Starting, Cloning
  <1>8. \A x \in Migrations : primary(f).task[x] # "none" => st.task[x] # "none"
    BY <1>5
  <1> QED BY <1>1, <1>2, <1>5, <1>6, <1>7, <1>8, DonorWriteData

LEMMA MarkAsReadyLocallyData ==
    ASSUME ControlInv, DataInv, NEW m \in Migrations, NEW t \in 0 .. MaxTerm,
           MarkAsReadyLocally(m, t)
    PROVE  DataInv'
  <1>1. /\ thr[m][t].pc = "recipientTask" /\ t = term[from(m)] /\ goto(m, t, "donorTask")
        /\ UNCHANGED <<config, committed, mig, term, meta, recv, del, msgs, acked>>
    BY DEF MarkAsReadyLocally, at, current
  <1>2. PICK f \in Shard : f = from(m) /\ t = term[f] /\ primary(f) \in State
    BY <1>1, WriterFacts
  <1>3. thr[m][t].pc \notin Blocking \cup {"recover"} /\ "donorTask" \notin Before
    BY <1>1 DEF Blocking, Before, Starting, Cloning
  <1>4. CASE primary(f).task[m] = "none"
    <2>1. PICK st \in State : st = primary(f)
      BY <1>2
    <2>2. write(f, st)
      BY <1>2, <1>4, <2>1 DEF MarkAsReadyLocally
    <2> QED BY <1>1, <1>2, <1>3, <2>1, <2>2, DonorWriteData
  <1>5. CASE primary(f).task[m] # "none"
    <2>1. PICK st \in State :
              /\ st = [primary(f) EXCEPT !.task[m] = "ready"]
              /\ st.coord = primary(f).coord /\ st.txn = primary(f).txn /\ st.docs = primary(f).docs
              /\ st.task[m] = "ready"
              /\ \A x \in Migrations : x # m => st.task[x] = primary(f).task[x]
      BY <1>2, SetTask
    <2>2. write(f, st)
      BY <1>2, <1>5, <2>1 DEF MarkAsReadyLocally
    <2>3. \A x \in Migrations : primary(f).task[x] # "none" => st.task[x] # "none"
      BY <2>1
    <2> QED BY <1>1, <1>2, <1>3, <2>1, <2>2, <2>3, DonorWriteData
  <1> QED BY <1>4, <1>5

(* The task of an aborted migration goes: the donor is still the owner. *)
LEMMA DeleteTaskLocallyData ==
    ASSUME ControlInv, DataInv, NEW m \in Migrations, NEW t \in 0 .. MaxTerm,
           DeleteTaskLocally(m, t)
    PROVE  DataInv'
  <1>1. /\ thr[m][t].pc = "advance" /\ t = term[from(m)] /\ goto(m, t, "donorTask")
        /\ thr[m][t].decision = "aborted"
        /\ UNCHANGED <<config, committed, mig, term, meta, recv, del, msgs, acked>>
    BY DEF DeleteTaskLocally, at, current
  <1>2. PICK f \in Shard : /\ f = from(m) /\ t = term[f] /\ primary(f) \in State
                           /\ ThreadOK(m, t) /\ Agree(m, thr[m][t], primary(f).coord[m])
                           /\ CoordOK(f, primary(f), m)
    BY <1>1, WriterFacts
  <1>3. config.owner = f
    <2>1. primary(f).coord[m] = "aborted" /\ m \notin committed
      BY <1>1, <1>2 DEF ThreadOK, Agree, Completing, Correct, Aborted
    <2> QED BY <1>2, <2>1 DEF CoordOK
  <1>4. PICK st \in State :
            /\ st = [primary(f) EXCEPT !.task[m] = "none"]
            /\ st.coord = primary(f).coord /\ st.txn = primary(f).txn /\ st.docs = primary(f).docs
            /\ st.task[m] = "none"
            /\ \A x \in Migrations : x # m => st.task[x] = primary(f).task[x]
    BY <1>2, SetTask
  <1>5. write(f, st)
    BY <1>2, <1>4 DEF DeleteTaskLocally
  <1>6. thr[m][t].pc \notin Blocking \cup {"recover"} /\ "donorTask" \notin Before
    BY <1>1 DEF Blocking, Before, Starting, Cloning
  <1> QED BY <1>1, <1>2, <1>3, <1>4, <1>5, <1>6, DonorWriteData

LEMMA ForgetMigrationData ==
    ASSUME ControlInv, DataInv, NEW m \in Migrations, NEW t \in 0 .. MaxTerm,
           ForgetMigration(m, t)
    PROVE  DataInv'
  <1>1. /\ thr[m][t].pc = "forget" /\ t = term[from(m)] /\ goto(m, t, "done")
        /\ UNCHANGED <<config, committed, mig, term, meta, recv, del, msgs, acked>>
    BY DEF ForgetMigration, at, current
  <1>2. PICK f \in Shard : f = from(m) /\ t = term[f] /\ primary(f) \in State
    BY <1>1, WriterFacts
  <1>3. PICK st \in State : /\ st = [primary(f) EXCEPT !.coord[m] = "none"]
                            /\ st.task = primary(f).task /\ st.txn = primary(f).txn /\ st.docs = primary(f).docs
                            /\ st.coord[m] = "none"
                            /\ \A x \in Migrations : x # m => st.coord[x] = primary(f).coord[x]
    <2>1. primary(f) \in State
      BY <1>2
    <2> QED BY <2>1, SetCoord
  <1>4. write(f, st)
    BY <1>2, <1>3 DEF ForgetMigration
  <1>5. thr[m][t].pc \notin Blocking \cup {"recover"} /\ "done" \notin Before
    BY <1>1 DEF Blocking, Before, Starting, Cloning
  <1>6. \A x \in Migrations : primary(f).task[x] # "none" => st.task[x] # "none"
    BY <1>3
  <1> QED BY <1>1, <1>2, <1>3, <1>4, <1>5, <1>6, DonorWriteData

LEMMA DonorStepData ==
    ASSUME ControlInv, DataInv, NEW m \in Migrations, NEW t \in 0 .. MaxTerm,
           donorStep(m, t) \/ donorFails(m, t)
    PROVE  DataInv'
  BY DonorGoesData, SubmitLocallyData, EnsureChunkVersionData, EnterCriticalSectionData,
     CleanupOnErrorData, RefreshAndDecideData, ResumeMigrationData, PersistDonorTaskData,
     PersistDecisionData, MarkAsReadyLocallyData, DeleteTaskLocallyData, ForgetMigrationData
  DEF donorStep, donorFails

LEMMA UnchangedData ==
    ASSUME ControlInv, DataInv, UNCHANGED vars
    PROVE  DataInv'
  <1>1. UNCHANGED <<config, committed, mig, log, term, meta, recv, del, thr, msgs, acked>>
    BY DEF vars
  <1>2. SameMessages
    BY <1>1, NoMessageFacts, Parts
  <1> QED BY <1>1, <1>2, MemoryData DEF SameMessages, DataInv, DocsInv

LEMMA NextData == ~ServeBeforeRecovery /\ ControlInv /\ DataInv /\ [Next]_vars => DataInv'
  <1> SUFFICES ASSUME ~ServeBeforeRecovery, ControlInv, DataInv, [Next]_vars PROVE DataInv'
    OBVIOUS
  <1>1. CASE UNCHANGED vars
    BY <1>1, UnchangedData
  <1>2. CASE \E m \in Migrations, s, r \in Shard : StartMigration(m, s, r)
    BY <1>2, StartMigrationData
  <1>3. CASE \E m \in Migrations, t \in 0 .. MaxTerm : donorStep(m, t) \/ donorFails(m, t)
    BY <1>3, DonorStepData
  <1>4. CASE \E m \in Migrations : from(m) # None /\ (RecvChunkStart(m) \/ StartCommit(m))
    BY <1>4, RecvChunkStartData, StartCommitData DEF Begun
  <1>5. CASE \E m \in Migrations : from(m) # None /\ (handleRequest(m) \/ CommitChunkMigration(m))
    BY <1>5, AdvanceTransactionData, DeleteTaskData, ReadyTaskData, CommitData
       DEF Begun, handleRequest
  <1>6. CASE \E s \in Shard : receive(s) \/ ReceiveFails(s)
    BY <1>6, PersistRecipientTaskData, FetchBatchData, InsertBatchData, SteadyData,
       TransferNothingData, ExamineStateData, ReceiveFailsData DEF receive
  <1>7. CASE \E s \in Shard, m \in Migrations : rangeDeleter(s, m)
    BY <1>7, CleanUpRangeData, DeletionEndsData, RemoveTaskData, DeleteNextBatchData
       DEF rangeDeleter
  <1>8. CASE \E s \in Shard : Refresh(s) \/ Replicate(s)
    BY <1>8, RefreshData, ReplicateData
  <1>9. CASE \E s \in Shard, d \in Doc : ClientInsert(s, d)
    BY <1>9, ClientInsertData
  <1>10. CASE \E s \in Shard : \E k \in DOMAIN log[s] : Failover(s, k)
    BY <1>10, FailoverData
  <1> QED BY <1>1, <1>2, <1>3, <1>4, <1>5, <1>6, <1>7, <1>8, <1>9, <1>10 DEF Next

LEMMA InitData == Init => DataInv
  <1> SUFFICES ASSUME Init PROVE DataInv
    OBVIOUS
  <1>1. \A s \in Shard : States(s) = {InitState(s)} /\ primary(s) = InitState(s)
    BY InitStates
  <1>2. config.owner = FirstOwner /\ acked = FirstDocs /\ FirstOwner \in Shard
    BY ShardAssumption DEF Init
  <1>3. MetaInv
    BY DEF Init, MetaInv
  <1>4. DocsInv
    <2>1. \A m \in Migrations : ~Live(m)
      BY DEF Init, Live, Begun, from, NoMigration
    <2>2. InitState(FirstOwner).docs = FirstDocs
      BY DEF InitState
    <2>3. HasAcked(FirstOwner)
      BY <1>1, <1>2, <2>2 DEF HasAcked
    <2> QED BY <1>2, <2>1, <2>3 DEF DocsInv
  <1>5. OrphanInv
    <2>1. \A s \in Shard \ {FirstOwner} : InitState(s).docs = {}
      BY DEF InitState
    <2>2. \A s \in Shard, m \in Migrations : del[s][m].step # "replicate"
      BY DEF Init, NoDeletion
    <2> QED BY <1>1, <1>2, <2>1, <2>2 DEF OrphanInv
  <1> QED BY <1>3, <1>4, <1>5 DEF DataInv

LEMMA DataCorrect == ~ServeBeforeRecovery => (Spec => []DataInv)
  <1>1. ~ServeBeforeRecovery /\ ControlInv /\ DataInv /\ [Next]_vars => DataInv'
    BY NextData
  <1>2. Init => DataInv
    BY InitData
  <1>3. Spec => []ControlInv
    BY ControlCorrect
  <1>4. SUFFICES ASSUME ~ServeBeforeRecovery PROVE Spec => []DataInv
    OBVIOUS
  <1>5. ControlInv /\ DataInv /\ [Next]_vars => DataInv'
    BY <1>1, <1>4
  <1> QED BY <1>2, <1>3, <1>5, PTL DEF Spec

(* Where no primary takes writes before it has recovered, the owner of the   *)
(* chunk has every acknowledged document, whichever of its members becomes   *)
(* primary: neither the last transfer, nor a failover of the recipient, nor  *)
(* a range deletion of an earlier migration loses one.                       *)
THEOREM DataKept == ~ServeBeforeRecovery => (Spec => []OwnerHasData)
  <1>1. ControlInv /\ DataInv => OwnerHasData
    <2> SUFFICES ASSUME ControlInv, DataInv PROVE OwnerHasData
      OBVIOUS
    <2>1. HasAcked(config.owner)
      BY DEF DataInv, DocsInv
    <2> QED BY <2>1 DEF OwnerHasData, HasAcked, States
  <1> QED BY <1>1, ControlCorrect, DataCorrect, PTL

(* And a shard that is not the owner has documents of the chunk only while   *)
(* it has a range deletion task, in every state that may survive: no orphan  *)
(* is left for ever by a failed, late or repeated step.                      *)
THEOREM OrphansHaveTasks == ~ServeBeforeRecovery => (Spec => []OrphansAccounted)
  <1>1. DataInv => OrphansAccounted
    <2> SUFFICES ASSUME DataInv, NEW s \in Shard \ {config.owner}, NEW i \in DOMAIN log[s],
                        log[s][i].docs # {}
                 PROVE  \E m \in Migrations : log[s][i].task[m] # "none"
      BY DEF OrphansAccounted
    <2>1. log[s][i] \in States(s)
      BY DEF States
    <2> QED BY <2>1 DEF DataInv, OrphanInv
  <1> QED BY <1>1, DataCorrect, PTL
=============================================================================
