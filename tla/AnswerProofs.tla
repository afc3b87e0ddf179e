---------------------------- MODULE AnswerProofs ----------------------------
(***************************************************************************)
(* Proofs about what answers a request: the agent runtime, the dashboards,  *)
(* the chats, the project steward and the forecasts of workload and of      *)
(* members. Each section is about one specification, for all values of its  *)
(* constants; they share no variable.                                       *)
(***************************************************************************)
EXTENDS AgentRuntime, FiniteSetTheorems, SequenceTheorems, WellFoundedInduction, TLAPS

-----------------------------------------------------------------------------
(* AgentRuntime: the shared machine, and the confirmations.                *)

Drives(c) == chat[c] \in {"planning", "answering", "executing"}

(* The machine leaves idle with the request that drives it, and no arc of    *)
(* its table leads back.                                                     *)
DriveInv ==
    /\ chat \in [Chats -> {"new", "planning", "answering", "executing"} \cup Over]
    /\ machine = "idle" => \A c \in Chats : chat[c] \in {"new", "error"}
    /\ \A c, d \in Chats : Drives(c) /\ Drives(d) => c = d

(* A confirmation is created by a chat that was planning, once. *)
ConfirmInv ==
    /\ confirms \in [Chats -> {"none", "pending", "approved", "rejected", "timeout"}]
    /\ DOMAIN verdicts = Chats /\ verdicts = [c \in Chats |-> verdicts[c]]
    /\ waiting \subseteq Chats
    /\ \A c \in Chats :
         /\ chat[c] \in {"new", "planning"} => confirms[c] = "none"
         /\ confirms[c] \in {"none", "pending"} => verdicts[c] = << >>
         /\ confirms[c] \in {"approved", "rejected", "timeout"} => verdicts[c] = <<confirms[c]>>
         /\ c \in waiting <=> confirms[c] = "pending"

RuntimeInv == DriveInv /\ ConfirmInv

LEMMA ArcOf ==
  ASSUME NEW s, NEW e, Can(s, e)
  PROVE  <<s, e, After(s, e)>> \in Arcs
<1>1. PICK a \in Arcs : a[1] = s /\ a[2] = e
  BY DEF Can
<1> DEFINE b == CHOOSE x \in Arcs : x[1] = s /\ x[2] = e
<1>2. b \in Arcs /\ b[1] = s /\ b[2] = e
  BY <1>1
<1>3. After(s, e) = b[3]
  BY DEF After
<1> HIDE DEF b
<1>4. b = <<b[1], b[2], b[3]>>
  BY <1>2 DEF Arcs
<1> QED
  BY <1>2, <1>3, <1>4

LEMMA IdleIsLeftByStart ==
  /\ \A s, e : Can(s, e) => After(s, e) # "idle" /\ (e = "start" <=> s = "idle")
  /\ Can("idle", "start")
<1>1. ASSUME NEW s, NEW e, Can(s, e)
      PROVE  After(s, e) # "idle" /\ (e = "start" <=> s = "idle")
  <2>1. <<s, e, After(s, e)>> \in Arcs
    BY <1>1, ArcOf
  <2> QED
    BY <2>1 DEF Arcs
<1>2. <<"idle", "start", "planning">> \in Arcs
  BY DEF Arcs
<1>3. Can("idle", "start")
  BY <1>2 DEF Can
<1> QED
  BY <1>1, <1>3

(* A run ends in its handler without bringing the machine back. *)
LEMMA FailedEnds ==
  ASSUME NEW c \in Chats, NEW s, s # "idle", Failed(c, s)
  PROVE  machine' # "idle" /\ chat' = [chat EXCEPT ![c] = "error"]
BY IdleIsLeftByStart DEF Failed

LEMMA BeginExecuteEnds ==
  ASSUME NEW c \in Chats, NEW p, NEW s, s # "idle", BeginExecute(c, p, s)
  PROVE  /\ machine' # "idle" /\ ConfirmsUnchanged
         /\ \E v \in {"done", "executing", "error"} : chat' = [chat EXCEPT ![c] = v]
<1>1. CASE Failed(c, s)
  BY <1>1, FailedEnds DEF BeginExecute
<1>2. CASE ~Failed(c, s)
  BY <1>2, IdleIsLeftByStart DEF BeginExecute
<1> QED
  BY <1>1, <1>2

(* The driver moves on, and leaves the confirmations alone. *)
LEMMA DriverKeeps ==
  ASSUME RuntimeInv, NEW c \in Chats, Drives(c), machine' # "idle", ConfirmsUnchanged,
         NEW v \in {"answering", "executing", "done", "error"},
         chat' = [chat EXCEPT ![c] = v]
  PROVE  RuntimeInv'
<1> USE DEF RuntimeInv, DriveInv
<1>1. \A d \in Chats : d # c => chat'[d] = chat[d] /\ ~Drives(d)
  OBVIOUS
<1>2. chat'[c] = v
  OBVIOUS
<1>3. DriveInv'
  BY <1>1, <1>2 DEF Drives, Over
<1>4. ConfirmInv'
  BY <1>1, <1>2 DEF ConfirmInv, ConfirmsUnchanged
<1> QED
  BY <1>3, <1>4

LEMMA StartKeeps ==
  ASSUME RuntimeInv, NEW c \in Chats, Start(c)
  PROVE  RuntimeInv'
<1> USE DEF RuntimeInv, DriveInv
<1>1. CASE Can(machine, "start")
  <2>1. machine = "idle" /\ machine' # "idle" /\ chat' = [chat EXCEPT ![c] = "planning"]
        /\ chat[c] = "new" /\ ConfirmsUnchanged
    BY <1>1, IdleIsLeftByStart DEF Start
  <2>2. DriveInv'
    BY <2>1 DEF Drives, Over
  <2>3. ConfirmInv'
    BY <2>1 DEF ConfirmInv, ConfirmsUnchanged
  <2> QED
    BY <2>2, <2>3
<1>2. CASE ~Can(machine, "start")
  <2>1. machine # "idle" /\ Failed(c, machine) /\ ConfirmsUnchanged /\ chat[c] = "new"
    BY <1>2, IdleIsLeftByStart DEF Start
  <2>2. machine' # "idle" /\ chat' = [chat EXCEPT ![c] = "error"]
    BY <2>1, FailedEnds
  <2>3. DriveInv'
    BY <2>2 DEF Drives, Over
  <2>4. ConfirmInv'
    BY <2>1, <2>2 DEF ConfirmInv, ConfirmsUnchanged
  <2> QED
    BY <2>3, <2>4
<1> QED
  BY <1>1, <1>2

LEMMA PlanArrivesKeeps ==
  ASSUME RuntimeInv, NEW c \in Chats, NEW p, PlanArrives(c, p)
  PROVE  RuntimeInv'
<1>1. chat[c] = "planning" /\ Drives(c) /\ machine # "idle"
  BY DEF PlanArrives, Drives, RuntimeInv, DriveInv
<1>2. CASE /\ machine' = After("preview", "show_preview")
           /\ chat' = [chat EXCEPT ![c] = "done"] /\ CreateConfirm(c)
  <2>1. After("preview", "show_preview") # "idle"
    <3>1. <<"preview", "show_preview", "awaiting_confirm">> \in Arcs
      BY DEF Arcs
    <3>2. Can("preview", "show_preview")
      BY <3>1 DEF Can
    <3> QED
      BY <3>2, IdleIsLeftByStart
  <2>2. DriveInv'
    BY <1>2, <2>1 DEF RuntimeInv, DriveInv, Drives, Over
  <2>3. confirms[c] = "none" /\ verdicts[c] = << >>
    BY <1>1 DEF RuntimeInv, ConfirmInv
  <2>4. ConfirmInv'
    BY <1>2, <2>3 DEF CreateConfirm, RuntimeInv, DriveInv, ConfirmInv
  <2> QED
    BY <2>2, <2>4 DEF RuntimeInv
<1>3. CASE \E s : s # "idle" /\ BeginExecute(c, p, s)
  BY <1>1, <1>3, BeginExecuteEnds, DriverKeeps
<1>4. CASE Failed(c, machine) /\ ConfirmsUnchanged
  BY <1>1, <1>4, FailedEnds, DriverKeeps
<1>5. CASE /\ Can(machine, "direct_answer") /\ machine' = After(machine, "direct_answer")
           /\ chat' = [chat EXCEPT ![c] = "answering"] /\ ConfirmsUnchanged
  BY <1>1, <1>5, IdleIsLeftByStart, DriverKeeps
<1>6. After("preview", "no_confirm_needed") # "idle"
  <2>1. <<"preview", "no_confirm_needed", "executing">> \in Arcs
    BY DEF Arcs
  <2>2. Can("preview", "no_confirm_needed")
    BY <2>1 DEF Can
  <2> QED
    BY <2>2, IdleIsLeftByStart
<1> QED
  BY <1>1, <1>2, <1>3, <1>4, <1>5, <1>6 DEF PlanArrives

LEMMA ConfirmKeeps ==
  ASSUME RuntimeInv, NEW c \in Chats, NEW approved \in BOOLEAN, Confirm(c, approved)
  PROVE  RuntimeInv'
<1>1. machine' = "idle" => machine = "idle"
  BY IdleIsLeftByStart DEF Confirm, Resume
<1>2. chat' = chat
  BY DEF Confirm
<1>3. DriveInv'
  BY <1>1, <1>2 DEF RuntimeInv, DriveInv, Drives
<1>4. CASE c \in waiting
  <2> DEFINE outcome == IF approved THEN "approved" ELSE "rejected"
  <2>1. /\ confirms' = [confirms EXCEPT ![c] = outcome] /\ waiting' = waiting \ {c}
        /\ verdicts' = [verdicts EXCEPT ![c] = Append(@, outcome)]
    BY <1>4 DEF Confirm, Resolve
  <2>2. outcome \in {"approved", "rejected"}
    OBVIOUS
  <2> HIDE DEF outcome
  <2>3. confirms[c] = "pending" /\ verdicts[c] = << >>
    BY <1>4 DEF RuntimeInv, ConfirmInv
  <2>4. verdicts' = [verdicts EXCEPT ![c] = <<outcome>>]
    BY <2>1, <2>3 DEF RuntimeInv, ConfirmInv
  <2> QED
    BY <1>2, <1>3, <2>1, <2>2, <2>3, <2>4 DEF RuntimeInv, ConfirmInv
<1>5. CASE c \notin waiting
  BY <1>2, <1>3, <1>5 DEF Confirm, RuntimeInv, ConfirmInv
<1> QED
  BY <1>4, <1>5

LEMMA TimeoutKeeps ==
  ASSUME RuntimeInv, NEW c \in Chats, Timeout(c)
  PROVE  RuntimeInv'
<1>1. machine' = machine /\ chat' = chat /\ waiting' = waiting \ {c}
  BY DEF Timeout
<1>2. DriveInv'
  BY <1>1 DEF RuntimeInv, DriveInv, Drives
<1>3. CASE c \in waiting
  <2>1. confirms[c] = "pending" /\ verdicts[c] = << >>
    BY <1>3 DEF RuntimeInv, ConfirmInv
  <2>2. /\ confirms' = [confirms EXCEPT ![c] = "timeout"]
        /\ verdicts' = [verdicts EXCEPT ![c] = Append(verdicts[c], "timeout")]
    BY <1>3, <2>1 DEF Timeout
  <2>3. Append(verdicts[c], "timeout") = <<"timeout">>
    BY <2>1
  <2>4. /\ confirms' = [confirms EXCEPT ![c] = "timeout"]
        /\ verdicts' = [verdicts EXCEPT ![c] = <<"timeout">>]
    BY <2>2, <2>3
  <2> QED
    BY <1>1, <1>2, <2>1, <2>4 DEF RuntimeInv, ConfirmInv
<1>4. CASE c \notin waiting
  BY <1>1, <1>2, <1>4 DEF Timeout, RuntimeInv, ConfirmInv
<1> QED
  BY <1>3, <1>4

LEMMA RuntimeInit == InitRuntime => RuntimeInv
BY DEF InitRuntime, RuntimeInv, DriveInv, ConfirmInv, Drives

LEMMA RuntimeStep ==
  ASSUME RuntimeInv, [NextRuntime]_varsRuntime
  PROVE  RuntimeInv'
<1>1. ASSUME NEW c \in Chats, PlanFails(c)
      PROVE  RuntimeInv'
  <2>1. Drives(c) /\ machine # "idle" /\ Failed(c, machine) /\ ConfirmsUnchanged
    BY <1>1 DEF PlanFails, Drives, RuntimeInv, DriveInv
  <2> QED
    BY <2>1, FailedEnds, DriverKeeps
<1>2. ASSUME NEW c \in Chats, AnswerChat(c) \/ ExecuteBatch(c)
      PROVE  RuntimeInv'
  <2>1. Drives(c) /\ machine # "idle" /\ ConfirmsUnchanged
    BY <1>2 DEF AnswerChat, ExecuteBatch, Drives, RuntimeInv, DriveInv
  <2>2. CASE Failed(c, machine)
    BY <2>1, <2>2, FailedEnds, DriverKeeps
  <2>3. CASE /\ Can(machine, "all_complete") /\ machine' = After(machine, "all_complete")
             /\ chat' = [chat EXCEPT ![c] = "done"]
    BY <2>1, <2>3, IdleIsLeftByStart, DriverKeeps
  <2> QED
    BY <1>2, <2>2, <2>3 DEF AnswerChat, ExecuteBatch
<1>3. ASSUME NEW c \in Chats, NEW p \in ToolPlans, PlanArrives(c, p)
      PROVE  RuntimeInv'
  BY <1>3, PlanArrivesKeeps
<1>4. CASE UNCHANGED varsRuntime
  BY <1>4 DEF varsRuntime, RuntimeInv, DriveInv, ConfirmInv, Drives
<1> QED
  BY <1>1, <1>2, <1>3, <1>4, StartKeeps, ConfirmKeeps, TimeoutKeeps DEF NextRuntime, Settled

LEMMA RuntimeSafe == RuntimeInv => DecidedOnce /\ OneRunDrives
<1>1. RuntimeInv => DecidedOnce
  BY DEF RuntimeInv, ConfirmInv, DecidedOnce
<1>2. RuntimeInv => OneRunDrives
  <2> DEFINE drivers == {c \in Chats : Drives(c)}
  <2> SUFFICES ASSUME RuntimeInv
               PROVE  Cardinality(drivers) <= 1
    BY DEF OneRunDrives, Drives
  <2>1. CASE drivers = {}
    BY <2>1, FS_EmptySet
  <2>2. CASE drivers # {}
    <3>1. PICK c \in Chats : Drives(c)
      BY <2>2
    <3>2. drivers = {c}
      BY <3>1 DEF RuntimeInv, DriveInv
    <3>3. Cardinality({c}) = 1
      BY FS_Singleton
    <3> QED
      BY <3>2, <3>3
  <2> QED
    BY <2>1, <2>2
<1> QED
  BY <1>1, <1>2

(* A confirmation is decided once, however its answers and its timer race   *)
(* (resolve and _auto_timeout in confirm_manager.py).                       *)
THEOREM ConfirmationsDecidedOnce == SpecRuntime => []DecidedOnce
<1>1. InitRuntime => RuntimeInv
  BY RuntimeInit
<1>2. RuntimeInv /\ [NextRuntime]_varsRuntime => RuntimeInv'
  BY RuntimeStep
<1>3. RuntimeInv => DecidedOnce
  BY RuntimeSafe
<1> QED
  BY <1>1, <1>2, <1>3, PTL DEF SpecRuntime

(* Two requests never drive the shared machine at the same time, for any    *)
(* number of chats and any plans (get_runtime_executor, agent_state.py).     *)
THEOREM OneRunAtATime == SpecRuntime => []OneRunDrives
<1>1. InitRuntime => RuntimeInv
  BY RuntimeInit
<1>2. RuntimeInv /\ [NextRuntime]_varsRuntime => RuntimeInv'
  BY RuntimeStep
<1>3. RuntimeInv => OneRunDrives
  BY RuntimeSafe
<1> QED
  BY <1>1, <1>2, <1>3, PTL DEF SpecRuntime

-----------------------------------------------------------------------------
(* Dashboards: what the cached data of a widget may be.                     *)

CONSTANTS Rows, CreatedBy, Users, Nobody, Configs, Bad, Values, Ttl, MaxNow, MaxWrites
VARIABLES data, policy, perm, widget, public, publisher, publishing, redisUp, client, avoid,
          remote, local, now, writes, req, pending, lately, disturbed
D == INSTANCE Dashboards

(* A cached entry lives for some time (DashboardCacheTTL.WIDGET_DATA).       *)
TtlIsPositive == Ttl \in Nat \ {0}

Pairs == SUBSET (Rows \X Values)
Entries == [rows : Pairs, exp : Int]
DashRequests ==
    [phase : {"idle", "checked", "missed", "computed", "done"}, as : D!Visitors,
     key : Configs \cup {D!Draft}, scope : SUBSET Rows, own : BOOLEAN, rows : Pairs, age : {0, 1}]

DashTypes ==
    /\ data \in [Rows -> Values] /\ perm \in [Users -> {"manage", "read", "none"}]
    /\ publisher \in D!Visitors /\ publishing \subseteq [by : Users, on : BOOLEAN]
    /\ remote \in [Configs -> Entries] /\ local \in [Configs -> Entries]
    /\ req \in [D!Visitors -> DashRequests]
    /\ now \in Int /\ pending \in Nat /\ redisUp \in BOOLEAN /\ disturbed \in BOOLEAN

(* The rows of the table at a time not before t, filtered by a key. *)
SeenSince(t, key, rows) == \E x \in lately : x.at >= t /\ rows = D!Passing(x.data, key, Rows)

(* A cached entry that is alive was computed less than its lifetime and the  *)
(* one tick of its request ago.                                             *)
EntryRecent(k, e) == e # D!NoEntry /\ D!Alive(e) => SeenSince(e.exp - Ttl - 1, k, e.rows)
CachesRecent ==
    /\ [at |-> now, data |-> data] \in lately /\ \A x \in lately : x.at \in Int
    /\ \A k \in Configs : EntryRecent(k, remote[k]) /\ EntryRecent(k, local[k])

(* A request of a restricted user never has other rows than that user's, and *)
(* is answered without the cache; any other one has the whole table.        *)
RequestFair(v, r) ==
    /\ r.phase # "idle" /\ v # Nobody => r.as = v
    /\ r.phase # "idle" => r.key \in Configs
    /\ r.own => r.phase \in {"checked", "done"}
    /\ r.own /\ r.phase = "checked" => \A x \in r.scope : CreatedBy[x] = r.as
    /\ r.own /\ r.phase = "done" => \A x \in r.rows : CreatedBy[x[1]] = r.as
    /\ ~r.own /\ r.phase \in {"checked", "missed", "computed"} => r.scope = Rows
    /\ r.phase = "computed" => SeenSince(now - r.age, r.key, r.rows)
    /\ ~r.own /\ r.phase = "done" => SeenSince(now - Ttl, r.key, r.rows)
RequestsFair == \A v \in D!Visitors : RequestFair(v, req[v])

(* While nothing disturbs the cache and no invalidation is due, Redis and    *)
(* the requests under way have the rows of now.                             *)
QuietExact ==
    ~disturbed /\ pending = 0 =>
      /\ \A k \in Configs : remote[k] # D!NoEntry => remote[k].rows = D!Passing(data, k, Rows)
      /\ \A v \in D!Visitors : req[v].phase = "computed" =>
           req[v].rows = D!Passing(data, req[v].key, Rows)

DashInv == DashTypes /\ CachesRecent /\ RequestsFair /\ QuietExact

LEMMA DashInit == TtlIsPositive /\ D!InitDash => DashInv
<1> SUFFICES ASSUME TtlIsPositive, D!InitDash PROVE DashInv
  OBVIOUS
<1>1. data \in [Rows -> Values]
  BY DEF D!InitDash
<1>2. D!NoEntry \in Entries
  BY DEF D!NoEntry, Entries, Pairs
<1>3. D!Idle \in DashRequests
  BY DEF D!Idle, DashRequests, Pairs, D!Visitors
<1>4. DashTypes
  <2>1. perm \in [Users -> {"manage", "read", "none"}]
    BY DEF D!InitDash
  <2>2. remote \in [Configs -> Entries] /\ local \in [Configs -> Entries]
    BY <1>2 DEF D!InitDash
  <2>3. req \in [D!Visitors -> DashRequests]
    BY <1>3 DEF D!InitDash
  <2>4. publisher \in D!Visitors /\ publishing \subseteq [by : Users, on : BOOLEAN]
    BY DEF D!InitDash, D!Visitors
  <2>5. now \in Int /\ pending \in Nat
    BY DEF D!InitDash
  <2>6. redisUp \in BOOLEAN /\ disturbed \in BOOLEAN
    BY Zenon DEF D!InitDash
  <2> QED
    BY <1>1, <2>1, <2>2, <2>3, <2>4, <2>5, <2>6 DEF DashTypes
<1>5. CachesRecent
  BY DEF D!InitDash, CachesRecent, EntryRecent
<1>6. RequestsFair
  BY DEF D!InitDash, RequestsFair, RequestFair, D!Idle
<1>7. QuietExact
  BY DEF D!InitDash, QuietExact, D!Idle
<1> QED
  BY <1>4, <1>5, <1>6, <1>7 DEF DashInv

LEMMA DashSafe ==
  ASSUME TtlIsPositive, DashInv
  PROVE  D!HiddenRowsStayHidden /\ D!AnswersAreRecent /\ D!QuietCacheExact
<1>1. D!HiddenRowsStayHidden
  BY DEF DashInv, RequestsFair, RequestFair, D!HiddenRowsStayHidden
<1>2. D!AnswersAreRecent
  BY DEF DashInv, RequestsFair, RequestFair, D!AnswersAreRecent, SeenSince
<1>3. D!QuietCacheExact
  BY DEF DashInv, QuietExact, D!QuietCacheExact
<1> QED
  BY <1>1, <1>2, <1>3

(* An entry or a request that was recent stays so as long as no time passes. *)
LEMMA SeenStays ==
  ASSUME NEW t, NEW k, NEW rows, SeenSince(t, k, rows), lately \subseteq lately'
  PROVE  SeenSince(t, k, rows)'
BY DEF SeenSince

(* Writers change no request, and clear entries or leave them. *)
LEMMA WriterKeeps ==
  ASSUME DashInv, DashTypes', now' = now, req' = req, lately \subseteq lately',
         [at |-> now', data |-> data'] \in lately', \A x \in lately' : x.at \in Int,
         \A k \in Configs : remote'[k] \in {remote[k], D!NoEntry} /\ local'[k] \in {local[k], D!NoEntry}
  PROVE  CachesRecent' /\ RequestsFair'
<1>1. CachesRecent'
  <2>1. ASSUME NEW k \in Configs, NEW e, EntryRecent(k, e)
        PROVE  EntryRecent(k, e)'
    BY <2>1, SeenStays DEF EntryRecent, D!Alive
  <2>2. \A k \in Configs : EntryRecent(k, D!NoEntry)'
    BY DEF EntryRecent
  <2>3. ASSUME NEW k \in Configs
        PROVE  EntryRecent(k, remote[k])' /\ EntryRecent(k, local[k])'
    <3>1. EntryRecent(k, remote[k]) /\ EntryRecent(k, local[k])
      BY DEF DashInv, CachesRecent
    <3> QED
      BY <3>1 DEF EntryRecent, SeenSince, D!Alive
  <2> QED
    BY <2>3 DEF CachesRecent
<1>2. RequestsFair'
  <2>1. ASSUME NEW v \in D!Visitors
        PROVE  RequestFair(v, req[v])'
    <3>1. RequestFair(v, req[v])
      BY DEF DashInv, RequestsFair
    <3> QED
      BY <3>1 DEF RequestFair, SeenSince
  <2> QED
    BY <2>1 DEF RequestsFair
<1> QED
  BY <1>1, <1>2

-----------------------------------------------------------------------------
(* The steps that change no request *)

DashWriters ==
    \/ \E r \in Rows, w \in Values : D!WriteRecord(r, w) \/ D!WriteQuietly(r, w)
    \/ D!PublishTableUpdate \/ D!RedisFails \/ D!RedisReturns
    \/ \E m \in {"all", "creator"} : D!SetPolicy(m)
    \/ \E u \in Users : \/ \E p \in {"manage", "read", "none"} : D!SetPermission(u, p)
                        \/ \E on \in BOOLEAN : D!SetPublic(u, on)
    \/ \E c \in Configs : D!UpdateWidget(c)
    \/ \E p \in publishing : D!SetPublisher(p)

(* What a deletion by pattern does to the entries; one that met nothing     *)
(* that disturbs it leaves none in Redis.                                   *)
LEMMA DeletionClears ==
  ASSUME DashTypes, D!DeleteAll
  PROVE  /\ \A k \in Configs : remote'[k] \in {remote[k], D!NoEntry} /\ local'[k] \in {local[k], D!NoEntry}
         /\ remote' \in [Configs -> Entries] /\ local' \in [Configs -> Entries]
         /\ ~ D!Disturbs => /\ \A k \in Configs : remote'[k] = D!NoEntry
                            /\ \A v \in D!Visitors : req[v].phase # "computed"
<1>1. D!NoEntry \in Entries
  BY DEF D!NoEntry, Entries, Pairs
<1>2. remote' \in {remote, [k \in Configs |-> D!NoEntry]} /\ local' \in {local, [k \in Configs |-> D!NoEntry]}
  BY DEF D!DeleteAll
<1>3. ~ D!Disturbs => remote' = [k \in Configs |-> D!NoEntry]
  BY DEF D!DeleteAll, D!Disturbs
<1>4. ~ D!Disturbs => \A v \in D!Visitors : req[v].phase # "computed"
  BY DEF D!Disturbs, D!HoldsOldRows
<1> QED
  BY <1>1, <1>2, <1>3, <1>4 DEF DashTypes

LEMMA DisturbsIsBoolean == DashTypes => D!Disturbs \in BOOLEAN
  BY DEF D!Disturbs

(* A step of a writer that leaves the cache alone. *)
LEMMA CacheKept ==
  ASSUME DashTypes, remote' = remote, local' = local
  PROVE  /\ \A k \in Configs : remote'[k] \in {remote[k], D!NoEntry} /\ local'[k] \in {local[k], D!NoEntry}
         /\ remote' \in [Configs -> Entries] /\ local' \in [Configs -> Entries]
BY DEF DashTypes

(* A changed record: the new contents join those of late, and either the    *)
(* invalidation is due or the cache counts as disturbed.                    *)
LEMMA WriteSteps ==
  ASSUME DashInv, NEW r \in Rows, NEW w \in Values, D!WriteRecord(r, w) \/ D!WriteQuietly(r, w)
  PROVE  DashInv'
<1>1. /\ data' = [data EXCEPT ![r] = w] /\ lately' = lately \cup {[at |-> now, data |-> data']}
      /\ perm' = perm /\ publisher' = publisher /\ publishing' = publishing /\ remote' = remote
      /\ local' = local /\ req' = req /\ now' = now /\ redisUp' = redisUp
  BY DEF D!WriteRecord, D!WriteQuietly, D!Write, D!metaVars, D!cacheVars
<1>2. (pending' = pending + 1 /\ disturbed' = disturbed) \/ (pending' = pending /\ disturbed' = TRUE)
  BY DEF D!WriteRecord, D!WriteQuietly
<1>3. DashTypes /\ now \in Int
  BY DEF DashInv, DashTypes
<1>4. DashTypes'
  <2>1. data' \in [Rows -> Values]
    BY <1>1, <1>3 DEF DashTypes
  <2>2. pending' \in Nat
    BY <1>2, <1>3 DEF DashTypes
  <2>3. disturbed' \in BOOLEAN
    BY <1>2, <1>3, Zenon DEF DashTypes
  <2> QED
    BY <1>1, <1>3, <2>1, <2>2, <2>3 DEF DashTypes
<1>5. \A x \in lately' : x.at \in Int
  BY <1>1, <1>3 DEF DashInv, CachesRecent
<1>6. CachesRecent' /\ RequestsFair'
  BY <1>1, <1>3, <1>4, <1>5, CacheKept, WriterKeeps
<1>7. QuietExact'
  BY <1>2, <1>3 DEF QuietExact, DashTypes
<1> QED
  BY <1>4, <1>6, <1>7 DEF DashInv

(* A writer that leaves the rows alone. *)
LEMMA QuietWriters ==
  ASSUME DashInv, data' = data, now' = now, req' = req, lately' = lately,
         perm' \in [Users -> {"manage", "read", "none"}], publisher' \in D!Visitors,
         publishing' \subseteq [by : Users, on : BOOLEAN], pending' \in Nat, redisUp' \in BOOLEAN,
         disturbed' \in BOOLEAN,
         \/ /\ remote' = remote /\ local' = local
            /\ disturbed' = FALSE => disturbed = FALSE
            /\ pending' = 0 => pending = 0
         \/ D!DeleteAll /\ disturbed' = D!Disturbs
  PROVE  DashInv'
<1>1. DashTypes /\ now \in Int
  BY DEF DashInv, DashTypes
<1>2. /\ \A k \in Configs : remote'[k] \in {remote[k], D!NoEntry} /\ local'[k] \in {local[k], D!NoEntry}
      /\ remote' \in [Configs -> Entries] /\ local' \in [Configs -> Entries]
  BY <1>1, CacheKept, DeletionClears
<1>3. DashTypes'
  BY <1>1, <1>2 DEF DashTypes
<1>4. [at |-> now', data |-> data'] \in lately' /\ \A x \in lately' : x.at \in Int
  BY DEF DashInv, CachesRecent
<1>5. CachesRecent' /\ RequestsFair'
  BY <1>2, <1>3, <1>4, WriterKeeps
<1>6. QuietExact'
  <2>1. CASE remote' = remote /\ (disturbed' = FALSE => disturbed = FALSE) /\ (pending' = 0 => pending = 0)
    BY <2>1, <1>3 DEF DashInv, QuietExact, DashTypes
  <2>2. CASE D!DeleteAll /\ disturbed' = D!Disturbs
    BY <2>2, <1>1, DeletionClears DEF QuietExact
  <2> QED
    BY <2>1, <2>2
<1> QED
  BY <1>3, <1>5, <1>6 DEF DashInv

LEMMA WriterSteps == DashInv /\ DashWriters => DashInv'
<1> SUFFICES ASSUME DashInv, DashWriters PROVE DashInv'
  OBVIOUS
<1>1. DashTypes
  BY DEF DashInv
<1>2. ASSUME NEW r \in Rows, NEW w \in Values, D!WriteRecord(r, w) \/ D!WriteQuietly(r, w)
      PROVE  DashInv'
  BY <1>2, WriteSteps
<1>3. CASE D!PublishTableUpdate
  BY <1>3, <1>1, QuietWriters, DisturbsIsBoolean DEF D!PublishTableUpdate, D!metaVars, DashTypes
<1>4. CASE D!RedisFails
  BY <1>4, <1>1, QuietWriters DEF D!RedisFails, D!metaVars, D!cacheVars, DashTypes
<1>5. CASE D!RedisReturns
  BY <1>5, <1>1, QuietWriters DEF D!RedisReturns, D!metaVars, D!cacheVars, DashTypes
<1>6. ASSUME NEW m \in {"all", "creator"}, D!SetPolicy(m)
      PROVE  DashInv'
  <2>1. pending' \in Nat /\ (pending' = 0 => pending = 0)
    BY <1>6, <1>1 DEF D!SetPolicy, DashTypes
  <2> QED
    BY <1>6, <1>1, <2>1, QuietWriters DEF D!SetPolicy, D!metaVars, D!cacheVars, DashTypes
<1>7. ASSUME NEW u \in Users, NEW p \in {"manage", "read", "none"}, D!SetPermission(u, p)
      PROVE  DashInv'
  <2>1. perm' \in [Users -> {"manage", "read", "none"}]
    BY <1>7, <1>1 DEF D!SetPermission, DashTypes
  <2> QED
    BY <1>7, <1>1, <2>1, QuietWriters DEF D!SetPermission, D!metaVars, D!cacheVars, DashTypes
<1>8. ASSUME NEW u \in Users, NEW on \in BOOLEAN, D!SetPublic(u, on)
      PROVE  DashInv'
  <2>1. publishing' \subseteq [by : Users, on : BOOLEAN]
    BY <1>8 DEF D!SetPublic
  <2> QED
    BY <1>8, <1>1, <2>1, QuietWriters DEF D!SetPublic, D!cacheVars, DashTypes
<1>9. ASSUME NEW c \in Configs, D!UpdateWidget(c)
      PROVE  DashInv'
  BY <1>9, <1>1, QuietWriters, DisturbsIsBoolean DEF D!UpdateWidget, DashTypes
<1>10. ASSUME NEW p \in publishing, D!SetPublisher(p)
       PROVE  DashInv'
  <2>1. publisher' \in D!Visitors /\ publishing' \subseteq [by : Users, on : BOOLEAN]
    BY <1>10, <1>1 DEF D!SetPublisher, DashTypes, D!Visitors
  <2> QED
    BY <1>10, <1>1, <2>1, QuietWriters, DisturbsIsBoolean DEF D!SetPublisher, DashTypes
<1> QED
  BY <1>2, <1>3, <1>4, <1>5, <1>6, <1>7, <1>8, <1>9, <1>10 DEF DashWriters

-----------------------------------------------------------------------------
(* The steps of one request *)

(* A step that changes one request and leaves the contents, the time and    *)
(* the permissions alone.                                                   *)
LEMMA RequestStep ==
  ASSUME DashInv, NEW v \in D!Visitors, NEW e \in DashRequests, RequestFair(v, e),
         req' = [req EXCEPT ![v] = e], data' = data, now' = now, lately' = lately, perm' = perm,
         publisher' = publisher, publishing' = publishing, pending' = pending, redisUp' = redisUp,
         disturbed' = disturbed,
         remote' \in [Configs -> Entries], local' \in [Configs -> Entries],
         \A k \in Configs : EntryRecent(k, remote'[k]) /\ EntryRecent(k, local'[k]),
         ~ disturbed /\ pending = 0 =>
            /\ \A k \in Configs : remote'[k] # D!NoEntry => remote'[k].rows = D!Passing(data, k, Rows)
            /\ e.phase = "computed" => e.rows = D!Passing(data, e.key, Rows)
  PROVE  DashInv'
<1>1. DashTypes'
  BY DEF DashInv, DashTypes
<1>2. CachesRecent'
  <2>1. ASSUME NEW k \in Configs
        PROVE  EntryRecent(k, remote[k])' /\ EntryRecent(k, local[k])'
    BY DEF EntryRecent, SeenSince, D!Alive
  <2> QED
    BY <2>1 DEF DashInv, CachesRecent
<1>3. req \in [D!Visitors -> DashRequests]
  BY DEF DashInv, DashTypes
<1>4. \A x \in D!Visitors : req'[x] = IF x = v THEN e ELSE req[x]
  BY <1>3
<1>5. RequestsFair'
  <2>1. ASSUME NEW x \in D!Visitors
        PROVE  RequestFair(x, req[x])'
    <3>1. RequestFair(x, req'[x])
      BY <1>4 DEF DashInv, RequestsFair
    <3> QED
      BY <3>1 DEF RequestFair, SeenSince
  <2> QED
    BY <2>1 DEF RequestsFair
<1>6. QuietExact'
  BY <1>4 DEF DashInv, QuietExact
<1> QED
  BY <1>1, <1>2, <1>5, <1>6 DEF DashInv

(* ... and leaves the cached entries alone, too. *)
LEMMA RequestOnly ==
  ASSUME DashInv, NEW v \in D!Visitors, NEW e \in DashRequests, RequestFair(v, e),
         req' = [req EXCEPT ![v] = e], data' = data, now' = now, lately' = lately, perm' = perm,
         publisher' = publisher, publishing' = publishing, pending' = pending, redisUp' = redisUp,
         disturbed' = disturbed, remote' = remote, local' = local,
         e.phase = "computed" => e.rows = D!Passing(data, e.key, Rows)
  PROVE  DashInv'
<1>1. remote' \in [Configs -> Entries] /\ local' \in [Configs -> Entries]
  BY DEF DashInv, DashTypes
<1>2. \A k \in Configs : EntryRecent(k, remote'[k]) /\ EntryRecent(k, local'[k])
  BY DEF DashInv, CachesRecent
<1>3. ~ disturbed /\ pending = 0 =>
        \A k \in Configs : remote'[k] # D!NoEntry => remote'[k].rows = D!Passing(data, k, Rows)
  BY DEF DashInv, QuietExact
<1> QED
  BY <1>1, <1>2, <1>3, RequestStep

(* What passes a filter is made of the rows it was taken from. *)
LEMMA PassingPairs ==
  ASSUME data \in [Rows -> Values], NEW key, NEW scope \in SUBSET Rows
  PROVE  D!Passing(data, key, scope) \in Pairs /\ \A x \in D!Passing(data, key, scope) : x[1] \in scope
BY DEF D!Passing, Pairs

LEMMA VisibleRows ==
  ASSUME NEW u
  PROVE  /\ D!VisibleTo(u) \in SUBSET Rows
         /\ D!Restricts(u) => \A x \in D!VisibleTo(u) : CreatedBy[x] = u
         /\ ~ D!Restricts(u) => D!VisibleTo(u) = Rows
         /\ D!Restricts(u) \in BOOLEAN
         /\ \A key : D!PassingRecords(u, key) = D!Passing(data, key, D!VisibleTo(u))
BY DEF D!VisibleTo, D!Restricts, D!PassingRecords, D!Passing

LEMMA BeginStep ==
  ASSUME DashInv, NEW v \in D!Visitors, NEW f \in Configs, D!Begin(v, f)
  PROVE  DashInv'
<1> DEFINE e == [D!Idle EXCEPT !.phase = "checked", !.as = D!Actor(v), !.key = f,
                 !.scope = D!VisibleTo(D!Actor(v)), !.own = D!Restricts(D!Actor(v))]
<1>1. D!Actor(v) \in D!Visitors /\ (v # Nobody => D!Actor(v) = v)
  BY DEF D!Actor, DashInv, DashTypes
<1>2. /\ e.phase = "checked" /\ e.as = D!Actor(v) /\ e.key = f /\ e.scope = D!VisibleTo(D!Actor(v))
      /\ e.own = D!Restricts(D!Actor(v))
  BY DEF D!Idle
<1>3. req' = [req EXCEPT ![v] = e]
  BY DEF D!Begin
<1>4. e \in DashRequests
  <2> DEFINE as == D!Actor(v)
             scope == D!VisibleTo(D!Actor(v))
             own == D!Restricts(D!Actor(v))
  <2>1. as \in D!Visitors /\ scope \in SUBSET Rows /\ own \in BOOLEAN
    BY <1>1, VisibleRows
  <2>2. e = [D!Idle EXCEPT !.phase = "checked", !.as = as, !.key = f, !.scope = scope, !.own = own]
    OBVIOUS
  <2> HIDE DEF e, as, scope, own
  <2> QED
    BY <2>1, <2>2 DEF D!Idle, DashRequests, Pairs
<1> HIDE DEF e
<1>5. RequestFair(v, e)
  BY <1>1, <1>2, VisibleRows DEF RequestFair
<1> QED
  BY <1>2, <1>3, <1>4, <1>5, RequestOnly DEF D!Begin, D!metaVars, D!cacheVars

LEMMA LeaveStep ==
  ASSUME DashInv, NEW v \in D!Visitors, D!Leave(v)
  PROVE  DashInv'
<1>1. D!Idle \in DashRequests
  BY DEF D!Idle, DashRequests, Pairs, D!Visitors
<1>2. RequestFair(v, D!Idle) /\ D!Idle.phase = "idle"
  BY DEF RequestFair, D!Idle
<1> QED
  BY <1>1, <1>2, RequestOnly DEF D!Leave, D!metaVars, D!cacheVars

(* What a request of no restricted user becomes when it is answered. *)
LEMMA AnswerFair ==
  ASSUME DashTypes, NEW v \in D!Visitors, RequestFair(v, req[v]), NEW rows \in Pairs,
         req[v].phase # "idle", ~ req[v].own, SeenSince(now - Ttl, req[v].key, rows)
  PROVE  \E e \in DashRequests : /\ D!Answered(v, rows) = [req EXCEPT ![v] = e]
                                 /\ RequestFair(v, e) /\ e.phase = "done"
<1> DEFINE r == req[v]
           e == [r EXCEPT !.phase = "done", !.rows = rows]
<1>1. r \in DashRequests
  BY DEF DashTypes
<1>2. D!Answered(v, rows) = [req EXCEPT ![v] = e]
  BY DEF D!Answered, DashTypes
<1>3. RequestFair(v, r) /\ r.phase # "idle" /\ ~ r.own /\ SeenSince(now - Ttl, r.key, rows)
  OBVIOUS
<1> HIDE DEF r
<1>4. /\ e.phase = "done" /\ e.as = r.as /\ e.key = r.key /\ e.own = r.own /\ e.rows = rows
  BY <1>1 DEF DashRequests
<1>5. e \in DashRequests
  BY <1>1 DEF DashRequests
<1> HIDE DEF e
<1>6. RequestFair(v, e)
  BY <1>3, <1>4 DEF RequestFair
<1>7. e.phase = "done"
  BY <1>4
<1> QED
  BY <1>2, <1>5, <1>6, <1>7

(* A request that only gets further, and nothing more. *)
LEMMA PhaseFair ==
  ASSUME DashTypes, NEW v \in D!Visitors, RequestFair(v, req[v]), req[v].phase # "idle", ~ req[v].own
  PROVE  \E e \in DashRequests : /\ [req EXCEPT ![v].phase = "missed"] = [req EXCEPT ![v] = e]
                                 /\ req[v].scope = Rows => RequestFair(v, e)
                                 /\ e.phase = "missed"
<1> DEFINE r == req[v]
           e == [r EXCEPT !.phase = "missed"]
<1>1. r \in DashRequests
  BY DEF DashTypes
<1>2. [req EXCEPT ![v].phase = "missed"] = [req EXCEPT ![v] = e]
  BY DEF DashTypes
<1>3. RequestFair(v, r) /\ r.phase # "idle" /\ ~ r.own
  OBVIOUS
<1> HIDE DEF r
<1>4. e.phase = "missed" /\ e.as = r.as /\ e.key = r.key /\ e.own = r.own /\ e.scope = r.scope
  BY <1>1 DEF DashRequests
<1>5. e \in DashRequests
  BY <1>1 DEF DashRequests
<1> HIDE DEF e
<1>6. r.scope = Rows => RequestFair(v, e)
  BY <1>3, <1>4 DEF RequestFair
<1> QED
  BY <1>2, <1>4, <1>5, <1>6 DEF r

(* An entry that is found is recent enough to be the answer. *)
LEMMA FoundIsRecent ==
  ASSUME TtlIsPositive, DashInv, NEW k \in Configs, D!Found(k)
  PROVE  /\ (IF D!UsesRemote THEN remote ELSE local)[k].rows \in Pairs
         /\ SeenSince(now - Ttl, k, (IF D!UsesRemote THEN remote ELSE local)[k].rows)
<1> DEFINE e == (IF D!UsesRemote THEN remote ELSE local)[k]
<1>1. e \in Entries /\ EntryRecent(k, e)
  BY DEF DashInv, DashTypes, CachesRecent
<1>2. e # D!NoEntry /\ e.exp > now
  BY DEF D!Found, D!Alive
<1>3. now \in Int /\ \A x \in lately : x.at \in Int
  BY DEF DashInv, DashTypes, CachesRecent
<1> HIDE DEF e
<1>4. e.exp \in Int /\ e.rows \in Pairs
  BY <1>1 DEF Entries
<1>5. SeenSince(e.exp - Ttl - 1, k, e.rows)
  BY <1>1, <1>2 DEF EntryRecent, D!Alive
<1>6. SeenSince(now - Ttl, k, e.rows)
  BY <1>2, <1>3, <1>4, <1>5 DEF SeenSince, TtlIsPositive
<1> QED
  BY <1>4, <1>6 DEF e

LEMMA LookupStep ==
  ASSUME TtlIsPositive, DashInv, NEW v \in D!Visitors, D!Lookup(v)
  PROVE  DashInv'
<1>1. DashTypes /\ RequestFair(v, req[v]) /\ req[v].phase = "checked" /\ ~ req[v].own
  BY DEF DashInv, RequestsFair, D!Lookup, D!LooksUp
<1>2. req[v].key \in Configs /\ req[v].scope = Rows
  BY <1>1 DEF RequestFair
<1>3. CASE req' = [req EXCEPT ![v].phase = "missed"]
  <2>1. PICK e \in DashRequests : req' = [req EXCEPT ![v] = e] /\ RequestFair(v, e) /\ e.phase = "missed"
    BY <1>1, <1>2, <1>3, PhaseFair
  <2> QED
    BY <2>1, RequestOnly DEF D!Lookup, D!metaVars
<1>4. CASE /\ D!Found(req[v].key)
           /\ req' = D!Answered(v, (IF D!UsesRemote THEN remote ELSE local)[req[v].key].rows)
  <2> DEFINE rows == (IF D!UsesRemote THEN remote ELSE local)[req[v].key].rows
  <2>1. rows \in Pairs /\ SeenSince(now - Ttl, req[v].key, rows)
    BY <1>2, <1>4, FoundIsRecent
  <2> HIDE DEF rows
  <2>2. PICK e \in DashRequests : D!Answered(v, rows) = [req EXCEPT ![v] = e] /\ RequestFair(v, e) /\ e.phase = "done"
    BY <1>1, <2>1, AnswerFair
  <2>3. req' = [req EXCEPT ![v] = e]
    BY <1>4, <2>2 DEF rows
  <2> QED
    BY <2>2, <2>3, RequestOnly DEF D!Lookup, D!metaVars
<1> QED
  BY <1>3, <1>4 DEF D!Lookup

LEMMA ComputeStep ==
  ASSUME TtlIsPositive, DashInv, NEW v \in D!Visitors, D!Compute(v)
  PROVE  DashInv'
<1> DEFINE r == req[v]
           rows == D!Passing(data, r.key, r.scope)
           e == [r EXCEPT !.phase = IF r.own THEN "done" ELSE "computed", !.rows = rows]
<1>1. /\ DashTypes /\ RequestFair(v, r) /\ now \in Int /\ [at |-> now, data |-> data] \in lately
      /\ r.phase = IF r.own THEN "checked" ELSE "missed"
  BY DEF DashInv, DashTypes, RequestsFair, CachesRecent, D!Compute
<1>2. r \in DashRequests
  BY <1>1 DEF DashTypes
<1>3. rows \in Pairs /\ \A x \in rows : x[1] \in r.scope
  <2>1. r.scope \in SUBSET Rows
    BY <1>2 DEF DashRequests
  <2> QED
    BY <1>1, <2>1, PassingPairs DEF DashTypes
<1>4. req' = [req EXCEPT ![v] = e]
  BY <1>1 DEF D!Compute, D!Answered, DashTypes
<1>5. D!Passing(data, r.key, r.scope) = rows
  OBVIOUS
<1> HIDE DEF r, rows
<1>6. /\ e.phase = (IF r.own THEN "done" ELSE "computed") /\ e.as = r.as /\ e.key = r.key
      /\ e.own = r.own /\ e.scope = r.scope /\ e.rows = rows /\ e.age = r.age
  BY <1>2 DEF DashRequests
<1>7. e \in DashRequests
  BY <1>2, <1>3 DEF DashRequests
<1> HIDE DEF e
<1>8. r.age \in {0, 1}
  BY <1>2 DEF DashRequests
<1>9. ~ r.own => SeenSince(now - r.age, r.key, rows) /\ r.scope = Rows
  <2>1. SUFFICES ASSUME ~ r.own
                 PROVE  SeenSince(now - r.age, r.key, rows) /\ r.scope = Rows
    OBVIOUS
  <2>2. r.scope = Rows
    BY <1>1, <2>1 DEF RequestFair
  <2> QED
    BY <1>1, <1>5, <1>8, <2>2 DEF SeenSince
<1>10. RequestFair(v, e)
  <2>1. CASE r.own
    BY <2>1, <1>1, <1>3, <1>6 DEF RequestFair
  <2>2. CASE ~ r.own
    BY <2>2, <1>1, <1>6, <1>9 DEF RequestFair
  <2> QED
    BY <2>1, <2>2
<1>11. e.phase = "computed" => e.rows = D!Passing(data, e.key, Rows)
  BY <1>5, <1>6, <1>9
<1> QED
  BY <1>4, <1>7, <1>10, <1>11, RequestOnly DEF D!Compute, D!metaVars, D!cacheVars

LEMMA ComputeFailsStep ==
  ASSUME TtlIsPositive, DashInv, NEW v \in D!Visitors, D!ComputeFails(v)
  PROVE  DashInv'
<1>1. CASE req' = [req EXCEPT ![v] = D!Idle]
  <2>1. D!Idle \in DashRequests
    BY DEF D!Idle, DashRequests, Pairs, D!Visitors
  <2>2. RequestFair(v, D!Idle) /\ D!Idle.phase = "idle"
    BY DEF RequestFair, D!Idle
  <2> QED
    BY <1>1, <2>1, <2>2, RequestOnly DEF D!ComputeFails, D!metaVars, D!cacheVars
<1>2. CASE v # Nobody /\ req' # [req EXCEPT ![v] = D!Idle]
  <2> DEFINE r == req[v]
             own == D!Restricts(v)
             rows == D!PassingRecords(v, r.key)
             e == [r EXCEPT !.phase = "done", !.own = own, !.rows = rows]
  <2>1. /\ DashTypes /\ RequestFair(v, r) /\ now \in Int /\ [at |-> now, data |-> data] \in lately
        /\ r.phase \in {"checked", "missed"}
    BY DEF DashInv, DashTypes, RequestsFair, CachesRecent, D!ComputeFails
  <2>2. r \in DashRequests
    BY <2>1 DEF DashTypes
  <2>3. req' = [req EXCEPT ![v] = e]
    BY <1>2, <2>1 DEF D!ComputeFails, DashTypes
  <2>4. rows = D!Passing(data, r.key, D!VisibleTo(v)) /\ own \in BOOLEAN /\ D!VisibleTo(v) \in SUBSET Rows
    BY VisibleRows
  <2>5. (own => \A x \in D!VisibleTo(v) : CreatedBy[x] = v) /\ (~ own => D!VisibleTo(v) = Rows)
    BY VisibleRows
  <2> HIDE DEF r, own, rows
  <2>6. rows \in Pairs /\ \A x \in rows : x[1] \in D!VisibleTo(v)
    BY <2>1, <2>4, PassingPairs DEF DashTypes
  <2>7. e.phase = "done" /\ e.as = r.as /\ e.key = r.key /\ e.own = own /\ e.rows = rows
    BY <2>2 DEF DashRequests
  <2>8. e \in DashRequests
    BY <2>2, <2>4, <2>6 DEF DashRequests
  <2> HIDE DEF e
  <2>9. ~ own => SeenSince(now - Ttl, r.key, rows)
    BY <2>1, <2>4, <2>5 DEF SeenSince, TtlIsPositive
  <2>10. r.as = v /\ r.key \in Configs
    BY <1>2, <2>1 DEF RequestFair
  <2>11. RequestFair(v, e)
    BY <2>5, <2>6, <2>7, <2>9, <2>10 DEF RequestFair
  <2> QED
    BY <2>3, <2>7, <2>8, <2>11, RequestOnly DEF D!ComputeFails, D!metaVars, D!cacheVars
<1> QED
  BY <1>1, <1>2 DEF D!ComputeFails

(* What a request stores was computed at most one tick ago, and lives Ttl    *)
(* ticks; while nothing disturbs the cache it is what the table holds now.  *)
LEMMA StoreStep ==
  ASSUME TtlIsPositive, DashInv, NEW v \in D!Visitors, D!Store(v)
  PROVE  DashInv'
<1> DEFINE r == req[v]
           new == D!Stored(r.rows)
<1>1. /\ DashTypes /\ RequestFair(v, r) /\ now \in Int /\ r.phase = "computed"
      /\ \A x \in lately : x.at \in Int
  BY DEF DashInv, DashTypes, RequestsFair, CachesRecent, D!Store
<1>2. r \in DashRequests
  BY <1>1 DEF DashTypes
<1>3. r.rows \in Pairs /\ r.age \in {0, 1}
  BY <1>2 DEF DashRequests
<1>4. r.key \in Configs /\ ~ r.own /\ SeenSince(now - r.age, r.key, r.rows)
  BY <1>1, <1>2 DEF RequestFair, DashRequests
<1>5. remote' \in {remote, [remote EXCEPT ![r.key] = new]} /\ local' \in {local, [local EXCEPT ![r.key] = new]}
  BY DEF D!Store
<1>6. req' = D!Answered(v, r.rows)
  BY DEF D!Store
<1>7. new \in Entries /\ new.rows = r.rows /\ new.exp = now + Ttl
  BY <1>1, <1>3 DEF D!Stored, Entries, TtlIsPositive
<1>8. ~ disturbed /\ pending = 0 => r.rows = D!Passing(data, r.key, Rows)
  BY <1>1 DEF DashInv, QuietExact
<1>9. PICK e \in DashRequests : D!Answered(v, r.rows) = [req EXCEPT ![v] = e] /\ RequestFair(v, e) /\ e.phase = "done"
  <2>1. SeenSince(now - Ttl, r.key, r.rows)
    BY <1>1, <1>3, <1>4 DEF SeenSince, TtlIsPositive
  <2>2. r.phase # "idle"
    BY <1>1
  <2> QED
    BY <1>1, <1>3, <1>4, <2>1, <2>2, AnswerFair
<1> HIDE DEF r, new
<1>10. EntryRecent(r.key, new)
  <2>1. SeenSince(new.exp - Ttl - 1, r.key, new.rows)
    BY <1>1, <1>3, <1>4, <1>7 DEF SeenSince, TtlIsPositive
  <2> QED
    BY <2>1 DEF EntryRecent
<1>11. remote' \in [Configs -> Entries] /\ local' \in [Configs -> Entries]
  BY <1>1, <1>5, <1>7 DEF DashTypes
<1>12. \A k \in Configs : EntryRecent(k, remote'[k]) /\ EntryRecent(k, local'[k])
  <2>1. SUFFICES ASSUME NEW k \in Configs
                 PROVE  EntryRecent(k, remote'[k]) /\ EntryRecent(k, local'[k])
    OBVIOUS
  <2>2. remote'[k] \in {remote[k], new} /\ (remote'[k] = new => k = r.key \/ remote[k] = new)
    BY <1>1, <1>5 DEF DashTypes
  <2>3. local'[k] \in {local[k], new} /\ (local'[k] = new => k = r.key \/ local[k] = new)
    BY <1>1, <1>5 DEF DashTypes
  <2>4. EntryRecent(k, remote[k]) /\ EntryRecent(k, local[k])
    BY DEF DashInv, CachesRecent
  <2> QED
    BY <1>10, <2>2, <2>3, <2>4
<1>13. ~ disturbed /\ pending = 0 =>
         \A k \in Configs : remote'[k] # D!NoEntry => remote'[k].rows = D!Passing(data, k, Rows)
  <2>1. SUFFICES ASSUME ~ disturbed, pending = 0, NEW k \in Configs, remote'[k] # D!NoEntry
                 PROVE  remote'[k].rows = D!Passing(data, k, Rows)
    OBVIOUS
  <2>2. remote'[k] = remote[k] \/ (k = r.key /\ remote'[k] = new)
    BY <1>1, <1>5 DEF DashTypes
  <2>3. remote[k] # D!NoEntry => remote[k].rows = D!Passing(data, k, Rows)
    BY <2>1 DEF DashInv, QuietExact
  <2> QED
    BY <1>7, <1>8, <2>1, <2>2, <2>3
<1> QED
  BY <1>6, <1>9, <1>11, <1>12, <1>13, RequestStep DEF D!Store, D!metaVars

(* A tick ages the requests, and drops the contents nobody may show again. *)
LEMMA TickStep ==
  ASSUME TtlIsPositive, DashInv, D!Tick
  PROVE  DashInv'
<1>1. /\ DashTypes /\ now \in Int /\ now' = now + 1 /\ data' = data /\ remote' = remote /\ local' = local
      /\ \A x \in lately : x.at \in Int
      /\ [at |-> now, data |-> data] \in lately
      /\ lately' = {x \in lately : x.at >= now' - Ttl} \cup {[at |-> now', data |-> data]}
  BY DEF DashInv, DashTypes, CachesRecent, D!Tick, D!cacheVars
<1>2. /\ \A v \in D!Visitors : req[v].phase # "done" /\ req[v].age = 0
      /\ req' = [v \in D!Visitors |-> IF req[v] = D!Idle THEN D!Idle ELSE [req[v] EXCEPT !.age = 1]]
  BY DEF D!Tick
<1> DEFINE SeenThen(t, k, rows) == \E x \in lately' : x.at >= t /\ rows = D!Passing(x.data, k, Rows)
<1>3. ASSUME NEW t \in Int, NEW k, NEW rows, SeenSince(t, k, rows), t >= now' - Ttl
      PROVE  SeenThen(t, k, rows)
  <2>1. PICK x \in lately : x.at >= t /\ rows = D!Passing(x.data, k, Rows)
    BY <1>3 DEF SeenSince
  <2>2. x \in lately'
    BY <1>1, <1>3, <2>1 DEF TtlIsPositive
  <2> QED
    BY <2>1, <2>2
<1>4. \A v \in D!Visitors :
        /\ req'[v] \in DashRequests
        /\ \/ req'[v] = req[v] /\ req[v] = D!Idle
           \/ /\ req'[v].phase = req[v].phase /\ req'[v].as = req[v].as /\ req'[v].key = req[v].key
              /\ req'[v].scope = req[v].scope /\ req'[v].own = req[v].own /\ req'[v].rows = req[v].rows
              /\ req'[v].age = 1
  <2> SUFFICES ASSUME NEW v \in D!Visitors
               PROVE  /\ req'[v] \in DashRequests
                      /\ \/ req'[v] = req[v] /\ req[v] = D!Idle
                         \/ /\ req'[v].phase = req[v].phase /\ req'[v].as = req[v].as /\ req'[v].key = req[v].key
                            /\ req'[v].scope = req[v].scope /\ req'[v].own = req[v].own
                            /\ req'[v].rows = req[v].rows /\ req'[v].age = 1
    OBVIOUS
  <2> DEFINE r == req[v]
             e == [r EXCEPT !.age = 1]
  <2>2. r \in DashRequests
    BY <1>1 DEF DashTypes
  <2>3. req'[v] = e \/ (req'[v] = r /\ r = D!Idle)
    BY <1>2
  <2> HIDE DEF r
  <2>4. /\ e.phase = r.phase /\ e.as = r.as /\ e.key = r.key /\ e.scope = r.scope /\ e.own = r.own
        /\ e.rows = r.rows /\ e.age = 1
    BY <2>2 DEF DashRequests
  <2>5. e \in DashRequests
    BY <2>2 DEF DashRequests
  <2> HIDE DEF e
  <2>6. CASE req'[v] = e
    BY <2>4, <2>5, <2>6 DEF r
  <2>7. CASE req'[v] = r /\ r = D!Idle
    BY <2>2, <2>7 DEF r
  <2> QED
    BY <2>3, <2>6, <2>7
<1>5. DashTypes'
  <2>1. req' \in [D!Visitors -> DashRequests]
    BY <1>2, <1>4
  <2> QED
    BY <1>1, <2>1 DEF DashTypes, D!Tick, D!metaVars
<1>6. CachesRecent'
  <2>1. ASSUME NEW k \in Configs, NEW e \in Entries, EntryRecent(k, e)
        PROVE  EntryRecent(k, e)'
    <3>1. SUFFICES ASSUME e # D!NoEntry, e.exp > now'
                   PROVE  SeenSince(e.exp - Ttl - 1, k, e.rows)'
      BY DEF EntryRecent, D!Alive
    <3>2. e.exp \in Int
      BY DEF Entries
    <3>3. SeenSince(e.exp - Ttl - 1, k, e.rows)
      BY <1>1, <2>1, <3>1, <3>2 DEF EntryRecent, D!Alive
    <3> QED
      BY <1>1, <1>3, <3>1, <3>2, <3>3 DEF TtlIsPositive, SeenSince
  <2>2. ASSUME NEW k \in Configs
        PROVE  EntryRecent(k, remote[k])' /\ EntryRecent(k, local[k])'
    <3>1. remote[k] \in Entries /\ local[k] \in Entries /\ EntryRecent(k, remote[k]) /\ EntryRecent(k, local[k])
      BY DEF DashInv, DashTypes, CachesRecent
    <3>2. EntryRecent(k, remote[k])' /\ EntryRecent(k, local[k])'
      BY <1>1, <2>1, <3>1
    <3> QED
      BY <3>2
  <2>3. [at |-> now', data |-> data'] \in lately' /\ \A x \in lately' : x.at \in Int
    BY <1>1
  <2> QED
    BY <2>2, <2>3 DEF CachesRecent
<1>7. RequestsFair'
  <2>1. ASSUME NEW v \in D!Visitors
        PROVE  RequestFair(v, req[v])'
    <3>1. RequestFair(v, req[v]) /\ req[v] \in DashRequests /\ req[v].phase # "done" /\ req[v].age = 0
      BY <1>1, <1>2 DEF DashInv, RequestsFair, DashTypes
    <3>2. CASE req[v] = D!Idle /\ req'[v] = req[v]
      <4>1. req'[v].phase = "idle" /\ req'[v].own = FALSE
        BY <3>2 DEF D!Idle
      <4> QED
        BY <4>1 DEF RequestFair
    <3>3. CASE /\ req'[v].phase = req[v].phase /\ req'[v].as = req[v].as
               /\ req'[v].key = req[v].key /\ req'[v].scope = req[v].scope
               /\ req'[v].own = req[v].own /\ req'[v].rows = req[v].rows /\ req'[v].age = 1
      <4>1. req[v].phase = "computed" => SeenThen(now, req[v].key, req[v].rows)
        <5>1. req[v].phase = "computed" => SeenSince(now, req[v].key, req[v].rows)
          BY <1>1, <3>1 DEF RequestFair
        <5> HIDE DEF SeenThen
        <5> QED
          BY <1>1, <1>3, <5>1 DEF TtlIsPositive
      <4> QED
        BY <1>1, <3>1, <3>3, <4>1 DEF RequestFair, SeenSince
    <3> QED
      BY <1>2, <1>4, <3>1, <3>2, <3>3
  <2> QED
    BY <2>1 DEF RequestsFair
<1>8. QuietExact'
  <2>1. disturbed' = disturbed /\ pending' = pending
    BY DEF D!Tick
  <2> QED
    BY <1>1, <1>4, <2>1 DEF DashInv, QuietExact
<1> QED
  BY <1>5, <1>6, <1>7, <1>8 DEF DashInv

-----------------------------------------------------------------------------

LEMMA DashStep == TtlIsPositive /\ DashInv /\ D!NextDash => DashInv'
<1> SUFFICES ASSUME TtlIsPositive, DashInv, D!NextDash PROVE DashInv'
  OBVIOUS
<1>1. CASE D!Tick
  BY <1>1, TickStep
<1>2. ASSUME NEW v \in D!Visitors, NEW f \in Configs, D!Begin(v, f) PROVE DashInv'
  BY <1>2, BeginStep
<1>3. ASSUME NEW v \in D!Visitors, D!Lookup(v) PROVE DashInv'
  BY <1>3, LookupStep
<1>4. ASSUME NEW v \in D!Visitors, D!Compute(v) PROVE DashInv'
  BY <1>4, ComputeStep
<1>5. ASSUME NEW v \in D!Visitors, D!ComputeFails(v) PROVE DashInv'
  BY <1>5, ComputeFailsStep
<1>6. ASSUME NEW v \in D!Visitors, D!Store(v) PROVE DashInv'
  BY <1>6, StoreStep
<1>7. ASSUME NEW v \in D!Visitors, D!Leave(v) PROVE DashInv'
  BY <1>7, LeaveStep
<1>8. CASE DashWriters
  BY <1>8, WriterSteps
<1> QED
  BY <1>1, <1>2, <1>3, <1>4, <1>5, <1>6, <1>7, <1>8 DEF D!NextDash, DashWriters

LEMMA DashStutter == DashInv /\ UNCHANGED D!varsDash => DashInv'
<1> SUFFICES ASSUME DashInv, UNCHANGED D!varsDash PROVE DashInv'
  OBVIOUS
<1> USE DEF D!varsDash
<1>1. DashTypes'
  BY DEF DashInv, DashTypes
<1>2. CachesRecent'
  BY DEF DashInv, CachesRecent, EntryRecent, SeenSince, D!Alive
<1>3. RequestsFair'
  BY DEF DashInv, RequestsFair, RequestFair, SeenSince
<1>4. QuietExact'
  BY DEF DashInv, QuietExact
<1> QED
  BY <1>1, <1>2, <1>3, <1>4 DEF DashInv

(* Dashboards: whatever is cached, through which token and after which       *)
(* failure of Redis, the answer to a restricted user is made of that user's *)
(* rows, any other answer of the table as it was at most Ttl ticks ago, and *)
(* a cache that no writer or outage disturbs holds what would be computed   *)
(* now.                                                                     *)
THEOREM DashboardsTellTheTruth ==
  ASSUME TtlIsPositive
  PROVE  D!SpecDash => [](D!HiddenRowsStayHidden /\ D!AnswersAreRecent /\ D!QuietCacheExact)
<1>1. D!InitDash => DashInv
  BY DashInit
<1>2. DashInv /\ [D!NextDash]_(D!varsDash) => DashInv'
  BY DashStep, DashStutter
<1>3. DashInv => D!HiddenRowsStayHidden /\ D!AnswersAreRecent /\ D!QuietCacheExact
  BY DashSafe
<1> QED
  BY <1>1, <1>2, <1>3, PTL DEF D!SpecDash

-----------------------------------------------------------------------------
(* AiChats: what a request has asked, called and answered.                  *)

CONSTANTS Convs, Asks, Skills, Gated, Denied, Models, MaxDuplicates, ToolLimit, Width, MaxTurns
VARIABLES convs, msgs, config, asks, traces, effects, deleting, wiped
H == INSTANCE AiChats

(* A skill may be called at least once, and "none" is no id and no name.     *)
CallsAreCounted ==
    /\ MaxDuplicates \in Nat \ {0} /\ Width \in Nat
    /\ H!None \notin Convs /\ H!None \notin Skills

AskPlaces == {"new", "opened", "routing", "analysing", "running", "answering", "refused", "done"}
AskRows ==
    [pc : AskPlaces, mode : H!Modes, conv : Convs \cup {H!None}, model : Models \cup {"tools"},
     tools : SUBSET Skills, calls : UNION {[R -> Skills] : R \in SUBSET (1..Width)}, turns : Nat,
     pending : Skills \cup {H!None}, status : {H!None, "failed", "completed", "requires_confirmation"},
     text : BOOLEAN]
TraceRows == [skill : Skills, state : {"completed", "failed", "requires_confirmation"}]
MessageRows == [conv : Convs, ask : Asks, role : {"user", "assistant"}]
ChatTypes ==
    /\ convs \in [Convs -> {"free", "live", "gone"}]
    /\ asks \in [Asks -> AskRows]
    /\ traces \in [Asks -> Seq(TraceRows)]
    /\ msgs \subseteq MessageRows
    /\ deleting \in [Convs -> [on : {H!None, "delete", "clear"}, taken : SUBSET MessageRows]]
    /\ effects \subseteq Asks \X Skills

(* A delete or a clear takes messages of its conversation only.             *)
TakenOwn == \A c \in Convs : \A m \in deleting[c].taken : m.conv = c
NothingGated == \A e \in effects : e[2] \notin Gated

(* A chat or an analysis under way has its conversation, with its question   *)
(* in it, unless that was cleared or deleted.                               *)
Stored(a) ==
    /\ asks[a].pc = "opened" => asks[a].mode # "agent"
    /\ asks[a].pc \notin {"new", "refused"} /\ asks[a].mode # "agent" =>
         /\ asks[a].conv \in Convs
         /\ a \notin wiped /\ asks[a].pc # "opened" =>
              convs[asks[a].conv] = "live" /\ H!Row(asks[a].conv, a, "user") \in msgs
         /\ a \notin wiped /\ asks[a].pc = "done" /\ asks[a].text =>
              H!Row(asks[a].conv, a, "assistant") \in msgs

(* The pending confirmation is the last call that met one.                   *)
Met(a) == {i \in DOMAIN traces[a] : traces[a][i].state = "requires_confirmation"}
PendingKnown(a) ==
    /\ asks[a].pending # H!None <=> Met(a) # {}
    /\ asks[a].pending # H!None => \E i \in Met(a) : traces[a][i].skill = asks[a].pending
StatusKnown(a) ==
    /\ asks[a].pc \notin {"answering", "done"} => asks[a].status \in {H!None, "failed"}
    /\ asks[a].pc \in {"answering", "done"} /\ asks[a].status \notin {H!None, "failed"} =>
         (Met(a) # {} => asks[a].status = "requires_confirmation")

(* The calls under way count as if they had ended.                           *)
Calls(a, k) == {i \in DOMAIN asks[a].calls : asks[a].calls[i] = k}
Bounded(a) ==
    \A k \in Skills : H!Count(traces[a], k) + Cardinality(Calls(a, k)) <= MaxDuplicates - 1 + Width

AskInv(a) == Stored(a) /\ PendingKnown(a) /\ StatusKnown(a) /\ Bounded(a)
ChatInv == ChatTypes /\ TakenOwn /\ NothingGated /\ \A a \in Asks : AskInv(a)

LEMMA ChatCardinality == \A S : H!Cardinality(S) = Cardinality(S)
  BY DEF H!Cardinality, Cardinality

LEMMA CountIsNat ==
  ASSUME NEW s \in Seq(TraceRows), NEW k
  PROVE  H!Count(s, k) \in Nat
<1>1. IsFiniteSet(1..Len(s)) /\ DOMAIN s = 1..Len(s)
  BY FS_Interval, LenProperties
<1>2. IsFiniteSet({i \in DOMAIN s : s[i].skill = k})
  BY <1>1, FS_Subset
<1> QED
  BY <1>2, ChatCardinality, FS_CardinalityType DEF H!Count

LEMMA CountAppend ==
  ASSUME NEW s \in Seq(TraceRows), NEW r \in TraceRows, NEW k
  PROVE  H!Count(Append(s, r), k) = H!Count(s, k) + (IF r.skill = k THEN 1 ELSE 0)
<1> DEFINE Of(t) == {i \in DOMAIN t : t[i].skill = k}
<1>1. IsFiniteSet(1..Len(s)) /\ DOMAIN s = 1..Len(s) /\ Len(s) \in Nat
  BY FS_Interval, LenProperties
<1>2. IsFiniteSet(Of(s)) /\ Len(s) + 1 \notin Of(s)
  BY <1>1, FS_Subset
<1>3. /\ DOMAIN Append(s, r) = 1..(Len(s) + 1)
      /\ \A i \in 1..Len(s) : Append(s, r)[i] = s[i]
      /\ Append(s, r)[Len(s) + 1] = r
  BY AppendProperties, <1>1
<1>4. Of(Append(s, r)) = IF r.skill = k THEN Of(s) \cup {Len(s) + 1} ELSE Of(s)
  BY <1>1, <1>3
<1>5. H!Count(Append(s, r), k) = Cardinality(Of(Append(s, r))) /\ H!Count(s, k) = Cardinality(Of(s))
  BY ChatCardinality DEF H!Count
<1>6. Cardinality(Of(s)) \in Nat
  BY <1>2, FS_CardinalityType
<1>7. Cardinality(Of(s) \cup {Len(s) + 1}) = Cardinality(Of(s)) + 1
  BY <1>2, FS_AddElement
<1> HIDE DEF Of
<1> QED
  BY <1>4, <1>5, <1>6, <1>7

(* Calls that start or end are finitely many. *)
LEMMA CallsFinite ==
  ASSUME ChatTypes, CallsAreCounted, NEW a \in Asks, NEW k
  PROVE  IsFiniteSet(Calls(a, k)) /\ Cardinality(Calls(a, k)) \in Nat
<1>1. DOMAIN asks[a].calls \subseteq 1..Width
  BY DEF ChatTypes, AskRows
<1>2. IsFiniteSet(1..Width)
  BY FS_Interval DEF CallsAreCounted
<1>3. Calls(a, k) \subseteq 1..Width
  BY <1>1 DEF Calls
<1> QED
  BY <1>2, <1>3, FS_Subset, FS_CardinalityType

LEMMA ChatInit == CallsAreCounted /\ H!InitChats => ChatInv
<1> SUFFICES ASSUME CallsAreCounted, H!InitChats PROVE ChatInv
  OBVIOUS
<1>1. H!NewAsk \in AskRows
  <2>1. << >> \in [{} -> Skills] /\ {} \in SUBSET (1..Width)
    OBVIOUS
  <2>2. << >> \in UNION {[R -> Skills] : R \in SUBSET (1..Width)}
    BY <2>1
  <2> QED
    BY <2>2 DEF H!NewAsk, AskRows, AskPlaces, H!Modes, H!None
<1>2. ChatTypes
  <2>1. << >> \in Seq(TraceRows)
    OBVIOUS
  <2> QED
    BY <1>1, <2>1 DEF H!InitChats, ChatTypes
<1>3. TakenOwn /\ NothingGated
  BY DEF H!InitChats, TakenOwn, NothingGated
<1>4. ASSUME NEW a \in Asks PROVE AskInv(a)
  <2>1. asks[a] = H!NewAsk /\ traces[a] = << >>
    BY DEF H!InitChats
  <2>2. Stored(a) /\ PendingKnown(a) /\ StatusKnown(a)
    BY <2>1 DEF Stored, PendingKnown, StatusKnown, H!NewAsk, Met, H!None
  <2>3. ASSUME NEW k \in Skills PROVE H!Count(traces[a], k) + Cardinality(Calls(a, k)) <= MaxDuplicates - 1 + Width
    <3>1. Calls(a, k) = {} /\ {i \in DOMAIN traces[a] : traces[a][i].skill = k} = {}
      BY <2>1 DEF Calls, H!NewAsk
    <3>2. H!Count(traces[a], k) = 0 /\ Cardinality(Calls(a, k)) = 0
      BY <3>1, FS_EmptySet, ChatCardinality DEF H!Count
    <3> QED
      BY <3>2 DEF CallsAreCounted
  <2> QED
    BY <2>2, <2>3 DEF AskInv, Bounded
<1> QED
  BY <1>2, <1>3, <1>4 DEF ChatInv

(* What leaves a request alone, its messages and its conversation.           *)
LEMMA LeftAlone ==
  ASSUME ChatInv, NEW b \in Asks, asks'[b] = asks[b], traces'[b] = traces[b], wiped \subseteq wiped',
         asks[b].pc # "new" /\ b \notin wiped' /\ asks[b].conv \in Convs /\ convs[asks[b].conv] = "live" =>
           convs'[asks[b].conv] = "live",
         asks[b].pc # "new" /\ b \notin wiped' => \A m \in msgs : m.conv = asks[b].conv /\ m.ask = b => m \in msgs'
  PROVE  AskInv(b)'
<1>1. Stored(b) /\ PendingKnown(b) /\ StatusKnown(b) /\ Bounded(b)
  BY DEF ChatInv, AskInv
<1>2. Stored(b)'
  BY <1>1 DEF Stored, H!Row
<1>3. PendingKnown(b)' /\ StatusKnown(b)'
  BY <1>1 DEF PendingKnown, StatusKnown, Met
<1>4. Bounded(b)'
  <2>1. ASSUME NEW k \in Skills
        PROVE  Calls(b, k)' = Calls(b, k) /\ H!Count(traces[b], k)' = H!Count(traces[b], k)
    BY DEF Calls, H!Count
  <2> QED
    BY <1>1, <2>1 DEF Bounded
<1> QED
  BY <1>2, <1>3, <1>4 DEF AskInv

(* A step of one request that calls nothing and makes no message.            *)
LEMMA AskGoesOn ==
  ASSUME ChatInv, CallsAreCounted, NEW a \in Asks, NEW r \in AskRows, asks' = [asks EXCEPT ![a] = r],
         convs' \in [Convs -> {"free", "live", "gone"}], \A c \in Convs : convs[c] = "live" => convs'[c] = "live",
         UNCHANGED <<msgs, traces, effects, deleting, wiped>>,
         r.pending = asks[a].pending, r.calls = asks[a].calls \/ r.calls = << >>,
         Stored(a)', StatusKnown(a)'
  PROVE  ChatInv'
<1>1. ChatTypes
  BY DEF ChatInv
<1>2. ChatTypes' /\ TakenOwn' /\ NothingGated' /\ asks'[a] = r
  BY <1>1 DEF ChatTypes, ChatInv, TakenOwn, NothingGated
<1>3. ASSUME NEW b \in Asks, b # a PROVE AskInv(b)'
  BY <1>1, <1>3, LeftAlone DEF ChatTypes
<1>4. PendingKnown(a)'
  BY <1>2 DEF ChatInv, AskInv, PendingKnown, Met
<1>5. ASSUME NEW k \in Skills
      PROVE  (H!Count(traces[a], k) + Cardinality(Calls(a, k)) <= MaxDuplicates - 1 + Width)'
  <2>1. H!Count(traces[a], k) + Cardinality(Calls(a, k)) <= MaxDuplicates - 1 + Width
    BY DEF ChatInv, AskInv, Bounded
  <2>2. H!Count(traces[a], k)' = H!Count(traces[a], k)
    BY DEF H!Count, H!Cardinality
  <2>3. traces[a] \in Seq(TraceRows)
    BY <1>1 DEF ChatTypes
  <2>4. H!Count(traces[a], k) \in Nat /\ Cardinality(Calls(a, k)) \in Nat
    BY <1>1, <2>3, CountIsNat, CallsFinite
  <2>5. CASE r.calls = asks[a].calls
    <3>1. Calls(a, k)' = Calls(a, k)
      BY <1>2, <2>5 DEF Calls
    <3> QED
      BY <2>1, <2>2, <3>1
  <2>6. CASE r.calls = << >>
    <3>1. Calls(a, k)' = {}
      BY <1>2, <2>6 DEF Calls
    <3>2. Cardinality(Calls(a, k)') = 0
      BY <3>1, FS_EmptySet
    <3> QED
      BY <2>1, <2>2, <2>4, <3>2 DEF CallsAreCounted
  <2> QED
    BY <2>5, <2>6
<1>6. AskInv(a)'
  BY <1>4, <1>5 DEF AskInv, Bounded
<1> QED
  BY <1>2, <1>3, <1>6 DEF ChatInv

(* Conversations are made by requests and by users. *)
LEMMA Creates ==
  ASSUME ChatTypes, NEW d \in Convs, convs[d] = "free", H!Create
  PROVE  /\ H!FreeConv \in Convs /\ convs' \in [Convs -> {"free", "live", "gone"}]
         /\ \A c \in Convs : convs[c] = "live" => convs'[c] = "live"
         /\ convs'[H!FreeConv] = "live"
<1>1. H!FreeConv \in Convs /\ convs[H!FreeConv] = "free"
  BY DEF H!FreeConv
<1> QED
  BY <1>1 DEF H!Create, ChatTypes

LEMMA Opens ==
  ASSUME ChatInv, CallsAreCounted, NEW a \in Asks, NEW mode \in H!Modes, NEW c \in Convs \cup {H!None},
         NEW m \in Models, H!Open(a, mode, c, m) \/ H!OpenAgent(a, c, m)
  PROVE  ChatInv'
<1>1. ChatTypes /\ asks[a] \in AskRows /\ AskInv(a)
  BY DEF ChatInv, ChatTypes
<1>2. ASSUME NEW d \in Convs \cup {H!None}, NEW p \in {"opened", "routing", "refused"}, NEW q \in H!Modes,
             asks' = [asks EXCEPT ![a] = [asks[a] EXCEPT !.pc = p, !.mode = q, !.model = m, !.conv = d]],
             asks[a].pc = "new", UNCHANGED <<msgs, traces, effects, deleting, wiped>>,
             convs' \in [Convs -> {"free", "live", "gone"}], \A x \in Convs : convs[x] = "live" => convs'[x] = "live",
             p = "opened" => q # "agent" /\ d \in Convs, p = "routing" => q = "agent"
      PROVE  ChatInv'
  <2> DEFINE r == [asks[a] EXCEPT !.pc = p, !.mode = q, !.model = m, !.conv = d]
  <2>1. r \in AskRows
    BY <1>1 DEF AskRows, AskPlaces
  <2>2. /\ r.pc = p /\ r.mode = q /\ r.conv = d
        /\ r.pending = asks[a].pending /\ r.calls = asks[a].calls /\ r.status = asks[a].status
    BY <1>1 DEF AskRows
  <2>3. asks'[a] = r
    BY <1>1, <1>2 DEF ChatTypes
  <2> HIDE DEF r
  <2>4. Stored(a)' /\ StatusKnown(a)'
    <3>1. Stored(a)'
      BY <1>2, <2>2, <2>3 DEF Stored
    <3>2. StatusKnown(a)'
      BY <1>1, <1>2, <2>2, <2>3 DEF StatusKnown, AskInv
    <3> QED
      BY <3>1, <3>2
  <2>5. asks' = [asks EXCEPT ![a] = r]
    BY <1>2 DEF r
  <2> QED
    BY <1>2, <2>1, <2>2, <2>4, <2>5, AskGoesOn
<1>3. CASE H!OpenAgent(a, c, m)
  <2>1. "agent" \in H!Modes
    BY DEF H!Modes
  <2>2. asks' = [asks EXCEPT ![a] = [asks[a] EXCEPT !.pc = IF H!AcceptsAgent(m) THEN "routing" ELSE "refused",
                                                  !.mode = "agent", !.model = m, !.conv = c]]
    BY <1>1, <1>3 DEF H!OpenAgent, ChatTypes, AskRows
  <2>3. /\ asks[a].pc = "new" /\ UNCHANGED <<convs, msgs, traces, effects, deleting, wiped>>
        /\ convs' \in [Convs -> {"free", "live", "gone"}]
    BY <1>1, <1>3 DEF H!OpenAgent, H!RouterIdle, H!EditsIdle, ChatTypes
  <2> QED
    BY <1>2, <2>1, <2>2, <2>3
<1>4. CASE H!Open(a, mode, c, m)
  <2>1. asks[a].pc = "new" /\ UNCHANGED <<msgs, traces, effects, deleting, wiped>> /\ mode # "agent"
    BY <1>4 DEF H!Open, H!RouterIdle, H!EditsIdle
  <2>2. CASE H!To(a, "refused") /\ UNCHANGED convs
    <3>1. asks' = [asks EXCEPT ![a] = [asks[a] EXCEPT !.pc = "refused"]]
      BY <2>2 DEF H!To
    <3> DEFINE r == [asks[a] EXCEPT !.pc = "refused"]
    <3>2. /\ r \in AskRows /\ r.pc = "refused" /\ r.pending = asks[a].pending
          /\ r.calls = asks[a].calls /\ r.status = asks[a].status
      BY <1>1 DEF AskRows, AskPlaces
    <3>3. asks'[a] = r
      BY <1>1, <3>1 DEF ChatTypes
    <3> HIDE DEF r
    <3>4. Stored(a)'
      BY <3>2, <3>3 DEF Stored
    <3>5. StatusKnown(a)'
      BY <1>1, <2>1, <3>2, <3>3 DEF StatusKnown, AskInv
    <3>6. asks' = [asks EXCEPT ![a] = r] /\ convs' \in [Convs -> {"free", "live", "gone"}]
      BY <1>1, <2>2, <3>1 DEF r, ChatTypes
    <3> QED
      BY <2>1, <2>2, <3>2, <3>4, <3>5, <3>6, AskGoesOn
  <2>3. ASSUME NEW d \in Convs,
               asks' = [asks EXCEPT ![a].pc = "opened", ![a].mode = mode, ![a].model = m, ![a].conv = d],
               convs' \in [Convs -> {"free", "live", "gone"}], \A x \in Convs : convs[x] = "live" => convs'[x] = "live"
        PROVE  ChatInv'
    <3>1. asks' = [asks EXCEPT ![a] = [asks[a] EXCEPT !.pc = "opened", !.mode = mode, !.model = m, !.conv = d]]
      BY <1>1, <2>3 DEF ChatTypes, AskRows
    <3> QED
      BY <1>2, <2>1, <2>3, <3>1
  <2>4. CASE H!Found(c) /\ UNCHANGED convs
             /\ asks' = [asks EXCEPT ![a].pc = "opened", ![a].mode = mode, ![a].model = m, ![a].conv = c]
    <3>1. c \in Convs /\ convs' \in [Convs -> {"free", "live", "gone"}]
      BY <1>1, <2>4 DEF H!Found, ChatTypes
    <3> QED
      BY <2>3, <2>4, <3>1
  <2>5. CASE (\E d \in Convs : convs[d] = "free") /\ H!Create
             /\ asks' = [asks EXCEPT ![a].pc = "opened", ![a].mode = mode, ![a].model = m, ![a].conv = H!FreeConv]
    BY <1>1, <2>3, <2>5, Creates
  <2> QED
    BY <1>4, <2>2, <2>4, <2>5 DEF H!Open
<1> QED
  BY <1>3, <1>4

(* The steps of a request that neither call a skill nor store a message.     *)
LEMMA RequestGoesOn ==
  ASSUME ChatInv, CallsAreCounted, NEW a \in Asks,
         \/ \E ts \in SUBSET Skills : H!Route(a, ts)
         \/ \E said \in {"completed", "requires_confirmation", "failed"} : H!RunEnds(a, said)
         \/ \E u \in BOOLEAN : H!RunFails(a, u)
         \/ \E end \in {"text", "empty", "broken"} : H!Analyse(a, end)
  PROVE  ChatInv'
<1>1. ChatTypes /\ asks[a] \in AskRows /\ AskInv(a)
  BY DEF ChatInv, ChatTypes
<1>2. ASSUME NEW r \in AskRows, asks' = [asks EXCEPT ![a] = r], UNCHANGED <<convs, msgs, traces, effects, deleting, wiped>>,
             r.pending = asks[a].pending, r.calls = asks[a].calls \/ r.calls = << >>,
             r.conv = asks[a].conv, r.mode = asks[a].mode,
             asks[a].pc \in {"routing", "running", "analysing"}, r.pc \in {"running", "analysing", "answering", "refused"},
             r.status \in {H!None, "failed"} \/ (r.pc = "answering" /\ r.status = H!StatusOf(a, r.status))
      PROVE  ChatInv'
  <2>1. asks'[a] = r /\ convs' \in [Convs -> {"free", "live", "gone"}]
    BY <1>1, <1>2 DEF ChatTypes
  <2>2. Stored(a)'
    BY <1>1, <1>2, <2>1 DEF Stored, AskInv, H!Row
  <2>3. StatusKnown(a)'
    <3>1. Met(a)' = Met(a) /\ (asks[a].pending # H!None <=> Met(a) # {})
      BY <1>1, <1>2 DEF Met, AskInv, PendingKnown
    <3> QED
      BY <1>2, <2>1, <3>1 DEF StatusKnown, H!StatusOf
  <2> QED
    BY <1>1, <1>2, <2>1, <2>2, <2>3, AskGoesOn
<1>3. ASSUME NEW ts \in SUBSET Skills, H!Route(a, ts) PROVE ChatInv'
  <2> DEFINE p == CASE ~ config -> "refused" [] config /\ ts = {} -> "answering" [] OTHER -> "running"
             r == [asks[a] EXCEPT !.pc = p, !.status = IF ts = {} THEN "failed" ELSE H!None,
                                  !.text = (ts = {}), !.tools = ts]
  <2>1. p \in {"refused", "answering", "running"}
    OBVIOUS
  <2>2. asks' = [asks EXCEPT ![a] = r] /\ UNCHANGED <<convs, msgs, traces, effects, deleting, wiped>>
    BY <1>1, <1>3 DEF H!Route, ChatTypes, AskRows, H!RouterIdle, H!EditsIdle
  <2>3. asks[a].pc = "routing"
    BY <1>3 DEF H!Route
  <2> HIDE DEF p
  <2>4. r \in AskRows
    BY <1>1, <2>1 DEF AskRows, AskPlaces
  <2>5. /\ r.pc = p /\ r.pending = asks[a].pending /\ r.calls = asks[a].calls /\ r.conv = asks[a].conv
        /\ r.mode = asks[a].mode /\ r.status \in {H!None, "failed"}
    BY <1>1 DEF AskRows
  <2> HIDE DEF r
  <2>6. /\ r.status \in {H!None, "failed"} \/ (r.pc = "answering" /\ r.status = H!StatusOf(a, r.status))
        /\ r.calls = asks[a].calls \/ r.calls = << >>
        /\ asks[a].pc \in {"routing", "running", "analysing"} /\ r.pc \in {"running", "analysing", "answering", "refused"}
    BY <2>1, <2>3, <2>5
  <2> QED
    BY <1>2, <2>1, <2>2, <2>3, <2>4, <2>5, <2>6
<1>4. ASSUME NEW said \in {"completed", "requires_confirmation", "failed"}, H!RunEnds(a, said) PROVE ChatInv'
  <2> DEFINE st == H!StatusOf(a, said)
             r == [asks[a] EXCEPT !.pc = "answering", !.status = st, !.text = TRUE]
  <2>1. st \in {"completed", "requires_confirmation", "failed"} /\ st = H!StatusOf(a, st)
    BY DEF H!StatusOf
  <2>2. asks' = [asks EXCEPT ![a] = r] /\ UNCHANGED <<convs, msgs, traces, effects, deleting, wiped>>
    BY <1>1, <1>4 DEF H!RunEnds, ChatTypes, AskRows, H!RouterIdle, H!EditsIdle
  <2>3. asks[a].pc = "running"
    BY <1>4 DEF H!RunEnds
  <2> HIDE DEF st
  <2>4. r \in AskRows
    BY <1>1, <2>1 DEF AskRows, AskPlaces
  <2>5. /\ r.pc = "answering" /\ r.pending = asks[a].pending /\ r.calls = asks[a].calls /\ r.conv = asks[a].conv
        /\ r.mode = asks[a].mode /\ r.status = st
    BY <1>1 DEF AskRows
  <2> HIDE DEF r
  <2> QED
    BY <1>2, <2>1, <2>2, <2>3, <2>4, <2>5
<1>5. ASSUME NEW u \in BOOLEAN, H!RunFails(a, u) PROVE ChatInv'
  <2> DEFINE p == IF H!FallsBack(a, u) THEN "analysing" ELSE "answering"
             r == [asks[a] EXCEPT !.calls = << >>, !.pc = p, !.status = "failed", !.text = TRUE]
  <2>1. p \in {"analysing", "answering"}
    OBVIOUS
  <2>2. asks' = [asks EXCEPT ![a] = r] /\ UNCHANGED <<convs, msgs, traces, effects, deleting, wiped>>
    BY <1>1, <1>5 DEF H!RunFails, ChatTypes, AskRows, H!RouterIdle, H!EditsIdle
  <2>3. asks[a].pc = "running"
    BY <1>5 DEF H!RunFails
  <2>4. << >> \in UNION {[R -> Skills] : R \in SUBSET (1..Width)}
    <3>1. << >> \in [{} -> Skills] /\ {} \in SUBSET (1..Width)
      OBVIOUS
    <3> QED
      BY <3>1
  <2> HIDE DEF p
  <2>5. r \in AskRows
    BY <1>1, <2>1, <2>4 DEF AskRows, AskPlaces
  <2>6. /\ r.pc = p /\ r.pending = asks[a].pending /\ r.calls = << >> /\ r.conv = asks[a].conv
        /\ r.mode = asks[a].mode /\ r.status = "failed"
    BY <1>1 DEF AskRows
  <2> HIDE DEF r
  <2>7. /\ r.status \in {H!None, "failed"} \/ (r.pc = "answering" /\ r.status = H!StatusOf(a, r.status))
        /\ r.calls = asks[a].calls \/ r.calls = << >>
        /\ asks[a].pc \in {"routing", "running", "analysing"} /\ r.pc \in {"running", "analysing", "answering", "refused"}
    BY <2>1, <2>3, <2>6
  <2> QED
    BY <1>2, <2>1, <2>2, <2>3, <2>5, <2>6, <2>7
<1>6. ASSUME NEW end \in {"text", "empty", "broken"}, H!Analyse(a, end) PROVE ChatInv'
  <2> DEFINE p == IF end = "broken" THEN "refused" ELSE "answering"
             r == [asks[a] EXCEPT !.pc = p, !.text = (end = "text")]
  <2>1. p \in {"refused", "answering"}
    OBVIOUS
  <2>2. asks' = [asks EXCEPT ![a] = r] /\ UNCHANGED <<convs, msgs, traces, effects, deleting, wiped>>
    BY <1>1, <1>6 DEF H!Analyse, ChatTypes, AskRows, H!RouterIdle, H!EditsIdle
  <2>3. asks[a].pc = "analysing" /\ asks[a].status \in {H!None, "failed"}
    BY <1>1, <1>6 DEF H!Analyse, AskInv, StatusKnown
  <2> HIDE DEF p
  <2>4. r \in AskRows
    BY <1>1, <2>1 DEF AskRows, AskPlaces
  <2>5. /\ r.pc = p /\ r.pending = asks[a].pending /\ r.calls = asks[a].calls /\ r.conv = asks[a].conv
        /\ r.mode = asks[a].mode /\ r.status = asks[a].status
    BY <1>1 DEF AskRows
  <2> HIDE DEF r
  <2>6. /\ r.status \in {H!None, "failed"} \/ (r.pc = "answering" /\ r.status = H!StatusOf(a, r.status))
        /\ r.calls = asks[a].calls \/ r.calls = << >>
        /\ asks[a].pc \in {"routing", "running", "analysing"} /\ r.pc \in {"running", "analysing", "answering", "refused"}
    BY <2>1, <2>3, <2>5
  <2> QED
    BY <1>2, <2>1, <2>2, <2>3, <2>4, <2>5, <2>6
<1> QED
  BY <1>3, <1>4, <1>5, <1>6

(* The question and the answer: a message of the request, in its             *)
(* conversation, which is live.                                             *)
LEMMA MessageStored ==
  ASSUME ChatInv, CallsAreCounted, NEW a \in Asks, H!Ask(a) \/ H!Finish(a)
  PROVE  ChatInv'
<1>1. ChatTypes /\ asks[a] \in AskRows /\ AskInv(a)
  BY DEF ChatInv, ChatTypes
<1>2. UNCHANGED <<convs, traces, effects, deleting, wiped>>
  BY DEF H!Ask, H!Finish, H!RouterIdle, H!EditsIdle
<1>3. PICK p \in AskPlaces : asks' = [asks EXCEPT ![a].pc = p]
  BY DEF H!Ask, H!Finish, H!To, AskPlaces
<1>4. /\ asks' \in [Asks -> AskRows] /\ asks'[a].pc = p /\ asks'[a].mode = asks[a].mode
      /\ asks'[a].conv = asks[a].conv /\ asks'[a].pending = asks[a].pending
      /\ asks'[a].status = asks[a].status /\ asks'[a].text = asks[a].text /\ asks'[a].calls = asks[a].calls
      /\ \A b \in Asks \ {a} : asks'[b] = asks[b]
  <2>1. [asks[a] EXCEPT !.pc = p] \in AskRows
    BY <1>1 DEF AskRows
  <2> QED
    BY <1>1, <1>3, <2>1 DEF ChatTypes, AskRows
<1>5. PendingKnown(a)' /\ Bounded(a)'
  <2>1. \A k : Calls(a, k)' = Calls(a, k) /\ H!Count(traces[a], k)' = H!Count(traces[a], k)
    BY <1>2, <1>4 DEF Calls, H!Count
  <2> QED
    BY <1>1, <1>2, <1>4, <2>1 DEF PendingKnown, Bounded, AskInv, Met
<1>6. ASSUME H!Ask(a) PROVE AskInv(a)' /\ msgs \subseteq msgs' /\ msgs' \subseteq MessageRows
  <2>1. asks[a].pc = "opened" /\ asks[a].mode # "agent" /\ asks[a].conv \in Convs
    BY <1>1, <1>6 DEF H!Ask, AskInv, Stored
  <2>2. \/ p = "refused" /\ msgs' = msgs
        \/ /\ p \in {"routing", "analysing"} /\ convs[asks[a].conv] = "live"
           /\ msgs' = msgs \cup {H!Row(asks[a].conv, a, "user")}
    <3>1. \A x : H!To(a, x) => asks'[a].pc = x
      BY <1>1 DEF H!To, ChatTypes, AskRows
    <3> QED
      BY <1>4, <1>6, <3>1 DEF H!Ask
  <2>3. msgs \subseteq msgs' /\ msgs' \subseteq MessageRows
    BY <1>1, <2>1, <2>2 DEF ChatTypes, H!Row, MessageRows
  <2>4. Stored(a)'
    BY <1>2, <1>4, <2>1, <2>2 DEF Stored, H!Row
  <2>5. StatusKnown(a)'
    BY <1>1, <1>4, <2>1, <2>2 DEF StatusKnown, AskInv
  <2> QED
    BY <1>5, <2>3, <2>4, <2>5 DEF AskInv
<1>7. ASSUME H!Finish(a) PROVE AskInv(a)' /\ msgs \subseteq msgs' /\ msgs' \subseteq MessageRows
  <2>1. p = "done" /\ asks[a].pc = "answering"
    BY <1>1, <1>4, <1>7 DEF H!Finish, H!To, ChatTypes
  <2>2. msgs' = IF H!Persists(a) THEN msgs \cup {H!Row(asks[a].conv, a, "assistant")} ELSE msgs
    BY <1>7 DEF H!Finish
  <2>3. H!Persists(a) => asks[a].conv \in Convs
    BY <1>1 DEF H!Persists, AskRows
  <2>4. msgs \subseteq msgs' /\ msgs' \subseteq MessageRows
    BY <1>1, <2>2, <2>3 DEF ChatTypes, H!Row, MessageRows
  <2>5. Stored(a)'
    <3>1. asks[a].mode # "agent" /\ a \notin wiped =>
            /\ asks[a].conv \in Convs /\ convs[asks[a].conv] = "live" /\ asks[a].conv # H!None
            /\ H!Row(asks[a].conv, a, "user") \in msgs
      BY <1>1, <2>1 DEF AskInv, Stored, CallsAreCounted
    <3>2. asks[a].mode # "agent" => asks[a].conv \in Convs
      BY <1>1, <2>1 DEF AskInv, Stored
    <3>3. asks[a].mode # "agent" /\ a \notin wiped /\ asks[a].text => H!Row(asks[a].conv, a, "assistant") \in msgs'
      BY <2>2, <3>1 DEF H!Persists
    <3> QED
      BY <1>2, <1>4, <2>1, <2>4, <3>1, <3>2, <3>3 DEF Stored, H!Row
  <2>6. StatusKnown(a)'
    BY <1>1, <1>2, <1>4, <2>1 DEF StatusKnown, AskInv, Met
  <2> QED
    BY <1>5, <2>4, <2>5, <2>6 DEF AskInv
<1>8. AskInv(a)' /\ msgs \subseteq msgs' /\ msgs' \subseteq MessageRows
  BY <1>6, <1>7
<1>9. ASSUME NEW b \in Asks, b # a PROVE AskInv(b)'
  BY <1>2, <1>4, <1>8, <1>9, LeftAlone
<1>10. ChatTypes' /\ TakenOwn' /\ NothingGated'
  BY <1>1, <1>2, <1>4, <1>8 DEF ChatTypes, ChatInv, TakenOwn, NothingGated
<1> QED
  BY <1>8, <1>9, <1>10 DEF ChatInv

(* A turn of the model, and a call that ends: what is counted stays within    *)
(* its limit, since a call is let in only below it.                         *)
LEMMA TurnBegins ==
  ASSUME ChatInv, CallsAreCounted, NEW a \in Asks, NEW ks \in H!Turns, H!BeginTurn(a, ks)
  PROVE  ChatInv'
<1> DEFINE calls == [i \in {j \in DOMAIN ks : H!Admits(a, ks[j])} |-> ks[i]]
           r == [asks[a] EXCEPT !.calls = calls, !.turns = @ + 1]
<1>1. ChatTypes /\ asks[a] \in AskRows /\ AskInv(a) /\ asks[a].calls = << >> /\ asks[a].pc = "running"
  BY DEF ChatInv, ChatTypes, H!BeginTurn
<1>2. asks' = [asks EXCEPT ![a] = r] /\ UNCHANGED <<convs, msgs, traces, effects, deleting, wiped>>
  BY <1>1 DEF H!BeginTurn, ChatTypes, AskRows, H!RouterIdle, H!EditsIdle
<1>3. PICK n \in 1..Width : ks \in [1..n -> Skills]
  BY DEF H!Turns
<1>4. calls \in UNION {[R -> Skills] : R \in SUBSET (1..Width)}
  <2>1. 1..n \subseteq 1..Width
    BY <1>3 DEF CallsAreCounted
  <2>2. DOMAIN calls \in SUBSET (1..Width) /\ calls \in [DOMAIN calls -> Skills]
    BY <1>3, <2>1
  <2> QED
    BY <2>2
<1>5. r \in AskRows
  <2>1. asks[a].turns + 1 \in Nat
    BY <1>1 DEF AskRows
  <2> HIDE DEF calls
  <2>2. [asks[a] EXCEPT !.calls = calls] \in AskRows
    BY <1>1, <1>4 DEF AskRows
  <2>3. r = [[asks[a] EXCEPT !.calls = calls] EXCEPT !.turns = asks[a].turns + 1]
    BY <1>1 DEF AskRows
  <2> QED
    BY <2>1, <2>2, <2>3 DEF AskRows
<1>6. /\ r.pc = asks[a].pc /\ r.pending = asks[a].pending /\ r.calls = calls /\ r.conv = asks[a].conv
      /\ r.mode = asks[a].mode /\ r.status = asks[a].status /\ r.text = asks[a].text
  BY <1>1 DEF AskRows
<1>7. \A i \in DOMAIN calls : i \in DOMAIN ks /\ calls[i] = ks[i] /\ H!Count(traces[a], ks[i]) < MaxDuplicates
  BY DEF H!Admits
<1> HIDE DEF calls, r
<1>8. asks'[a] = r /\ asks' \in [Asks -> AskRows] /\ \A b \in Asks \ {a} : asks'[b] = asks[b]
  BY <1>1, <1>2, <1>5 DEF ChatTypes
<1>9. ChatTypes' /\ TakenOwn' /\ NothingGated'
  BY <1>1, <1>2, <1>8 DEF ChatTypes, ChatInv, TakenOwn, NothingGated
<1>10. ASSUME NEW b \in Asks, b # a PROVE AskInv(b)'
  BY <1>2, <1>8, <1>10, LeftAlone
<1>11. Stored(a)' /\ PendingKnown(a)' /\ StatusKnown(a)'
  BY <1>1, <1>2, <1>6, <1>8 DEF AskInv, Stored, PendingKnown, StatusKnown, Met, H!Row
<1>12. ASSUME NEW k \in Skills
       PROVE  (H!Count(traces[a], k) + Cardinality(Calls(a, k)) <= MaxDuplicates - 1 + Width)'
  <2>1. H!Count(traces[a], k)' = H!Count(traces[a], k)
    BY <1>2 DEF H!Count
  <2>2. H!Count(traces[a], k) \in Nat /\ H!Count(traces[a], k) + Cardinality(Calls(a, k)) <= MaxDuplicates - 1 + Width
    BY <1>1, CountIsNat DEF AskInv, Bounded, ChatTypes
  <2>3. Calls(a, k)' = {i \in DOMAIN calls : calls[i] = k}
    BY <1>6, <1>8 DEF Calls
  <2>4. IsFiniteSet(1..Width) /\ Cardinality(1..Width) = Width
    BY FS_Interval DEF CallsAreCounted
  <2>5. DOMAIN calls \subseteq 1..Width
    BY <1>4
  <2>6. Cardinality(Calls(a, k)') <= Width /\ Cardinality(Calls(a, k)') \in Nat
    BY <2>3, <2>4, <2>5, FS_Subset, FS_CardinalityType
  <2>7. CASE Calls(a, k)' = {}
    <3>1. Cardinality(Calls(a, k)') = 0 /\ Cardinality(Calls(a, k)) \in Nat
      BY <1>1, <2>7, FS_EmptySet, CallsFinite
    <3> QED
      BY <2>1, <2>2, <3>1 DEF CallsAreCounted
  <2>8. CASE Calls(a, k)' # {}
    <3>1. H!Count(traces[a], k) < MaxDuplicates
      BY <1>7, <2>3, <2>8
    <3> QED
      BY <2>1, <2>2, <2>6, <3>1 DEF CallsAreCounted
  <2> QED
    BY <2>7, <2>8
<1> QED
  BY <1>9, <1>10, <1>11, <1>12 DEF ChatInv, AskInv, Bounded

LEMMA CallEnds ==
  ASSUME ChatInv, CallsAreCounted, NEW a \in Asks, NEW i \in DOMAIN asks[a].calls,
         NEW state \in {"completed", "failed", "requires_confirmation"}, H!EndCall(a, i, state)
  PROVE  ChatInv'
<1> DEFINE k0 == asks[a].calls[i]
           calls == [j \in DOMAIN asks[a].calls \ {i} |-> asks[a].calls[j]]
           asked == IF state = "requires_confirmation" THEN k0 ELSE asks[a].pending
           r == [asks[a] EXCEPT !.calls = calls, !.pending = asked]
           t == [skill |-> k0, state |-> state]
<1>1. ChatTypes /\ asks[a] \in AskRows /\ AskInv(a) /\ asks[a].pc = "running" /\ traces[a] \in Seq(TraceRows)
  BY DEF ChatInv, ChatTypes, H!EndCall
<1>2. /\ asks' = [asks EXCEPT ![a] = r] /\ UNCHANGED <<convs, msgs, deleting, wiped>>
      /\ traces' = [traces EXCEPT ![a] = Append(@, t)] /\ state \in H!StateOf(k0)
      /\ effects' = IF state = "completed" THEN effects \cup {<<a, k0>>} ELSE effects
  BY <1>1 DEF H!EndCall, ChatTypes, AskRows, H!EditsIdle
<1>3. k0 \in Skills /\ DOMAIN asks[a].calls \subseteq 1..Width
  BY <1>1 DEF AskRows
<1>4. calls \in UNION {[R -> Skills] : R \in SUBSET (1..Width)} /\ asked \in Skills \cup {H!None}
  <2>1. DOMAIN calls \in SUBSET (1..Width) /\ calls \in [DOMAIN calls -> Skills]
    BY <1>1, <1>3 DEF AskRows
  <2>2. asked \in Skills \cup {H!None}
    BY <1>1, <1>3 DEF AskRows
  <2> QED
    BY <2>1, <2>2
<1>5. r \in AskRows /\ t \in TraceRows
  BY <1>1, <1>3, <1>4 DEF AskRows, TraceRows
<1>6. /\ r.pc = asks[a].pc /\ r.pending = asked /\ r.calls = calls /\ r.conv = asks[a].conv
      /\ r.mode = asks[a].mode /\ r.status = asks[a].status /\ r.text = asks[a].text
      /\ t.skill = k0 /\ t.state = state
  BY <1>1 DEF AskRows
<1>7. state = "completed" => k0 \notin Gated
  BY <1>2 DEF H!StateOf
<1>8. ASSUME NEW k PROVE {j \in DOMAIN calls : calls[j] = k} = Calls(a, k) \ {i}
  BY DEF Calls
<1>9. k0 \in Skills /\ i \in Calls(a, k0) /\ \A k : k # k0 => i \notin Calls(a, k)
  BY <1>3 DEF Calls
<1>10. asked = IF state = "requires_confirmation" THEN k0 ELSE asks[a].pending
  OBVIOUS
<1> HIDE DEF calls, r, t, asked, k0
<1>11. asks'[a] = r /\ asks' \in [Asks -> AskRows] /\ \A b \in Asks \ {a} : asks'[b] = asks[b]
  BY <1>1, <1>2, <1>5 DEF ChatTypes
<1>12. /\ traces'[a] = Append(traces[a], t) /\ traces' \in [Asks -> Seq(TraceRows)]
       /\ \A b \in Asks \ {a} : traces'[b] = traces[b]
  <2>1. Append(traces[a], t) \in Seq(TraceRows)
    BY <1>1, <1>5, AppendProperties
  <2> QED
    BY <1>1, <1>2, <2>1 DEF ChatTypes
<1>13. ChatTypes' /\ TakenOwn' /\ NothingGated'
  BY <1>1, <1>2, <1>7, <1>9, <1>11, <1>12 DEF ChatTypes, ChatInv, TakenOwn, NothingGated
<1>14. ASSUME NEW b \in Asks, b # a PROVE AskInv(b)'
  BY <1>2, <1>11, <1>12, <1>14, LeftAlone
<1>15. Stored(a)'
  BY <1>1, <1>2, <1>6, <1>11 DEF AskInv, Stored, H!Row
<1>16. PendingKnown(a)' /\ StatusKnown(a)'
  <2> DEFINE n == Len(traces[a]) + 1
  <2>1. /\ DOMAIN traces[a] = 1..Len(traces[a]) /\ Len(traces[a]) \in Nat
        /\ DOMAIN traces'[a] = 1..n /\ traces'[a][n] = t
        /\ \A j \in 1..Len(traces[a]) : traces'[a][j] = traces[a][j]
    BY <1>1, <1>5, <1>12, AppendProperties, LenProperties
  <2>2. Met(a)' = IF state = "requires_confirmation" THEN Met(a) \cup {n} ELSE Met(a)
    BY <1>6, <2>1 DEF Met
  <2>3. \A j \in Met(a) : traces'[a][j] = traces[a][j]
    BY <2>1 DEF Met
  <2>4. k0 # H!None
    BY <1>9 DEF CallsAreCounted
  <2>5. PendingKnown(a)
    BY <1>1 DEF AskInv
  <2> HIDE DEF n
  <2>6. PendingKnown(a)'
    BY <1>6, <1>10, <1>11, <2>1, <2>2, <2>3, <2>4, <2>5 DEF PendingKnown
  <2>7. StatusKnown(a)'
    BY <1>1, <1>6, <1>11 DEF StatusKnown, AskInv
  <2> QED
    BY <2>6, <2>7
<1>17. ASSUME NEW k \in Skills
       PROVE  (H!Count(traces[a], k) + Cardinality(Calls(a, k)) <= MaxDuplicates - 1 + Width)'
  <2>1. H!Count(traces[a], k)' = H!Count(traces[a], k) + (IF k0 = k THEN 1 ELSE 0)
    <3>1. H!Count(Append(traces[a], t), k) = H!Count(traces[a], k) + (IF t.skill = k THEN 1 ELSE 0)
      BY <1>1, <1>5, CountAppend
    <3>2. H!Count(traces[a], k)' = H!Count(Append(traces[a], t), k)
      BY <1>12 DEF H!Count
    <3> QED
      BY <1>6, <3>1, <3>2
  <2>2. Calls(a, k)' = Calls(a, k) \ {i}
    BY <1>6, <1>8, <1>11 DEF Calls
  <2>3. IsFiniteSet(Calls(a, k)) /\ Cardinality(Calls(a, k)) \in Nat
    BY <1>1, CallsFinite
  <2>4. Cardinality(Calls(a, k)') = IF k0 = k THEN Cardinality(Calls(a, k)) - 1 ELSE Cardinality(Calls(a, k))
    <3>1. CASE k0 = k
      BY <1>9, <2>2, <2>3, <3>1, FS_RemoveElement
    <3>2. CASE k0 # k
      <4>1. Calls(a, k)' = Calls(a, k)
        BY <1>9, <2>2, <3>2
      <4> QED
        BY <3>2, <4>1
    <3> QED
      BY <3>1, <3>2
  <2>5. H!Count(traces[a], k) \in Nat /\ H!Count(traces[a], k) + Cardinality(Calls(a, k)) <= MaxDuplicates - 1 + Width
    BY <1>1, CountIsNat DEF AskInv, Bounded
  <2> QED
    BY <2>1, <2>3, <2>4, <2>5
<1> QED
  BY <1>13, <1>14, <1>15, <1>16, <1>17 DEF ChatInv, AskInv, Bounded

(* What happens to a conversation rather than in a request.                  *)
LEMMA ConversationGoesOn ==
  ASSUME ChatInv, CallsAreCounted,
         \/ H!CreateConversation
         \/ H!ChangeConfig
         \/ \E c \in Convs, what \in {"delete", "clear"} : H!BeginDelete(c, what)
         \/ UNCHANGED H!varsChats
  PROVE  ChatInv'
<1>1. ChatTypes /\ TakenOwn /\ NothingGated
  BY DEF ChatInv
<1>2. UNCHANGED <<msgs, asks, traces, effects, wiped>>
  BY DEF H!CreateConversation, H!ChangeConfig, H!BeginDelete, H!RouterIdle, H!EditsIdle, H!varsChats
<1>3. convs' \in [Convs -> {"free", "live", "gone"}] /\ \A c \in Convs : convs[c] = "live" => convs'[c] = "live"
  <2>1. CASE H!CreateConversation
    BY <1>1, <2>1, Creates DEF H!CreateConversation
  <2>2. CASE UNCHANGED convs
    BY <1>1, <2>2 DEF ChatTypes
  <2> QED
    BY <2>1, <2>2 DEF H!ChangeConfig, H!BeginDelete, H!varsChats
<1>4. /\ deleting' \in [Convs -> [on : {H!None, "delete", "clear"}, taken : SUBSET MessageRows]]
      /\ TakenOwn'
  <2>1. ASSUME NEW c \in Convs, NEW what \in {"delete", "clear"}, H!BeginDelete(c, what)
        PROVE  <1>4!:
    <3> DEFINE d == [on |-> what, taken |-> {m \in msgs : m.conv = c}]
    <3>1. deleting' = [deleting EXCEPT ![c] = d]
      BY <2>1 DEF H!BeginDelete
    <3>2. d \in [on : {H!None, "delete", "clear"}, taken : SUBSET MessageRows] /\ \A m \in d.taken : m.conv = c
      BY <1>1 DEF ChatTypes
    <3> HIDE DEF d
    <3> QED
      BY <1>1, <3>1, <3>2 DEF ChatTypes, TakenOwn
  <2>2. CASE UNCHANGED deleting
    BY <1>1, <2>2 DEF ChatTypes, TakenOwn
  <2> QED
    BY <2>1, <2>2 DEF H!CreateConversation, H!ChangeConfig, H!EditsIdle, H!varsChats
<1>5. ChatTypes' /\ NothingGated'
  BY <1>1, <1>2, <1>3, <1>4 DEF ChatTypes, NothingGated
<1>6. ASSUME NEW b \in Asks PROVE AskInv(b)'
  BY <1>2, <1>3, LeftAlone
<1> QED
  BY <1>4, <1>5, <1>6 DEF ChatInv

(* A clear or a delete takes away the messages of its own conversation, and   *)
(* every request in it is known to have been wiped.                         *)
LEMMA ConversationWiped ==
  ASSUME ChatInv, CallsAreCounted, NEW c \in Convs, H!CommitDelete(c)
  PROVE  ChatInv'
<1>1. ChatTypes /\ TakenOwn /\ NothingGated
  BY DEF ChatInv
<1>2. UNCHANGED <<asks, traces, effects>> /\ msgs' = msgs \ deleting[c].taken
  BY DEF H!CommitDelete, H!RouterIdle
<1>3. convs' \in [Convs -> {"free", "live", "gone"}] /\ \A d \in Convs \ {c} : convs'[d] = convs[d]
  BY <1>1 DEF H!CommitDelete, ChatTypes
<1>4. /\ deleting' \in [Convs -> [on : {H!None, "delete", "clear"}, taken : SUBSET MessageRows]]
      /\ TakenOwn'
  <2> DEFINE d == [on |-> H!None, taken |-> {}]
  <2>1. deleting' = [deleting EXCEPT ![c] = d]
    BY DEF H!CommitDelete
  <2>2. d \in [on : {H!None, "delete", "clear"}, taken : SUBSET MessageRows] /\ d.taken = {}
    OBVIOUS
  <2> HIDE DEF d
  <2> QED
    BY <1>1, <2>1, <2>2 DEF ChatTypes, TakenOwn
<1>5. ChatTypes' /\ NothingGated'
  BY <1>1, <1>2, <1>3, <1>4 DEF ChatTypes, NothingGated
<1>6. ASSUME NEW b \in Asks PROVE AskInv(b)'
  <2>1. wiped \subseteq wiped' /\ (asks[b].conv = c /\ asks[b].pc # "new" => b \in wiped')
    BY DEF H!CommitDelete
  <2>2. asks[b].conv # c => \A m \in msgs : m.conv = asks[b].conv => m \in msgs'
    BY <1>1, <1>2 DEF TakenOwn
  <2> QED
    BY <1>2, <1>3, <2>1, <2>2, LeftAlone
<1> QED
  BY <1>4, <1>5, <1>6 DEF ChatInv

LEMMA ChatStep == CallsAreCounted /\ ChatInv /\ [H!NextChats]_(H!varsChats) => ChatInv'
<1> SUFFICES ASSUME CallsAreCounted, ChatInv, [H!NextChats]_(H!varsChats) PROVE ChatInv'
  OBVIOUS
<1>1. ASSUME NEW a \in Asks, NEW m \in Models, NEW c \in Convs \cup {H!None},
             (\E mode \in H!Modes : H!Open(a, mode, c, m)) \/ H!OpenAgent(a, c, m)
      PROVE  ChatInv'
  <2>1. "agent" \in H!Modes
    BY DEF H!Modes
  <2> QED
    BY <1>1, <2>1, Opens
<1>2. ASSUME NEW a \in Asks, H!Ask(a) \/ H!Finish(a) PROVE ChatInv'
  BY <1>2, MessageStored
<1>3. ASSUME NEW a \in Asks,
             \/ \E ts \in SUBSET Skills : H!Route(a, ts)
             \/ \E said \in {"completed", "requires_confirmation", "failed"} : H!RunEnds(a, said)
             \/ \E u \in BOOLEAN : H!RunFails(a, u)
             \/ \E end \in {"text", "empty", "broken"} : H!Analyse(a, end)
      PROVE  ChatInv'
  BY <1>3, RequestGoesOn
<1>4. ASSUME NEW a \in Asks, NEW ks \in H!Turns, H!BeginTurn(a, ks) PROVE ChatInv'
  BY <1>4, TurnBegins
<1>5. ASSUME NEW a \in Asks, NEW i \in DOMAIN asks[a].calls,
             NEW state \in {"completed", "failed", "requires_confirmation"}, H!EndCall(a, i, state)
      PROVE  ChatInv'
  BY <1>5, CallEnds
<1>6. ASSUME NEW c \in Convs, H!CommitDelete(c) PROVE ChatInv'
  BY <1>6, ConversationWiped
<1>7. ASSUME \/ H!CreateConversation
             \/ H!ChangeConfig
             \/ \E c \in Convs, what \in {"delete", "clear"} : H!BeginDelete(c, what)
             \/ UNCHANGED H!varsChats
      PROVE  ChatInv'
  BY <1>7, ConversationGoesOn
<1> QED
  BY <1>1, <1>2, <1>3, <1>4, <1>5, <1>6, <1>7 DEF H!NextChats

LEMMA ChatSafe == CallsAreCounted /\ ChatInv => H!ExchangesStored /\ H!GatedCallsWait /\ H!CallsBounded
<1> SUFFICES ASSUME CallsAreCounted, ChatInv PROVE H!ExchangesStored /\ H!GatedCallsWait /\ H!CallsBounded
  OBVIOUS
<1>1. ChatTypes /\ \A a \in Asks : Stored(a) /\ PendingKnown(a) /\ StatusKnown(a) /\ Bounded(a)
  BY DEF ChatInv, AskInv
<1>2. H!ExchangesStored
  BY <1>1 DEF H!ExchangesStored, Stored
<1>3. H!GatedCallsWait
  BY <1>1 DEF H!GatedCallsWait, PendingKnown, StatusKnown, Met, ChatInv, NothingGated
<1>4. ASSUME NEW a \in Asks, NEW k \in Skills PROVE H!Count(traces[a], k) <= MaxDuplicates - 1 + Width
  <2>1. H!Count(traces[a], k) \in Nat /\ Cardinality(Calls(a, k)) \in Nat
    BY <1>1, CountIsNat, CallsFinite DEF ChatTypes
  <2> QED
    BY <1>1, <2>1 DEF Bounded, CallsAreCounted
<1>5. H!CallsBounded
  BY <1>4 DEF H!CallsBounded
<1> QED
  BY <1>2, <1>3, <1>5

(* A chat that is done has left its question and its answer in its           *)
(* conversation, unless that was cleared or deleted meanwhile; a skill that   *)
(* needs a confirmation takes no effect, and the client is asked about one    *)
(* that was met; and a skill is called no more often than the limit and the    *)
(* calls of one turn allow.                                                   *)
THEOREM ChatsKeepTheirWord ==
  ASSUME CallsAreCounted
  PROVE  H!SpecChats => [](H!ExchangesStored /\ H!GatedCallsWait /\ H!CallsBounded)
<1>1. H!InitChats => ChatInv
  BY ChatInit
<1>2. ChatInv /\ [H!NextChats]_(H!varsChats) => ChatInv'
  BY ChatStep
<1>3. ChatInv => H!ExchangesStored /\ H!GatedCallsWait /\ H!CallsBounded
  BY ChatSafe
<1> QED
  BY <1>1, <1>2, <1>3, PTL DEF H!SpecChats

-----------------------------------------------------------------------------
(* ProjectSteward: what a look calls fresh.                                  *)

CONSTANTS NRecs, Due, Effort, Suggested, Limit, NFocus, Links, MaxEdits
VARIABLES rec, seen, edits, reading, diag, shown, plan, torn
PS == INSTANCE ProjectSteward

(* A task as it was read at some time: its version tells whether it changed. *)
Earlier(read, kept) == read.ver <= kept.ver /\ (read.ver = kept.ver => read = kept)
Numbered(T) == T = [t \in DOMAIN T |-> T[t]] /\ DOMAIN T \subseteq PS!Recs /\ \A t \in DOMAIN T : T[t].ver \in Nat

TasksKnown ==
    /\ DOMAIN rec = PS!Recs /\ (\A t \in PS!Recs : rec[t].ver \in Nat) /\ seen \subseteq PS!Recs
    /\ Numbered(reading.tasks)
    /\ \A t \in DOMAIN reading.tasks : Earlier(reading.tasks[t], rec[t])

(* The tasks T are what the stored diagnosis is about: its fingerprint has    *)
(* their versions, and whoever looks at it reads them as they were or later. *)
IsAbout(T) ==
    /\ Numbered(T)
    /\ diag.about = PS!Diagnose(T)
    /\ DOMAIN diag.print = DOMAIN T
    /\ \A t \in DOMAIN T :
         /\ diag.print[t] = T[t].ver
         /\ Earlier(T[t], rec[t])
         /\ reading.for = "look" /\ t \in DOMAIN reading.tasks => Earlier(T[t], reading.tasks[t])

StewardInv ==
    /\ TasksKnown
    /\ reading.for = "look" => diag # PS!NoDiag
    /\ diag # PS!NoDiag /\ ~ torn => \E T : IsAbout(T)

LEMMA StewardInit == PS!InitSteward => StewardInv
<1> SUFFICES ASSUME PS!InitSteward PROVE StewardInv
  OBVIOUS
<1>1. rec \in [PS!Recs -> [status : {"open"}, deps : Links, owned : {FALSE}, ver : {1}]] /\ seen = PS!Recs
  BY DEF PS!InitSteward
<1>2. reading.tasks = << >> /\ reading.for = "nothing" /\ diag = PS!NoDiag
  BY DEF PS!InitSteward, PS!NoRead
<1>3. Numbered(reading.tasks) /\ DOMAIN reading.tasks = {}
  BY <1>2 DEF Numbered
<1>4. DOMAIN rec = PS!Recs /\ \A t \in PS!Recs : rec[t].ver \in Nat
  <2>1. ASSUME NEW t \in PS!Recs PROVE rec[t].ver = 1
    BY <1>1
  <2> QED
    BY <1>1, <2>1
<1>5. TasksKnown
  BY <1>1, <1>3, <1>4 DEF TasksKnown
<1> QED
  BY <1>2, <1>5 DEF StewardInv

(* A read takes tasks as they are. *)
LEMMA ReadBegins ==
  ASSUME StewardInv, NEW what \in {"ask", "look", "plan"}, PS!BeginRead(what)
  PROVE  StewardInv'
<1>1. /\ UNCHANGED <<rec, seen, diag, torn>> /\ (what = "look" => diag # PS!NoDiag)
      /\ reading'.for = what /\ reading'.tasks = PS!Scope
  BY DEF PS!BeginRead
<1>2. DOMAIN PS!Scope \subseteq seen /\ \A t \in DOMAIN PS!Scope : PS!Scope[t] = rec[t]
  BY DEF PS!Scope, PS!FirstOf
<1>3. PS!Scope = [t \in DOMAIN PS!Scope |-> PS!Scope[t]]
  BY DEF PS!Scope
<1>4. Numbered(PS!Scope)
  BY <1>2, <1>3 DEF StewardInv, TasksKnown, Numbered
<1>5. TasksKnown'
  BY <1>1, <1>2, <1>4 DEF StewardInv, TasksKnown, Earlier, Numbered
<1>6. ASSUME NEW T, IsAbout(T) PROVE IsAbout(T)'
  BY <1>1, <1>2, <1>6 DEF IsAbout
<1> QED
  BY <1>1, <1>5, <1>6 DEF StewardInv

(* A diagnosis that is stored is about the tasks that were read, with the     *)
(* versions of now: the same ones unless it is torn.                        *)
LEMMA DiagnosisStored ==
  ASSUME StewardInv, PS!EndAsk
  PROVE  StewardInv'
<1>1. /\ UNCHANGED <<rec, seen>> /\ reading' = PS!NoRead
      /\ diag'.about = PS!Diagnose(reading.tasks) /\ diag'.print = PS!Fingerprint
      /\ torn' = (\E t \in DOMAIN reading.tasks : rec[t].ver # reading.tasks[t].ver)
  BY DEF PS!EndAsk
<1>2. reading'.tasks = << >> /\ reading'.for = "nothing"
  BY <1>1 DEF PS!NoRead
<1>3. Numbered(reading.tasks)' /\ DOMAIN reading'.tasks = {}
  BY <1>2 DEF Numbered
<1>4. TasksKnown'
  BY <1>1, <1>3 DEF StewardInv, TasksKnown
<1>5. /\ DOMAIN diag'.print = DOMAIN reading.tasks
      /\ \A t \in DOMAIN reading.tasks : diag'.print[t] = rec[t].ver
  BY <1>1 DEF PS!Fingerprint
<1>6. ASSUME ~ torn' PROVE \E T : IsAbout(T)'
  <2>1. \A t \in DOMAIN reading.tasks : rec[t].ver = reading.tasks[t].ver
    BY <1>1, <1>6
  <2>2. ASSUME NEW T, T = reading.tasks PROVE IsAbout(T)'
    BY <1>1, <1>2, <1>5, <2>1, <2>2 DEF IsAbout, StewardInv, TasksKnown
  <2> QED
    BY <2>2
<1> QED
  BY <1>2, <1>4, <1>6 DEF StewardInv

(* An edit gives a task a new version. *)
LEMMA TaskEdited ==
  ASSUME StewardInv, NEW t \in PS!Recs, NEW status, NEW deps, NEW owned, PS!Edit(t, status, deps, owned)
  PROVE  StewardInv'
<1>1. /\ UNCHANGED <<seen, reading, diag, torn>> /\ DOMAIN rec' = DOMAIN rec
      /\ rec'[t].ver = rec[t].ver + 1 /\ \A u \in PS!Recs \ {t} : rec'[u] = rec[u]
  BY DEF PS!Edit, StewardInv, TasksKnown
<1>2. ASSUME NEW x, NEW u \in PS!Recs, x.ver \in Nat, Earlier(x, rec[u]) PROVE Earlier(x, rec[u])'
  BY <1>1, <1>2 DEF Earlier, StewardInv, TasksKnown
<1>3. TasksKnown'
  BY <1>1, <1>2 DEF StewardInv, TasksKnown, Numbered
<1>4. ASSUME NEW T, IsAbout(T) PROVE IsAbout(T)'
  BY <1>1, <1>2, <1>4 DEF IsAbout, Numbered
<1> QED
  BY <1>1, <1>3, <1>4 DEF StewardInv

(* The end of a read forgets it. *)
LEMMA ReadForgotten ==
  ASSUME StewardInv, UNCHANGED <<rec, diag, torn>>, seen' \subseteq PS!Recs, reading' = PS!NoRead \/ reading' = reading
  PROVE  StewardInv'
<1>1. CASE reading' = PS!NoRead
  <2>1. reading'.tasks = << >> /\ reading'.for = "nothing"
    BY <1>1 DEF PS!NoRead
  <2>2. Numbered(reading.tasks)' /\ DOMAIN reading'.tasks = {}
    BY <2>1 DEF Numbered
  <2>3. TasksKnown'
    BY <2>2 DEF StewardInv, TasksKnown
  <2>4. ASSUME NEW T, IsAbout(T) PROVE IsAbout(T)'
    BY <2>1, <2>4 DEF IsAbout
  <2> QED
    BY <2>1, <2>3, <2>4 DEF StewardInv
<1>2. CASE reading' = reading
  <2>1. TasksKnown'
    BY <1>2 DEF StewardInv, TasksKnown
  <2>2. ASSUME NEW T, IsAbout(T) PROVE IsAbout(T)'
    BY <1>2, <2>2 DEF IsAbout
  <2> QED
    BY <1>2, <2>1, <2>2 DEF StewardInv
<1> QED
  BY <1>1, <1>2

(* The fingerprint of the tasks a look has read is that of the diagnosis: so  *)
(* none has changed since, neither before it was read nor after.            *)
LEMMA FreshIsSame ==
  ASSUME StewardInv, reading.for = "look", ~ torn, PS!Fresh
  PROVE  diag.about = PS!Diagnose(reading.tasks)
<1>1. PICK T : IsAbout(T)
  BY DEF StewardInv
<1>2. /\ DOMAIN reading.tasks = DOMAIN T
      /\ \A t \in DOMAIN T : rec[t].ver = T[t].ver
  BY <1>1 DEF PS!Fresh, PS!Fingerprint, IsAbout
<1>3. ASSUME NEW t \in DOMAIN T PROVE reading.tasks[t] = T[t]
  <2>1. Earlier(T[t], rec[t]) /\ Earlier(T[t], reading.tasks[t]) /\ Earlier(reading.tasks[t], rec[t])
    BY <1>1, <1>2 DEF IsAbout, StewardInv, TasksKnown
  <2>2. T[t].ver \in Nat /\ reading.tasks[t].ver \in Nat /\ rec[t].ver \in Nat
    BY <1>1, <1>2 DEF IsAbout, StewardInv, TasksKnown, Numbered
  <2> QED
    BY <1>2, <2>1, <2>2 DEF Earlier
<1>4. reading.tasks = T
  BY <1>1, <1>2, <1>3 DEF IsAbout, StewardInv, TasksKnown, Numbered
<1> QED
  BY <1>1, <1>4 DEF IsAbout

LEMMA StewardStep ==
  ASSUME StewardInv, [PS!NextSteward]_(PS!varsSteward)
  PROVE  StewardInv' /\ PS!FreshDiagnosesHoldStep
<1>1. ASSUME NEW what \in {"ask", "look", "plan"}, PS!BeginRead(what)
      PROVE  StewardInv' /\ UNCHANGED shown
  BY <1>1, ReadBegins DEF PS!BeginRead
<1>2. ASSUME PS!EndAsk PROVE StewardInv' /\ UNCHANGED shown
  BY <1>2, DiagnosisStored DEF PS!EndAsk
<1>3. ASSUME PS!EndLook PROVE StewardInv' /\ PS!FreshDiagnosesHoldStep
  <2>1. StewardInv'
    BY <1>3, ReadForgotten DEF PS!EndLook, StewardInv, TasksKnown
  <2>2. CASE PS!Fresh
    BY <1>3, <2>1, <2>2, FreshIsSame DEF PS!EndLook, PS!FreshDiagnosesHoldStep
  <2>3. CASE ~ PS!Fresh
    BY <1>3, <2>1, <2>3 DEF PS!EndLook, PS!FreshDiagnosesHoldStep, PS!Stale
  <2> QED
    BY <2>1, <2>2, <2>3
<1>4. ASSUME PS!Refuse PROVE StewardInv' /\ UNCHANGED shown
  BY <1>4, ReadForgotten DEF PS!Refuse, StewardInv, TasksKnown
<1>5. ASSUME NEW ds, PS!Generate(ds) \/ PS!Propose(ds) PROVE StewardInv' /\ UNCHANGED shown
  BY <1>5, ReadForgotten DEF PS!Generate, PS!Propose, StewardInv, TasksKnown
<1>6. ASSUME NEW t \in PS!Recs, NEW status, NEW deps, NEW owned, PS!Edit(t, status, deps, owned)
      PROVE  StewardInv' /\ UNCHANGED shown
  BY <1>6, TaskEdited DEF PS!Edit
<1>7. ASSUME NEW R \in SUBSET PS!Recs, PS!ChangeScope(R) PROVE StewardInv' /\ UNCHANGED shown
  BY <1>7, ReadForgotten DEF PS!ChangeScope
<1>8. CASE UNCHANGED PS!varsSteward
  BY <1>8, ReadForgotten DEF PS!varsSteward, StewardInv, TasksKnown, PS!FreshDiagnosesHoldStep
<1>9. UNCHANGED shown => PS!FreshDiagnosesHoldStep
  BY DEF PS!FreshDiagnosesHoldStep
<1> QED
  BY <1>1, <1>2, <1>3, <1>4, <1>5, <1>6, <1>7, <1>8, <1>9 DEF PS!NextSteward

(* A look calls a diagnosis fresh only when the tasks it has just read would *)
(* give it again, unless a task changed between the two reads of the         *)
(* diagnosis: comparing versions is enough, although contents and versions   *)
(* are read one after the other (get_diagnosis in project_steward.py).       *)
THEOREM FreshLooksAreRight == PS!SpecSteward => PS!FreshDiagnosesHold
<1>1. PS!InitSteward => StewardInv
  BY StewardInit
<1>2. StewardInv /\ [PS!NextSteward]_(PS!varsSteward) => StewardInv' /\ PS!FreshDiagnosesHoldStep
  BY StewardStep
<1> QED
  BY <1>1, <1>2, PTL DEF PS!SpecSteward, PS!FreshDiagnosesHold

-----------------------------------------------------------------------------
(* WorkloadForecast: the forecast of any number of tasks. First sums over    *)
(* finite sets and the largest of some numbers; then the invariant of the    *)
(* order, the measures and the path; then what follows from it.              *)

CONSTANTS NTasks, Preds, Answers, Attempts, Teams, Days
VARIABLES needs, parallel, est, tried, hours, phase, unmet, order, longest, before, path
F == INSTANCE WorkloadForecast

(* A set of numbers that is not empty has a least one. *)
LEMMA LeastNat ==
  ASSUME NEW T \in SUBSET Nat, T # {}
  PROVE  \E n \in T : \A m \in T : n <= m
<1>1. PICK n \in T : \A m \in T : ~ (<<m, n>> \in OpToRel(<, Nat))
  BY WFMin, NatLessThanWellFounded
<1>2. ASSUME NEW m \in T PROVE n <= m
  <2>1. OpToRel(<, Nat) = {p \in Nat \X Nat : p[1] < p[2]}
    BY DEF OpToRel
  <2>2. ~ (<<m, n>> \in {p \in Nat \X Nat : p[1] < p[2]})
    BY <1>1, <2>1
  <2> QED
    BY <2>2
<1> QED
  BY <1>2

(* A finite set of which the claim fails contains a smallest one. *)
LEMMA SmallestSet ==
  ASSUME NEW S, IsFiniteSet(S), NEW B \in SUBSET (SUBSET S), B # {}
  PROVE  \E s \in B : /\ IsFiniteSet(s) /\ Cardinality(s) \in Nat
                      /\ \A r \in B : Cardinality(s) <= Cardinality(r)
<1>1. \A s \in SUBSET S : IsFiniteSet(s) /\ Cardinality(s) \in Nat
  BY FS_Subset, FS_CardinalityType
<1> DEFINE N == {Cardinality(s) : s \in B}
<1>2. N \in SUBSET Nat /\ N # {}
  BY <1>1
<1>3. PICK n \in N : \A m \in N : n <= m
  BY <1>2, LeastNat
<1> QED
  BY <1>1, <1>3

(* f sums w over the parts of S, an element at a time. *)
First(s) == CHOOSE x \in s : TRUE
Sums(f, w, S) ==
    f = [s \in SUBSET S |-> IF s = {} THEN 0 ELSE w[First(s)] + f[s \ {First(s)}]]

LEMMA SumsExist ==
  ASSUME NEW S, IsFiniteSet(S), NEW w
  PROVE  \E f : Sums(f, w, S)
<1> DEFINE Body(f, s) == IF s = {} THEN 0 ELSE w[First(s)] + f[s \ {First(s)}]
           Upto(n) == \E f : \A s \in SUBSET S : Cardinality(s) < n => f[s] = Body(f, s)
           T == {n \in 0..Cardinality(S) + 1 : ~ Upto(n)}
<1>0. /\ \A s \in SUBSET S : IsFiniteSet(s) /\ Cardinality(s) \in Nat /\ Cardinality(s) <= Cardinality(S)
      /\ Cardinality(S) \in Nat
  BY FS_Subset, FS_CardinalityType
<1>1. \A s \in SUBSET S : s # {} => First(s) \in s /\ Cardinality(s \ {First(s)}) = Cardinality(s) - 1
  BY <1>0, FS_RemoveElement DEF First
<1>2. Upto(0)
  BY <1>0
<1>3. ASSUME NEW n \in 1..Cardinality(S) + 1, Upto(n - 1)
      PROVE  Upto(n)
  <2>1. PICK f : \A s \in SUBSET S : Cardinality(s) < n - 1 => f[s] = Body(f, s)
    BY <1>3
  <2> DEFINE g == [s \in SUBSET S |-> IF Cardinality(s) = n - 1 THEN Body(f, s) ELSE f[s]]
  <2>2. ASSUME NEW s \in SUBSET S, Cardinality(s) < n
        PROVE  g[s] = Body(g, s)
    <3>1. s # {} => g[s \ {First(s)}] = f[s \ {First(s)}]
      <4>1. ASSUME s # {} PROVE Cardinality(s \ {First(s)}) # n - 1 /\ s \ {First(s)} \in SUBSET S
        BY <1>0, <1>1, <2>2, <4>1
      <4> QED
        BY <4>1
    <3>2. Body(g, s) = Body(f, s)
      BY <3>1
    <3>3. Cardinality(s) = n - 1 \/ Cardinality(s) < n - 1
      BY <1>0, <2>2
    <3>4. g[s] = Body(f, s)
      <4> HIDE DEF Body
      <4> QED
        BY <2>1, <3>3
    <3> QED
      BY <3>2, <3>4
  <2> HIDE DEF g, Body
  <2> QED
    BY <2>2
<1> HIDE DEF Upto
<1>4. ASSUME T # {} PROVE FALSE
  <2>1. T \subseteq Nat
    BY <1>0
  <2>2. PICK n \in T : \A m \in T : n <= m
    BY <1>4, <2>1, LeastNat
  <2>3. n \in 1..Cardinality(S) + 1
    BY <1>0, <1>2
  <2>4. n - 1 \in 0..Cardinality(S) + 1 /\ n - 1 \notin T
    BY <1>0, <2>2, <2>3
  <2> QED
    BY <1>3, <2>3, <2>4
<1>5. Upto(Cardinality(S) + 1)
  BY <1>0, <1>4
<1>6. PICK f : \A s \in SUBSET S : f[s] = Body(f, s)
  <2> HIDE DEF Body
  <2>1. \A s \in SUBSET S : Cardinality(s) < Cardinality(S) + 1
    BY <1>0
  <2> QED
    BY <1>5, <2>1 DEF Upto
<1> DEFINE g == [s \in SUBSET S |-> f[s]]
<1>7. ASSUME NEW s \in SUBSET S PROVE Body(g, s) = Body(f, s)
  OBVIOUS
<1>8. \A s \in SUBSET S : g[s] = Body(g, s)
  <2> HIDE DEF Body
  <2> QED
    BY <1>6, <1>7
<1>9. g = [s \in SUBSET S |-> Body(g, s)]
  <2> HIDE DEF Body
  <2> QED
    BY <1>8
<1> QED
  BY <1>9 DEF Sums

(* The value of a sum is a number, and an element counts once wherever it    *)
(* is taken.                                                                *)
LEMMA SumsAreInt ==
  ASSUME NEW S, IsFiniteSet(S), NEW w \in [S -> Int], NEW f, Sums(f, w, S)
  PROVE  \A s \in SUBSET S : f[s] \in Int
<1> DEFINE B == {s \in SUBSET S : f[s] \notin Int}
<1>1. ASSUME B # {} PROVE FALSE
  <2>1. PICK s \in B : /\ IsFiniteSet(s) /\ Cardinality(s) \in Nat
                       /\ \A r \in B : Cardinality(s) <= Cardinality(r)
    BY <1>1, SmallestSet
  <2>2. f[s] = IF s = {} THEN 0 ELSE w[First(s)] + f[s \ {First(s)}]
    BY DEF Sums
  <2>3. s # {} /\ First(s) \in s
    BY <2>1, <2>2 DEF First
  <2>4. Cardinality(s \ {First(s)}) = Cardinality(s) - 1
    BY <2>1, <2>3, FS_RemoveElement
  <2>5. s \ {First(s)} \notin B
    BY <2>1, <2>4
  <2>6. f[s \ {First(s)}] \in Int /\ w[First(s)] \in Int
    BY <2>3, <2>5
  <2> QED
    BY <2>1, <2>2, <2>3, <2>6
<1> QED
  BY <1>1

LEMMA SumsAdd ==
  ASSUME NEW S, IsFiniteSet(S), NEW w \in [S -> Int], NEW f, Sums(f, w, S)
  PROVE  /\ f[{}] = 0
         /\ \A s \in SUBSET S : \A x \in S \ s : f[s \cup {x}] = f[s] + w[x]
<1>1. \A s \in SUBSET S : f[s] = IF s = {} THEN 0 ELSE w[First(s)] + f[s \ {First(s)}]
  BY DEF Sums
<1>2. \A s \in SUBSET S : f[s] \in Int
  BY SumsAreInt
<1> DEFINE Right(s) == \A x \in S \ s : f[s \cup {x}] = f[s] + w[x]
           B == {s \in SUBSET S : ~ Right(s)}
<1>3. ASSUME B # {} PROVE FALSE
  <2>1. PICK s \in B : /\ IsFiniteSet(s) /\ Cardinality(s) \in Nat
                       /\ \A r \in B : Cardinality(s) <= Cardinality(r)
    BY <1>3, SmallestSet
  <2>2. PICK x \in S \ s : f[s \cup {x}] # f[s] + w[x]
    BY <2>1
  <2> DEFINE c == First(s \cup {x})
  <2>3. c \in s \cup {x} /\ f[s \cup {x}] = w[c] + f[(s \cup {x}) \ {c}]
    BY <1>1, <2>2 DEF First
  <2> HIDE DEF c
  <2>4. w[x] \in Int /\ f[s] \in Int /\ w[c] \in Int
    BY <1>2, <2>3
  <2>5. c # x
    <3>1. ASSUME c = x PROVE FALSE
      <4>1. (s \cup {x}) \ {c} = s
        BY <2>2, <3>1
      <4>2. f[s \cup {x}] = w[x] + f[s]
        BY <2>3, <3>1, <4>1
      <4>3. w[x] + f[s] = f[s] + w[x]
        BY <2>4
      <4> QED
        BY <2>2, <4>2, <4>3
    <3> QED
      BY <3>1
  <2> DEFINE r == s \ {c}
  <2>6. c \in s /\ r \in SUBSET S /\ (s \cup {x}) \ {c} = r \cup {x} /\ x \in S \ r /\ s = r \cup {c} /\ c \in S \ r
    BY <2>2, <2>3, <2>5
  <2>7. Cardinality(r) = Cardinality(s) - 1
    BY <2>1, <2>6, FS_RemoveElement
  <2>8. Right(r)
    BY <2>1, <2>6, <2>7
  <2> HIDE DEF r
  <2>9. f[r \cup {x}] = f[r] + w[x] /\ f[s] = f[r] + w[c] /\ f[r] \in Int
    BY <1>2, <2>6, <2>8
  <2>10. f[s \cup {x}] = w[c] + f[r \cup {x}]
    BY <2>3, <2>6
  <2>11. w[c] + (f[r] + w[x]) = (f[r] + w[c]) + w[x]
    BY <2>4, <2>9
  <2> QED
    BY <2>2, <2>9, <2>10, <2>11
<1>4. f[{}] = 0
  BY <1>1
<1> QED
  BY <1>3, <1>4

(* Two sums of the same numbers are equal. *)
LEMMA SumsAgree ==
  ASSUME NEW S, IsFiniteSet(S), NEW T, NEW w, NEW v, NEW f, NEW g, Sums(f, w, S), Sums(g, v, T),
         NEW R, R \in SUBSET S, R \in SUBSET T, \A x \in R : w[x] = v[x]
  PROVE  f[R] = g[R]
<1> DEFINE B == {s \in SUBSET R : f[s] # g[s]}
<1>1. ASSUME B # {} PROVE FALSE
  <2>0. IsFiniteSet(R)
    BY FS_Subset
  <2>1. PICK s \in B : /\ IsFiniteSet(s) /\ Cardinality(s) \in Nat
                       /\ \A r \in B : Cardinality(s) <= Cardinality(r)
    BY <1>1, <2>0, SmallestSet
  <2>2. s \in SUBSET R /\ s \in SUBSET S /\ s \in SUBSET T /\ f[s] # g[s]
    BY <2>1
  <2>3. /\ f[s] = IF s = {} THEN 0 ELSE w[First(s)] + f[s \ {First(s)}]
        /\ g[s] = IF s = {} THEN 0 ELSE v[First(s)] + g[s \ {First(s)}]
    BY <2>2 DEF Sums
  <2>4. s # {} /\ First(s) \in s /\ w[First(s)] = v[First(s)]
    BY <2>2, <2>3 DEF First
  <2>5. Cardinality(s \ {First(s)}) = Cardinality(s) - 1
    BY <2>1, <2>4, FS_RemoveElement
  <2>6. f[s \ {First(s)}] = g[s \ {First(s)}]
    BY <2>1, <2>2, <2>5
  <2> QED
    BY <2>2, <2>3, <2>4, <2>6
<1> QED
  BY <1>1

(* A sum of larger numbers is not smaller. *)
LEMMA SumsGrow ==
  ASSUME NEW S, IsFiniteSet(S), NEW w \in [S -> Nat], NEW v \in [S -> Nat], NEW f, NEW g,
         Sums(f, w, S), Sums(g, v, S), \A x \in S : w[x] <= v[x]
  PROVE  f[S] <= g[S] /\ f[S] \in Nat /\ g[S] \in Nat
<1> DEFINE B == {s \in SUBSET S : ~ (f[s] <= g[s] /\ f[s] \in Nat /\ g[s] \in Nat)}
<1>1. ASSUME B # {} PROVE FALSE
  <2>1. PICK s \in B : /\ IsFiniteSet(s) /\ Cardinality(s) \in Nat
                       /\ \A r \in B : Cardinality(s) <= Cardinality(r)
    BY <1>1, SmallestSet
  <2>2. s \in SUBSET S /\ ~ (f[s] <= g[s] /\ f[s] \in Nat /\ g[s] \in Nat)
    BY <2>1
  <2>3. /\ f[s] = IF s = {} THEN 0 ELSE w[First(s)] + f[s \ {First(s)}]
        /\ g[s] = IF s = {} THEN 0 ELSE v[First(s)] + g[s \ {First(s)}]
    BY <2>2 DEF Sums
  <2>4. s # {}
    BY <2>2, <2>3
  <2>5. First(s) \in s /\ w[First(s)] <= v[First(s)] /\ w[First(s)] \in Nat /\ v[First(s)] \in Nat
    BY <2>2, <2>4 DEF First
  <2>6. Cardinality(s \ {First(s)}) = Cardinality(s) - 1
    BY <2>1, <2>5, FS_RemoveElement
  <2>7. s \ {First(s)} \notin B
    BY <2>1, <2>6
  <2>8. LET r == s \ {First(s)} IN f[r] <= g[r] /\ f[r] \in Nat /\ g[r] \in Nat
    BY <2>2, <2>7
  <2> QED
    BY <2>2, <2>3, <2>4, <2>5, <2>8
<1> QED
  BY <1>1

(* The operators of the forecast that add up are such sums. *)
LEMMA MappedIsSum ==
  ASSUME NEW S, IsFiniteSet(S), NEW w
  PROVE  \E f : Sums(f, w, S) /\ F!MapThenSumSet(LAMBDA t : w[t], S) = f[S]
<1> DEFINE Body(f) == [s \in SUBSET S |-> IF s = {} THEN 0 ELSE w[First(s)] + f[s \ {First(s)}]]
           iter == CHOOSE f : f = Body(f)
<1>1. F!MapThenSumSet(LAMBDA t : w[t], S) = iter[S]
  BY DEF F!MapThenSumSet, F!MapThenFoldSet, First
<1>2. \A f : f = Body(f) <=> Sums(f, w, S)
  BY DEF Sums
<1>3. iter = Body(iter)
  BY <1>2, SumsExist
<1> QED
  BY <1>1, <1>2, <1>3

LEMMA GreatestOf ==
  ASSUME NEW S \in SUBSET Int, NEW m \in S, \A x \in S : x <= m
  PROVE  F!Max(S) = m
<1>1. \A y \in S : m >= y
  OBVIOUS
<1> DEFINE g == F!Max(S)
<1>2. g \in S /\ \A y \in S : g >= y
  BY <1>1 DEF F!Max
<1> HIDE DEF g
<1>3. g \in Int /\ m \in Int /\ g >= m /\ m >= g
  BY <1>1, <1>2
<1>4. g = m
  BY <1>3
<1> QED
  BY <1>4 DEF g

LEMMA LeastOf ==
  ASSUME NEW S \in SUBSET Int, NEW m \in S, \A x \in S : m <= x
  PROVE  F!Min(S) = m
<1> DEFINE g == F!Min(S)
<1>2. g \in S /\ \A y \in S : g <= y
  BY DEF F!Min
<1> HIDE DEF g
<1>3. g \in Int /\ m \in Int /\ g <= m /\ m <= g
  BY <1>2
<1>4. g = m
  BY <1>3
<1> QED
  BY <1>4 DEF g

LEMMA GreaterOfTwo ==
  ASSUME NEW a \in Int, NEW b \in Int
  PROVE  F!Max({a, b}) = IF a >= b THEN a ELSE b
<1>1. CASE a >= b
  BY <1>1, GreatestOf
<1>2. CASE ~ (a >= b)
  BY <1>2, GreatestOf
<1> QED
  BY <1>1, <1>2

LEMMA GreatestOfThree ==
  ASSUME NEW a \in Int, NEW b \in Int, NEW c \in Int
  PROVE  LET m == F!Max({a, b, c}) IN m \in {a, b, c} /\ a <= m /\ b <= m /\ c <= m
<1>1. PICK m \in {a, b, c} : a <= m /\ b <= m /\ c <= m
  OBVIOUS
<1>2. F!Max({a, b, c}) = m
  BY <1>1, GreatestOf
<1> QED
  BY <1>1, <1>2

LEMMA LeastOfThree ==
  ASSUME NEW a \in Int, NEW b \in Int, NEW c \in Int
  PROVE  LET m == F!Min({a, b, c}) IN m \in {a, b, c} /\ m <= a /\ m <= b /\ m <= c
<1>1. PICK m \in {a, b, c} : m <= a /\ m <= b /\ m <= c
  OBVIOUS
<1>2. F!Min({a, b, c}) = m
  BY <1>1, LeastOf
<1> QED
  BY <1>1, <1>2

LEMMA LeastOfTwo ==
  ASSUME NEW a \in Int, NEW b \in Int
  PROVE  F!Min({a, b}) = IF a <= b THEN a ELSE b
<1>1. CASE a <= b
  BY <1>1, LeastOf
<1>2. CASE ~ (a <= b)
  BY <1>2, LeastOf
<1> QED
  BY <1>1, <1>2

(* Numbers given to the first N tasks have a bound. *)
LEMMA NumbersBounded ==
  ASSUME NEW N \in Nat, NEW S \in SUBSET (1..N), NEW v, \A p \in S : v[p] \in Nat
  PROVE  \E m \in Nat : \A q \in S : v[q] <= m
<1> DEFINE P(n) == \E m \in Nat : \A q \in S : q <= n => v[q] <= m
           Wrong == {n \in 0..N : ~ P(n)}
<1>1. P(0)
  <2>1. \A q \in S : ~ (q <= 0)
    OBVIOUS
  <2>2. \A q \in S : q <= 0 => v[q] <= 0
    BY <2>1
  <2> QED
    BY <2>2
<1>2. ASSUME NEW n \in 1..N, P(n - 1) PROVE P(n)
  <2>1. PICK m \in Nat : \A q \in S : q <= n - 1 => v[q] <= m
    BY <1>2
  <2>2. ASSUME NEW k \in Nat, k >= m, n \in S => v[n] <= k PROVE P(n)
    <3>1. ASSUME NEW q \in S, q <= n PROVE v[q] <= k
      <4>1. q = n \/ q <= n - 1
        BY <3>1
      <4>2. v[q] \in Nat
        OBVIOUS
      <4> QED
        BY <2>1, <2>2, <4>1, <4>2
    <3> QED
      BY <3>1
  <2> HIDE DEF P
  <2>3. CASE n \in S /\ v[n] >= m
    BY <2>2, <2>3
  <2>4. CASE ~ (n \in S /\ v[n] >= m)
    <3>1. n \in S => v[n] \in Nat
      OBVIOUS
    <3>2. m >= m /\ (n \in S => v[n] <= m)
      BY <2>4, <3>1
    <3> QED
      BY <2>2, <3>2
  <2> QED
    BY <2>3, <2>4
<1> HIDE DEF P
<1>3. ASSUME Wrong # {} PROVE FALSE
  <2>1. Wrong \in SUBSET Nat
    OBVIOUS
  <2>2. PICK n \in Wrong : \A k \in Wrong : n <= k
    BY <1>3, <2>1, LeastNat
  <2>3. n \in 1..N
    BY <1>1
  <2>4. n - 1 \in 0..N /\ n - 1 \notin Wrong
    BY <2>2, <2>3
  <2> QED
    BY <1>2, <2>3, <2>4
<1>4. P(N)
  BY <1>3
<1>5. PICK m \in Nat : \A q \in S : q <= N => v[q] <= m
  BY <1>4 DEF P
<1> QED
  BY <1>5

(* Of some of the first N tasks there is a first one with the most. *)
LEMMA FirstLargest ==
  ASSUME NEW N \in Nat, NEW S \in SUBSET (1..N), S # {}, NEW v, \A p \in S : v[p] \in Nat
  PROVE  \E p \in S : /\ \A q \in S : v[q] <= v[p]
                      /\ \A q \in S : v[q] = v[p] => p <= q
<1> DEFINE M == {n \in Nat : \A q \in S : v[q] <= n}
<1>1. M \in SUBSET Nat
  OBVIOUS
<1>2. M # {}
  BY NumbersBounded
<1>3. PICK n \in M : \A k \in M : n <= k
  BY <1>1, <1>2, LeastNat
<1>4. n \in Nat /\ \A q \in S : v[q] <= n
  BY <1>3
<1> DEFINE L == {p \in S : v[p] = n}
<1>5. ASSUME \A p \in S : v[p] # n PROVE FALSE
  <2>1. PICK p \in S : TRUE
    OBVIOUS
  <2>2. \A q \in S : v[q] <= n - 1
    BY <1>4, <1>5
  <2>3. n - 1 \in Nat
    BY <1>4, <2>2
  <2>4. n - 1 \in M
    BY <2>2, <2>3
  <2>5. n <= n - 1
    BY <1>3, <2>4
  <2> QED
    BY <1>4, <2>5
<1>6. L # {}
  BY <1>5
<1>7. L \in SUBSET Nat
  <2>1. S \in SUBSET Nat
    OBVIOUS
  <2> QED
    BY <2>1
<1>8. PICK p \in L : \A q \in L : p <= q
  BY <1>6, <1>7, LeastNat
<1> QED
  BY <1>4, <1>8

(* There are tasks, and an answer has hours in its parts (each item of a     *)
(* breakdown counts at least one).                                          *)
TasksAreGiven ==
    /\ NTasks \in Nat \ {0} /\ Attempts \in Nat
    /\ \A a \in Answers : a.total \in Nat \X Nat /\ a.parts \in (Nat \ {0}) \X Nat

CountedStates == {"estimated", "previewed", "cancelled_preview"}
ForecastTypes ==
    /\ est \in [F!Selected -> {"none", "gave_up"} \cup CountedStates]
    /\ phase \in {"estimating", "ordering", "measuring", "stored", "cancelled", "failed"}
    /\ tried \in [F!Selected -> 0..Attempts]
    /\ hours \in [F!Selected -> Nat \X Nat]
    /\ unmet \in [F!Selected -> Int]
    /\ longest \in [F!Selected -> Nat \X Nat]
    /\ before \in [F!Selected -> 0..NTasks]
    /\ order \in Seq(F!Selected) /\ path \in Seq(F!Selected)

(* The estimates, which are settled together. *)
EstimatesInv ==
    /\ \A t \in F!Selected : est[t] \in CountedStates => hours[t][1] > 0 /\ hours[t][1] <= hours[t][2]
    /\ phase \in {"ordering", "measuring", "stored"} => \A t \in F!Selected : est[t] = "previewed"
    /\ phase = "cancelled" => \A t \in F!Selected : est[t] = "cancelled_preview"

(* Each task comes once, after those it needs; the queue is ready when        *)
(* nothing that a task needs is left.                                        *)
OrderInv ==
    /\ phase \in {"estimating", "failed"} => order = << >>
    /\ \A i, j \in DOMAIN order : order[i] = order[j] => i = j
    /\ \A i \in DOMAIN order : F!NeededBy(order[i]) \subseteq {order[j] : j \in 1..(i - 1)}
    /\ phase = "ordering" => \A u \in F!Selected : unmet[u] = F!Cardinality(F!NeededBy(u) \ F!Ordered)
    /\ phase \in {"measuring", "stored"} => Len(order) = NTasks
    /\ phase = "cancelled" => F!Cyclic

(* A measured task is as long as the longest of those it needs, and itself.   *)
MostOf(t, k) ==
    /\ F!NeededBy(t) = {} => longest[t][k] = hours[t][k]
    /\ F!NeededBy(t) # {} => \E p \in F!NeededBy(t) : longest[t][k] = longest[p][k] + hours[t][k]
    /\ \A p \in F!NeededBy(t) : longest[p][k] + hours[t][k] <= longest[t][k]
MeasuredWell(t) ==
    /\ F!NeededBy(t) \subseteq F!Measured
    /\ longest[t][1] <= longest[t][2]
    /\ MostOf(t, 1) /\ MostOf(t, 2)
    /\ IF F!NeededBy(t) = {} THEN before[t] = 0
       ELSE before[t] \in F!NeededBy(t) /\ longest[t][1] = longest[before[t]][1] + hours[t][1]
MeasuresInv ==
    /\ phase \notin {"measuring", "stored"} => longest = [t \in F!Selected |-> <<0, 0>>] /\ path = << >>
    /\ \A t \in F!Measured : MeasuredWell(t)

PathInv ==
    /\ path # << >> => /\ F!Measured = F!Selected
                       /\ path[Len(path)] = F!LastOf(1)
                       /\ \A i \in 1..(Len(path) - 1) : path[i] = before[path[i + 1]] /\ path[i] \in F!NeededBy(path[i + 1])
    /\ phase = "stored" => path # << >> /\ before[path[1]] = 0

ForecastInv == ForecastTypes /\ EstimatesInv /\ OrderInv /\ MeasuresInv /\ PathInv

LEMMA ForecastInit == TasksAreGiven /\ F!InitForecast => ForecastInv
<1> SUFFICES ASSUME TasksAreGiven, F!InitForecast PROVE ForecastInv
  OBVIOUS
<1> USE DEF F!InitForecast
<1>1. ForecastTypes
  BY DEF ForecastTypes, TasksAreGiven
<1>2. EstimatesInv
  BY DEF EstimatesInv, CountedStates
<1>3. OrderInv
  BY DEF OrderInv
<1>4. F!Measured = {}
  BY DEF F!Measured
<1>5. MeasuresInv /\ PathInv
  BY <1>4 DEF MeasuresInv, PathInv
<1> QED
  BY <1>1, <1>2, <1>3, <1>5 DEF ForecastInv

(* The numbers of an answer that counts. *)
LEMMA NormalizedFits ==
  ASSUME TasksAreGiven, NEW a \in Answers
  PROVE  LET n == F!Normalized(a) IN n \in Nat \X Nat /\ n[1] > 0 /\ n[1] <= n[2]
<1>1. a.total[1] \in Nat /\ a.total[2] \in Nat /\ a.parts[1] \in Nat \ {0} /\ a.parts[2] \in Nat
  BY DEF TasksAreGiven
<1> DEFINE p == F!Max({a.total[1], a.parts[1]})
           q == F!Max({a.total[2], a.parts[2], p})
<1>2. p \in Nat /\ p > 0
  BY <1>1, GreaterOfTwo
<1> HIDE DEF p
<1>3. q \in {a.total[2], a.parts[2], p} /\ p <= q
  <2>1. \A x, y, z \in Int : LET m == F!Max({x, y, z}) IN m \in {x, y, z} /\ x <= m /\ y <= m /\ z <= m
    BY GreatestOfThree
  <2>2. a.total[2] \in Int /\ a.parts[2] \in Int /\ p \in Int
    BY <1>1, <1>2
  <2> QED
    BY <2>1, <2>2
<1>4. F!Normalized(a) = <<p, q>>
  BY DEF F!Normalized, p
<1> HIDE DEF q
<1>5. q \in Nat
  BY <1>1, <1>2, <1>3
<1> QED
  BY <1>2, <1>3, <1>4, <1>5

(* While estimates are made nothing is ordered or measured. *)
LEMMA EstimateStep ==
  ASSUME TasksAreGiven, ForecastInv, NEW t \in F!Selected, NEW a \in Answers, F!Estimate(t, a)
  PROVE  ForecastInv'
<1> DEFINE n == F!Normalized(a)
<1>1. n \in Nat \X Nat /\ n[1] > 0 /\ n[1] <= n[2]
  BY NormalizedFits
<1> HIDE DEF n
<1>2. /\ est' = [est EXCEPT ![t] = "estimated"] /\ hours' = [hours EXCEPT ![t] = n]
      /\ tried' = [tried EXCEPT ![t] = @ + 1] /\ tried[t] < Attempts
      /\ UNCHANGED <<needs, parallel, phase, unmet, order, longest, before, path>>
      /\ phase \in {"estimating", "failed"}
  BY DEF F!Estimate, F!Persisted, F!MayEstimate, F!AlgorithmIdle, n
<1>3. ForecastTypes'
  <2>1. ForecastTypes
    BY DEF ForecastInv
  <2>2. tried' \in [F!Selected -> 0..Attempts]
    BY <1>2, <2>1 DEF ForecastTypes, TasksAreGiven
  <2>3. hours' \in [F!Selected -> Nat \X Nat]
    BY <1>1, <1>2, <2>1 DEF ForecastTypes
  <2>4. est' \in [F!Selected -> {"none", "gave_up"} \cup CountedStates]
    BY <1>2, <2>1 DEF ForecastTypes, CountedStates
  <2> QED
    BY <1>2, <2>1, <2>2, <2>3, <2>4 DEF ForecastTypes, F!Selected
<1>4. EstimatesInv'
  BY <1>1, <1>2 DEF ForecastInv, ForecastTypes, EstimatesInv, CountedStates, F!Selected
<1>5. OrderInv'
  BY <1>2 DEF ForecastInv, OrderInv, F!NeededBy, F!Selected
<1>6. longest = [u \in F!Selected |-> <<0, 0>>] /\ path = << >>
  BY <1>2 DEF ForecastInv, MeasuresInv
<1>7. F!Measured' = {}
  BY <1>2, <1>6 DEF F!Measured, F!Selected
<1>8. MeasuresInv' /\ PathInv'
  BY <1>2, <1>6, <1>7 DEF MeasuresInv, PathInv, F!Selected
<1> QED
  BY <1>3, <1>4, <1>5, <1>8 DEF ForecastInv

LEMMA EstimateFailsStep ==
  ASSUME TasksAreGiven, ForecastInv, NEW t \in F!Selected, NEW b, F!EstimateFails(t, b)
  PROVE  ForecastInv'
<1>1. /\ est' = [est EXCEPT ![t] = "gave_up"] \/ est' = est
      /\ phase' \in {phase, "failed"} /\ tried' = [tried EXCEPT ![t] = @ + 1] /\ tried[t] < Attempts
      /\ UNCHANGED <<needs, parallel, hours, unmet, order, longest, before, path>>
      /\ phase \in {"estimating", "failed"}
  BY DEF F!EstimateFails, F!MayEstimate, F!AlgorithmIdle
<1>2. ForecastTypes'
  <2>1. ForecastTypes
    BY DEF ForecastInv
  <2>2. tried' \in [F!Selected -> 0..Attempts]
    BY <1>1, <2>1 DEF ForecastTypes, TasksAreGiven
  <2>3. est' \in [F!Selected -> {"none", "gave_up"} \cup CountedStates]
    BY <1>1, <2>1 DEF ForecastTypes, CountedStates
  <2> QED
    BY <1>1, <2>1, <2>2, <2>3 DEF ForecastTypes, F!Selected
<1>3. EstimatesInv'
  BY <1>1 DEF ForecastInv, ForecastTypes, EstimatesInv, CountedStates, F!Selected
<1>4. OrderInv'
  BY <1>1 DEF ForecastInv, OrderInv, F!NeededBy, F!Selected
<1>5. longest = [u \in F!Selected |-> <<0, 0>>] /\ path = << >>
  BY <1>1 DEF ForecastInv, MeasuresInv
<1>6. F!Measured' = {}
  BY <1>1, <1>5 DEF F!Measured, F!Selected
<1>7. MeasuresInv' /\ PathInv'
  BY <1>1, <1>5, <1>6 DEF MeasuresInv, PathInv, F!Selected
<1> QED
  BY <1>2, <1>3, <1>4, <1>7 DEF ForecastInv

LEMMA SameNumber == \A S : F!Cardinality(S) = Cardinality(S)
BY DEF F!Cardinality, Cardinality, F!IsFiniteSet, IsFiniteSet

LEMMA NeedsAreFinite ==
  ASSUME TasksAreGiven
  PROVE  \A S \in SUBSET F!Selected : IsFiniteSet(S) /\ Cardinality(S) \in Nat
<1>1. IsFiniteSet(F!Selected)
  BY FS_Interval DEF F!Selected, TasksAreGiven
<1> QED
  BY <1>1, FS_Subset, FS_CardinalityType

LEMMA CollectStep ==
  ASSUME TasksAreGiven, ForecastInv, F!Collect
  PROVE  ForecastInv'
<1>1. /\ est' = [t \in F!Selected |-> "previewed"] /\ \A t \in F!Selected : est[t] = "estimated"
      /\ unmet' = [t \in F!Selected |-> F!Cardinality(F!NeededBy(t))]
      /\ phase = "estimating" /\ phase' = "ordering"
      /\ UNCHANGED <<needs, parallel, tried, hours, order, longest, before, path>>
  BY DEF F!Collect
<1>2. order = << >> /\ order' = << >>
  BY <1>1 DEF ForecastInv, OrderInv
<1>3. \A t \in F!Selected : F!NeededBy(t)' = F!NeededBy(t) /\ F!Cardinality(F!NeededBy(t)) \in Nat
  BY <1>1, NeedsAreFinite, SameNumber DEF F!NeededBy, F!Selected
<1>4. ForecastTypes'
  BY <1>1, <1>3 DEF ForecastInv, ForecastTypes, CountedStates, F!Selected
<1>5. EstimatesInv'
  BY <1>1 DEF ForecastInv, EstimatesInv, CountedStates, F!Selected
<1>6. F!Ordered' = {}
  BY <1>2 DEF F!Ordered
<1>7. OrderInv'
  <2>1. \A u \in F!Selected : unmet'[u] = F!Cardinality((F!NeededBy(u) \ F!Ordered)')
    <3>1. ASSUME NEW u \in F!Selected PROVE (F!NeededBy(u) \ F!Ordered)' = F!NeededBy(u)
      BY <1>3, <1>6
    <3> QED
      BY <1>1, <3>1
  <2> QED
    BY <1>1, <1>2, <2>1 DEF OrderInv, F!Selected
<1>8. longest = [u \in F!Selected |-> <<0, 0>>] /\ path = << >>
  BY <1>1 DEF ForecastInv, MeasuresInv
<1>9. F!Measured' = {}
  BY <1>1, <1>8 DEF F!Measured, F!Selected
<1>10. MeasuresInv' /\ PathInv'
  BY <1>1, <1>8, <1>9 DEF MeasuresInv, PathInv, F!Selected
<1> QED
  BY <1>4, <1>5, <1>7, <1>10 DEF ForecastInv

(* Nothing is measured while the order is not there. *)
LEMMA UnmeasuredStays ==
  ASSUME ForecastInv, phase \notin {"measuring", "stored"}, phase' # "stored",
         UNCHANGED <<longest, path>>
  PROVE  MeasuresInv' /\ PathInv'
<1>1. longest = [u \in F!Selected |-> <<0, 0>>] /\ path = << >>
  BY DEF ForecastInv, MeasuresInv
<1>2. F!Measured' = {}
  BY <1>1 DEF F!Measured, F!Selected
<1> QED
  BY <1>1, <1>2 DEF MeasuresInv, PathInv, F!Selected

LEMMA NeedsOfSelected == \A t : F!NeededBy(t) \in SUBSET F!Selected /\ t \notin F!NeededBy(t)
BY DEF F!NeededBy

LEMMA PopStep ==
  ASSUME TasksAreGiven, ForecastInv, F!Pop
  PROVE  ForecastInv'
<1> DEFINE t == F!Min(F!Ready)
<1>1. /\ order' = Append(order, t) /\ unmet' = F!Released(t) /\ phase = "ordering" /\ F!Ready # {}
      /\ UNCHANGED <<needs, parallel, est, tried, hours, phase, longest, before, path>>
  BY DEF F!Pop
<1>2. t \in F!Ready
  <2>1. F!Ready \in SUBSET Nat
    BY DEF F!Ready, F!Selected
  <2>2. PICK n \in F!Ready : \A m \in F!Ready : n <= m
    BY <1>1, <2>1, LeastNat
  <2> QED
    BY <2>1, <2>2, LeastOf
<1> HIDE DEF t
<1>3. t \in F!Selected /\ t \notin F!Ordered /\ unmet[t] = 0
  BY <1>2 DEF F!Ready
<1>4. ForecastTypes /\ OrderInv /\ EstimatesInv
  BY DEF ForecastInv
<1>5. order \in Seq(F!Selected) /\ unmet \in [F!Selected -> Int] /\ Len(order) \in Nat
  BY <1>4 DEF ForecastTypes
<1> DEFINE n == Len(order)
<1>6. /\ order' \in Seq(F!Selected) /\ Len(order') = n + 1 /\ DOMAIN order' = 1..(n + 1) /\ DOMAIN order = 1..n
      /\ order'[n + 1] = t /\ \A i \in 1..n : order'[i] = order[i]
  BY <1>1, <1>3, <1>5
<1> HIDE DEF n
<1>7. \A u : F!NeededBy(u)' = F!NeededBy(u)
  BY <1>1 DEF F!NeededBy, F!Selected
<1>8. F!Ordered' = F!Ordered \cup {t} /\ F!Ordered = {order[i] : i \in 1..n}
  <2>1. n \in Nat
    BY <1>5 DEF n
  <2>2. F!Ordered' = {order'[i] : i \in 1..(n + 1)} /\ F!Ordered = {order[i] : i \in 1..n}
    BY <1>6 DEF F!Ordered
  <2>3. {order'[i] : i \in 1..(n + 1)} = {order[i] : i \in 1..n} \cup {t}
    BY <1>6, <2>1
  <2> QED
    BY <2>2, <2>3
<1>9. \A u \in F!Selected : unmet[u] = Cardinality(F!NeededBy(u) \ F!Ordered)
  BY <1>1, <1>4, SameNumber DEF OrderInv
<1>10. F!NeededBy(t) \subseteq F!Ordered
  <2>1. IsFiniteSet(F!NeededBy(t) \ F!Ordered)
    BY NeedsAreFinite, NeedsOfSelected
  <2> QED
    BY <1>3, <1>9, <2>1, FS_EmptySet
<1>11. \A u \in F!Selected : unmet'[u] = F!Cardinality((F!NeededBy(u) \ F!Ordered)')
  <2> SUFFICES ASSUME NEW u \in F!Selected PROVE unmet'[u] = F!Cardinality((F!NeededBy(u) \ F!Ordered)')
    OBVIOUS
  <2> DEFINE S == F!NeededBy(u) \ F!Ordered
  <2>1. (F!NeededBy(u) \ F!Ordered)' = S \ {t}
    BY <1>7, <1>8
  <2>2. IsFiniteSet(S) /\ Cardinality(S) \in Nat
    BY NeedsAreFinite, NeedsOfSelected
  <2>3. Cardinality(S \ {t}) = IF t \in S THEN Cardinality(S) - 1 ELSE Cardinality(S)
    BY <2>2, FS_RemoveElement
  <2>4. unmet'[u] = IF t \in F!NeededBy(u) THEN unmet[u] - 1 ELSE unmet[u]
    BY <1>1 DEF F!Released
  <2>5. t \in S <=> t \in F!NeededBy(u)
    BY <1>3
  <2>6. unmet'[u] = Cardinality(S \ {t})
    BY <1>9, <2>3, <2>4, <2>5
  <2> QED
    BY <2>1, <2>6, SameNumber
<1>12. OrderInv'
  <2>1. n \in Nat
    BY <1>5 DEF n
  <2>2. ASSUME NEW i \in DOMAIN order', NEW j \in DOMAIN order', order'[i] = order'[j]
        PROVE  i = j
    <3>1. \A k \in 1..n : order[k] # t
      BY <1>3, <1>8
    <3>2. (i \in 1..n \/ i = n + 1) /\ (j \in 1..n \/ j = n + 1)
      BY <1>6, <2>1, <2>2
    <3> QED
      BY <1>4, <1>6, <2>2, <3>1, <3>2 DEF OrderInv
  <2>3. ASSUME NEW i \in DOMAIN order'
        PROVE  (F!NeededBy(order[i]))' \subseteq {order'[j] : j \in 1..(i - 1)}
    <3>0. (F!NeededBy(order[i]))' = F!NeededBy(order'[i])
      BY <1>1 DEF F!NeededBy, F!Selected
    <3>1. CASE i \in 1..n
      <4>1. F!NeededBy(order[i]) \subseteq {order[j] : j \in 1..(i - 1)}
        BY <1>4, <1>6, <3>1 DEF OrderInv
      <4>2. \A j \in 1..(i - 1) : order'[j] = order[j]
        BY <1>6, <2>1, <3>1
      <4> QED
        BY <1>6, <3>0, <3>1, <4>1, <4>2
    <3>2. CASE i = n + 1
      <4>1. {order'[j] : j \in 1..(i - 1)} = F!Ordered
        BY <1>6, <1>8, <2>1, <3>2
      <4> QED
        BY <1>6, <1>10, <3>0, <3>2, <4>1
    <3> QED
      BY <1>6, <2>1, <3>1, <3>2
  <2> QED
    BY <1>1, <1>11, <2>2, <2>3 DEF OrderInv, F!Selected
<1>13. ForecastTypes'
  <2>1. unmet' \in [F!Selected -> Int]
    BY <1>1, <1>5 DEF F!Released
  <2> QED
    BY <1>1, <1>4, <1>6, <2>1 DEF ForecastTypes, F!Selected
<1>14. EstimatesInv'
  BY <1>1, <1>4 DEF EstimatesInv, F!Selected
<1>15. MeasuresInv' /\ PathInv'
  BY <1>1, UnmeasuredStays
<1> QED
  BY <1>12, <1>13, <1>14, <1>15 DEF ForecastInv

(* Every task is in the order as soon as it is long enough. *)
LEMMA OrderedCount ==
  ASSUME TasksAreGiven, ForecastTypes, OrderInv
  PROVE  Len(order) = NTasks <=> F!Ordered = F!Selected
<1>1. order \in Seq(F!Selected) /\ Len(order) \in Nat /\ DOMAIN order = 1..Len(order)
  BY DEF ForecastTypes
<1>2. order \in Injection(1..Len(order), F!Selected)
  <2>1. order \in [1..Len(order) -> F!Selected]
    BY <1>1
  <2> QED
    BY <1>1, <2>1 DEF OrderInv, Injection, IsInjective
<1>3. IsFiniteSet(F!Selected) /\ Cardinality(F!Selected) = NTasks
  <2>1. NTasks \in Int /\ NTasks >= 1
    BY DEF TasksAreGiven
  <2> QED
    BY <2>1, FS_Interval DEF F!Selected
<1>4. Cardinality(1..Len(order)) = Len(order)
  BY <1>1, FS_Interval
<1>5. Len(order) = NTasks <=> order \in Surjection(1..Len(order), F!Selected)
  BY <1>2, <1>3, <1>4, FS_Injection
<1>6. order \in Surjection(1..Len(order), F!Selected) <=> \A u \in F!Selected : \E i \in 1..Len(order) : order[i] = u
  <2>1. order \in [1..Len(order) -> F!Selected]
    BY <1>1
  <2> QED
    BY <2>1 DEF Surjection
<1>7. F!Ordered \subseteq F!Selected
  BY <1>1 DEF F!Ordered
<1>8. F!Ordered = F!Selected <=> \A u \in F!Selected : \E i \in 1..Len(order) : order[i] = u
  BY <1>1, <1>7 DEF F!Ordered
<1> QED
  BY <1>5, <1>6, <1>8

(* What is left when nothing is ready is a set of tasks that need each other. *)
LEMMA CycleFoundStep ==
  ASSUME TasksAreGiven, ForecastInv, F!CycleFound
  PROVE  ForecastInv'
<1>1. /\ phase = "ordering" /\ phase' = "cancelled" /\ est' = [t \in F!Selected |-> "cancelled_preview"]
      /\ F!Ready = {} /\ Len(order) # NTasks
      /\ UNCHANGED <<needs, parallel, tried, hours, unmet, order, longest, before, path>>
  BY DEF F!CycleFound, F!Cancelled
<1>2. ForecastTypes /\ OrderInv /\ EstimatesInv
  BY DEF ForecastInv
<1>3. F!Ordered # F!Selected /\ F!Ordered \subseteq F!Selected
  BY <1>1, <1>2, OrderedCount DEF F!Ordered, ForecastTypes
<1> DEFINE S == F!Selected \ F!Ordered
<1>4. ASSUME NEW t \in S PROVE F!NeededBy(t) \cap S # {}
  <2>1. unmet[t] # 0 /\ unmet[t] = Cardinality(F!NeededBy(t) \ F!Ordered)
    BY <1>1, <1>2, SameNumber DEF F!Ready, OrderInv
  <2>2. F!NeededBy(t) \ F!Ordered # {}
    BY <2>1, FS_EmptySet
  <2> QED
    BY <2>2, NeedsOfSelected
<1>5. F!Cyclic
  <2>1. S \in SUBSET F!Selected /\ S # {}
    BY <1>3
  <2> QED
    BY <1>4, <2>1 DEF F!Cyclic
<1>6. F!Cyclic'
  BY <1>1, <1>5 DEF F!Cyclic, F!NeededBy, F!Selected
<1>7. OrderInv'
  BY <1>1, <1>2, <1>6 DEF OrderInv, F!NeededBy, F!Selected
<1>8. ForecastTypes' /\ EstimatesInv'
  BY <1>1, <1>2 DEF ForecastTypes, EstimatesInv, CountedStates, F!Selected
<1>9. MeasuresInv' /\ PathInv'
  BY <1>1, UnmeasuredStays
<1> QED
  BY <1>7, <1>8, <1>9 DEF ForecastInv

LEMMA OrderFoundStep ==
  ASSUME TasksAreGiven, ForecastInv, F!OrderFound
  PROVE  ForecastInv'
<1>1. /\ phase = "ordering" /\ phase' = "measuring" /\ Len(order) = NTasks
      /\ UNCHANGED <<needs, parallel, est, tried, hours, unmet, order, longest, before, path>>
  BY DEF F!OrderFound
<1>2. ForecastTypes /\ OrderInv /\ EstimatesInv
  BY DEF ForecastInv
<1>3. OrderInv'
  BY <1>1, <1>2 DEF OrderInv, F!NeededBy, F!Selected
<1>4. ForecastTypes' /\ EstimatesInv'
  BY <1>1, <1>2 DEF ForecastTypes, EstimatesInv, CountedStates, F!Selected
<1>5. MeasuresInv' /\ PathInv'
  BY <1>1, UnmeasuredStays
<1> QED
  BY <1>3, <1>4, <1>5 DEF ForecastInv

(* The predecessor that counts is one of them, and none is longer. *)
LEMMA BestIsLongest ==
  ASSUME TasksAreGiven, ForecastTypes, NEW t \in F!Selected, F!NeededBy(t) # {}, NEW k \in {1, 2}
  PROVE  /\ F!Best(t, k) \in F!NeededBy(t)
         /\ \A q \in F!NeededBy(t) : longest[q][k] <= longest[F!Best(t, k)][k]
<1> DEFINE v == [q \in F!Selected |-> longest[q][k]]
<1>1. \A q \in F!Selected : longest[q][k] \in Nat
  BY DEF ForecastTypes
<1>2. F!NeededBy(t) \in SUBSET (1..NTasks) /\ NTasks \in Nat
  BY NeedsOfSelected DEF F!Selected, TasksAreGiven
<1>3. \A q \in F!NeededBy(t) : v[q] = longest[q][k] /\ v[q] \in Nat
  BY <1>1, NeedsOfSelected
<1> HIDE DEF v
<1>4. PICK p \in F!NeededBy(t) : /\ \A q \in F!NeededBy(t) : v[q] <= v[p]
                                 /\ \A q \in F!NeededBy(t) : v[q] = v[p] => p <= q
  BY <1>2, <1>3, FirstLargest
<1>5. \E p0 \in F!NeededBy(t) :
        /\ \A q \in F!NeededBy(t) : longest[q][k] <= longest[p0][k]
        /\ \A q \in F!NeededBy(t) : longest[q][k] = longest[p0][k] => p0 <= q
  BY <1>3, <1>4
<1> QED
  BY <1>5 DEF F!Best

(* So is the end of the longest chain. *)
LEMMA LastIsLongest ==
  ASSUME TasksAreGiven, ForecastTypes, Len(order) = NTasks, NEW k \in {1, 2}
  PROVE  /\ F!LastOf(k) \in F!Selected
         /\ \A i \in 1..NTasks : longest[order[i]][k] <= longest[F!LastOf(k)][k]
<1> DEFINE v == [j \in 1..NTasks |-> longest[order[j]][k]]
<1>1. \A j \in 1..NTasks : order[j] \in F!Selected
  BY DEF ForecastTypes
<1>2. \A j \in 1..NTasks : v[j] = longest[order[j]][k] /\ v[j] \in Nat
  BY <1>1 DEF ForecastTypes
<1> HIDE DEF v
<1>3. NTasks \in Nat /\ 1..NTasks # {}
  BY DEF TasksAreGiven
<1>4. PICK i \in 1..NTasks : /\ \A j \in 1..NTasks : v[j] <= v[i]
                             /\ \A j \in 1..NTasks : v[j] = v[i] => i <= j
  BY <1>2, <1>3, FirstLargest
<1> DEFINE Is(n) == /\ \A j \in 1..NTasks : longest[order[j]][k] <= longest[order[n]][k]
                    /\ \A j \in 1..NTasks : longest[order[j]][k] = longest[order[n]][k] => n <= j
           c == CHOOSE n \in 1..NTasks : Is(n)
<1>5. \E n \in 1..NTasks : Is(n)
  BY <1>2, <1>4
<1>6. c \in 1..NTasks /\ Is(c)
  <2> HIDE DEF Is
  <2> QED
    BY <1>5
<1>7. F!LastOf(k) = order[c]
  BY DEF F!LastOf
<1> HIDE DEF c
<1> QED
  BY <1>1, <1>6, <1>7

(* The task that is measured next. *)
LEMMA MeasureStep ==
  ASSUME TasksAreGiven, ForecastInv, F!Measure
  PROVE  ForecastInv'
<1>1. ForecastTypes /\ OrderInv /\ EstimatesInv /\ MeasuresInv /\ PathInv
  BY DEF ForecastInv
<1> DEFINE of(t, k) == IF F!NeededBy(t) = {} THEN hours[t][k]
                                             ELSE longest[F!Best(t, k)][k] + hours[t][k]
<1>2. PICK i \in 1..NTasks :
        /\ order[i] \notin F!Measured /\ \A j \in 1..(i - 1) : order[j] \in F!Measured
        /\ longest' = [longest EXCEPT ![order[i]] = <<of(order[i], 1), of(order[i], 2)>>]
        /\ before' = [before EXCEPT ![order[i]] = IF F!NeededBy(order[i]) = {} THEN 0 ELSE F!Best(order[i], 1)]
  BY DEF F!Measure
<1>3. phase = "measuring" /\ UNCHANGED <<needs, parallel, est, tried, hours, phase, unmet, order, path>>
  BY DEF F!Measure
<1>4. Len(order) = NTasks /\ DOMAIN order = 1..NTasks /\ \A j \in 1..NTasks : order[j] \in F!Selected
  BY <1>1, <1>3 DEF ForecastTypes, OrderInv
<1> DEFINE t == order[i]
<1>5. t \in F!Selected /\ t \notin F!Measured /\ F!NeededBy(t) \subseteq F!Measured
  BY <1>1, <1>2, <1>4 DEF OrderInv
<1>6. hours[t] \in Nat \X Nat /\ hours[t][1] > 0 /\ hours[t][1] <= hours[t][2]
  <2>1. est[t] = "previewed"
    BY <1>1, <1>3, <1>5 DEF EstimatesInv
  <2> QED
    BY <1>1, <1>5, <2>1 DEF EstimatesInv, ForecastTypes, CountedStates
<1>7. ASSUME NEW k \in {1, 2}, F!NeededBy(t) # {}
      PROVE  /\ F!Best(t, k) \in F!NeededBy(t)
             /\ \A q \in F!NeededBy(t) : longest[q][k] <= longest[F!Best(t, k)][k]
  BY <1>1, <1>5, <1>7, BestIsLongest
<1>8. \A q \in F!NeededBy(t) : longest[q] \in Nat \X Nat /\ longest[q][1] <= longest[q][2] /\ q # t
  BY <1>1, <1>5, NeedsOfSelected DEF ForecastTypes, MeasuresInv, MeasuredWell
<1> DEFINE a == of(t, 1)
           b == of(t, 2)
           last == IF F!NeededBy(t) = {} THEN 0 ELSE F!Best(t, 1)
<1>9. longest' = [longest EXCEPT ![t] = <<a, b>>] /\ before' = [before EXCEPT ![t] = last]
  BY <1>2
<1>10. /\ a \in Nat /\ b \in Nat /\ a > 0 /\ a <= b
       /\ F!NeededBy(t) = {} => a = hours[t][1] /\ b = hours[t][2] /\ last = 0
       /\ F!NeededBy(t) # {} => /\ last \in F!NeededBy(t) /\ a = longest[last][1] + hours[t][1]
                                /\ \E p \in F!NeededBy(t) : b = longest[p][2] + hours[t][2]
       /\ \A p \in F!NeededBy(t) : longest[p][1] + hours[t][1] <= a /\ longest[p][2] + hours[t][2] <= b
  <2>1. CASE F!NeededBy(t) = {}
    BY <1>6, <2>1
  <2>2. CASE F!NeededBy(t) # {}
    <3> DEFINE p1 == F!Best(t, 1)
               p2 == F!Best(t, 2)
    <3>1. /\ p1 \in F!NeededBy(t) /\ \A q \in F!NeededBy(t) : longest[q][1] <= longest[p1][1]
          /\ p2 \in F!NeededBy(t) /\ \A q \in F!NeededBy(t) : longest[q][2] <= longest[p2][2]
      BY <1>7, <2>2
    <3>2. a = longest[p1][1] + hours[t][1] /\ b = longest[p2][2] + hours[t][2] /\ last = p1
      BY <2>2
    <3> HIDE DEF p1, p2, a, b, last
    <3>3. a \in Nat /\ b \in Nat /\ a > 0 /\ a <= b
      <4>1. longest[p1] \in Nat \X Nat /\ longest[p2] \in Nat \X Nat /\ longest[p1][1] <= longest[p1][2] /\ longest[p1][2] <= longest[p2][2]
        BY <1>8, <3>1
      <4> QED
        BY <1>6, <3>2, <4>1
    <3>4. \A p \in F!NeededBy(t) : longest[p][1] + hours[t][1] <= a /\ longest[p][2] + hours[t][2] <= b
      BY <1>6, <1>8, <3>1, <3>2
    <3> QED
      BY <2>2, <3>1, <3>2, <3>3, <3>4
  <2> QED
    BY <2>1, <2>2
<1> HIDE DEF a, b, last, t
<1>11. longest' \in [F!Selected -> Nat \X Nat] /\ before' \in [F!Selected -> 0..NTasks]
  <2>1. last \in 0..NTasks
    BY <1>10, NeedsOfSelected DEF F!Selected, TasksAreGiven
  <2> QED
    BY <1>1, <1>5, <1>9, <1>10, <2>1 DEF ForecastTypes
<1>12. ForecastTypes'
  BY <1>1, <1>3, <1>11 DEF ForecastTypes, F!Selected
<1>13. OrderInv' /\ EstimatesInv'
  BY <1>1, <1>3 DEF OrderInv, EstimatesInv, F!NeededBy, F!Selected
<1>14. /\ \A u \in F!Selected : u # t => longest'[u] = longest[u] /\ before'[u] = before[u]
       /\ longest'[t] = <<a, b>> /\ before'[t] = last
  BY <1>1, <1>5, <1>9 DEF ForecastTypes
<1>15. F!Measured' = F!Measured \cup {t}
  <2>1. F!Measured' = {u \in F!Selected : longest'[u] # <<0, 0>>}
    BY <1>3 DEF F!Measured, F!Selected
  <2>2. <<a, b>> # <<0, 0>>
    BY <1>10
  <2> QED
    BY <1>5, <1>14, <2>1, <2>2 DEF F!Measured
<1>16. ASSUME NEW u \in F!Measured' PROVE MeasuredWell(u)'
  <2>1. F!NeededBy(u)' = F!NeededBy(u)
    BY <1>3 DEF F!NeededBy, F!Selected
  <2>2. CASE u \in F!Measured
    <3>1. MeasuredWell(u) /\ u # t /\ u \in F!Selected /\ F!NeededBy(u) \subseteq F!Measured
      BY <1>1, <1>5, <2>2 DEF MeasuresInv, MeasuredWell, F!Measured
    <3>2. \A p \in F!NeededBy(u) : longest'[p] = longest[p]
      BY <1>5, <1>14, <3>1, NeedsOfSelected
    <3>3. longest'[u] = longest[u] /\ before'[u] = before[u] /\ hours' = hours
      BY <1>3, <1>14, <3>1
    <3>4. MostOf(u, 1)' /\ MostOf(u, 2)'
      BY <2>1, <3>1, <3>2, <3>3 DEF MeasuredWell, MostOf
    <3> QED
      BY <1>15, <2>1, <3>1, <3>2, <3>3, <3>4 DEF MeasuredWell
  <2>3. CASE u = t
    <3>1. \A p \in F!NeededBy(t) : longest'[p] = longest[p]
      BY <1>5, <1>8, <1>14, NeedsOfSelected
    <3>2. hours' = hours /\ longest'[t][1] = a /\ longest'[t][2] = b
      BY <1>3, <1>14
    <3>3. MostOf(u, 1)' /\ MostOf(u, 2)'
      BY <1>10, <2>1, <2>3, <3>1, <3>2 DEF MostOf
    <3> QED
      BY <1>5, <1>10, <1>14, <1>15, <2>1, <2>3, <3>1, <3>2, <3>3 DEF MeasuredWell
  <2> QED
    BY <1>15, <2>2, <2>3
<1>17. path = << >>
  BY <1>1, <1>5 DEF PathInv
<1>18. MeasuresInv'
  BY <1>3, <1>16 DEF MeasuresInv
<1>19. PathInv'
  BY <1>3, <1>17 DEF PathInv
<1> QED
  BY <1>12, <1>13, <1>18, <1>19 DEF ForecastInv

(* The path grows at its head by the task before. *)
LEMMA TracePathStep ==
  ASSUME TasksAreGiven, ForecastInv, F!TracePath
  PROVE  ForecastInv'
<1>1. ForecastTypes /\ OrderInv /\ EstimatesInv /\ MeasuresInv /\ PathInv
  BY DEF ForecastInv
<1> DEFINE x == IF path = << >> THEN F!LastOf(1) ELSE before[Head(path)]
<1>2. /\ phase = "measuring" /\ F!Measured = F!Selected
      /\ path # << >> => before[Head(path)] # 0
      /\ path' = <<x>> \o path
      /\ UNCHANGED <<needs, parallel, est, tried, hours, phase, unmet, order, longest, before>>
  BY DEF F!TracePath
<1>3. path \in Seq(F!Selected)
  BY <1>1 DEF ForecastTypes
<1>4. path # << >> => path[1] \in F!Selected /\ x = before[path[1]] /\ x \in F!NeededBy(path[1])
  <2>1. ASSUME path # << >> PROVE path[1] \in F!Selected /\ Head(path) = path[1]
    BY <1>3, <2>1
  <2> QED
    BY <1>1, <1>2, <2>1 DEF MeasuresInv, MeasuredWell
<1>5. path = << >> => x = F!LastOf(1) /\ x \in F!Selected
  BY <1>1, <1>2, LastIsLongest DEF OrderInv
<1>6. x \in F!Selected
  BY <1>4, <1>5, NeedsOfSelected
<1> HIDE DEF x
<1>7. /\ path' \in Seq(F!Selected) /\ Len(path') = Len(path) + 1 /\ Len(path) \in Nat
      /\ path'[1] = x /\ \A j \in 1..Len(path) : path'[j + 1] = path[j]
  BY <1>2, <1>3, <1>6
<1>8. /\ F!Measured' = F!Measured /\ F!LastOf(1)' = F!LastOf(1) /\ \A u : F!NeededBy(u)' = F!NeededBy(u)
  BY <1>2 DEF F!Measured, F!LastOf, F!NeededBy, F!Selected
<1>9. ForecastTypes'
  BY <1>1, <1>2, <1>7 DEF ForecastTypes, F!Selected
<1>10. OrderInv' /\ EstimatesInv'
  BY <1>1, <1>2 DEF OrderInv, EstimatesInv, F!NeededBy, F!Selected
<1>11. MeasuresInv'
  BY <1>1, <1>2 DEF MeasuresInv, MeasuredWell, MostOf, F!Measured, F!NeededBy, F!Selected
<1>12. PathInv'
  <2>1. path'[Len(path')] = F!LastOf(1)
    <3>1. CASE path = << >>
      BY <1>5, <1>7, <3>1
    <3>2. CASE path # << >>
      <4>1. Len(path) \in 1..Len(path)
        BY <1>3, <3>2
      <4>2. path'[Len(path) + 1] = path[Len(path)]
        BY <1>7, <4>1
      <4> QED
        BY <1>1, <1>7, <3>2, <4>2 DEF PathInv
    <3> QED
      BY <3>1, <3>2
  <2>2. ASSUME NEW i \in 1..(Len(path') - 1)
        PROVE  path'[i] = before'[path'[i + 1]] /\ path'[i] \in F!NeededBy(path'[i + 1])
    <3>1. path # << >> /\ path'[i + 1] = path[i] /\ i \in 1..Len(path)
      BY <1>3, <1>7
    <3>2. CASE i = 1
      BY <1>2, <1>4, <1>7, <3>1, <3>2
    <3>3. CASE i # 1
      <4>1. i - 1 \in 1..(Len(path) - 1) /\ (i - 1) + 1 = i /\ i - 1 \in 1..Len(path)
        BY <1>7, <3>1, <3>3
      <4>2. path'[i] = path[i - 1]
        BY <1>7, <4>1
      <4>3. path[i - 1] = before[path[(i - 1) + 1]] /\ path[i - 1] \in F!NeededBy(path[(i - 1) + 1])
        BY <1>1, <3>1, <4>1 DEF PathInv
      <4> QED
        BY <1>2, <3>1, <4>1, <4>2, <4>3
    <3> QED
      BY <3>2, <3>3
  <2>3. ASSUME NEW i \in 1..(Len(path') - 1)
        PROVE  path'[i] = before'[path'[i + 1]] /\ path'[i] \in (F!NeededBy(path[i + 1]))'
    <3>1. (F!NeededBy(path[i + 1]))' = F!NeededBy(path'[i + 1])
      BY <1>2 DEF F!NeededBy, F!Selected
    <3> QED
      BY <2>2, <3>1
  <2> QED
    BY <1>2, <1>8, <2>1, <2>3 DEF PathInv, F!Selected
<1> QED
  BY <1>9, <1>10, <1>11, <1>12 DEF ForecastInv

LEMMA StoreBatchStep ==
  ASSUME TasksAreGiven, ForecastInv, F!StoreBatch
  PROVE  ForecastInv'
<1>1. ForecastTypes /\ OrderInv /\ EstimatesInv /\ MeasuresInv /\ PathInv
  BY DEF ForecastInv
<1>2. /\ phase = "measuring" /\ path # << >> /\ before[Head(path)] = 0 /\ phase' = "stored"
      /\ UNCHANGED <<needs, parallel, est, tried, hours, unmet, order, longest, before, path>>
  BY DEF F!StoreBatch
<1>3. Head(path) = path[1]
  BY <1>1, <1>2 DEF ForecastTypes
<1>4. ForecastTypes' /\ EstimatesInv'
  BY <1>1, <1>2 DEF ForecastTypes, EstimatesInv, CountedStates, F!Selected
<1>5. OrderInv'
  BY <1>1, <1>2 DEF OrderInv, F!NeededBy, F!Selected
<1>6. MeasuresInv'
  BY <1>1, <1>2 DEF MeasuresInv, MeasuredWell, MostOf, F!Measured, F!NeededBy, F!Selected
<1>7. PathInv'
  BY <1>1, <1>2, <1>3 DEF PathInv, F!Measured, F!LastOf, F!NeededBy, F!Selected
<1> QED
  BY <1>4, <1>5, <1>6, <1>7 DEF ForecastInv

LEMMA ForecastStep ==
  TasksAreGiven /\ ForecastInv /\ [F!NextForecast]_(F!varsForecast) => ForecastInv'
<1> SUFFICES ASSUME TasksAreGiven, ForecastInv, [F!NextForecast]_(F!varsForecast) PROVE ForecastInv'
  OBVIOUS
<1>1. ASSUME UNCHANGED F!varsForecast PROVE ForecastInv'
  <2>1. /\ UNCHANGED <<needs, parallel, est, tried, hours, phase, unmet, order, longest, before, path>>
        /\ ForecastTypes /\ OrderInv /\ EstimatesInv /\ MeasuresInv /\ PathInv
    BY <1>1 DEF F!varsForecast, ForecastInv
  <2>2. ForecastTypes' /\ EstimatesInv'
    BY <2>1 DEF ForecastTypes, EstimatesInv, F!Selected
  <2>3. OrderInv'
    <3>1. F!Ordered' = F!Ordered /\ (F!Cyclic => F!Cyclic')
      BY <2>1 DEF F!NeededBy, F!Ordered, F!Cyclic, F!Selected
    <3>2. \A i \in DOMAIN order' : (F!NeededBy(order[i]))' \subseteq {order'[j] : j \in 1..(i - 1)}
      BY <2>1 DEF OrderInv, F!NeededBy, F!Selected
    <3>3. phase' = "ordering" => \A u \in F!Selected : unmet'[u] = F!Cardinality((F!NeededBy(u) \ F!Ordered)')
      BY <2>1, <3>1 DEF OrderInv, F!NeededBy, F!Selected
    <3> QED
      BY <2>1, <3>1, <3>2, <3>3 DEF OrderInv, F!Selected
  <2>4. MeasuresInv'
    BY <2>1 DEF MeasuresInv, MeasuredWell, MostOf, F!Measured, F!NeededBy, F!Selected
  <2>5. PathInv'
    BY <2>1 DEF PathInv, F!Measured, F!LastOf, F!NeededBy, F!Selected
  <2> QED
    BY <2>2, <2>3, <2>4, <2>5 DEF ForecastInv
<1>2. CASE \E t \in F!Selected : (\E b \in BOOLEAN : F!EstimateFails(t, b)) \/ \E a \in Answers : F!Estimate(t, a)
  BY <1>2, EstimateStep, EstimateFailsStep
<1>3. CASE F!Collect
  BY <1>3, CollectStep
<1>4. CASE F!Pop
  BY <1>4, PopStep
<1>5. CASE F!CycleFound
  BY <1>5, CycleFoundStep
<1>6. CASE F!OrderFound
  BY <1>6, OrderFoundStep
<1>7. CASE F!Measure
  BY <1>7, MeasureStep
<1>8. CASE F!TracePath
  BY <1>8, TracePathStep
<1>9. CASE F!StoreBatch
  BY <1>9, StoreBatchStep
<1>10. CASE F!Ended
  BY <1>1, <1>10 DEF F!Ended
<1> QED
  BY <1>1, <1>2, <1>3, <1>4, <1>5, <1>6, <1>7, <1>8, <1>9, <1>10 DEF F!NextForecast

(* When the order is there every task has its place in it. *)
LEMMA PlaceOfTask ==
  ASSUME TasksAreGiven, ForecastTypes, OrderInv, Len(order) = NTasks
  PROVE  /\ \A i \in 1..NTasks : order[i] \in F!Selected
         /\ \A t \in F!Selected : \E i \in 1..NTasks : order[i] = t
         /\ \A i \in 1..NTasks : \A p \in F!NeededBy(order[i]) : \E j \in 1..(i - 1) : order[j] = p
         /\ \A i, j \in 1..NTasks : order[i] = order[j] => i = j
<1>1. order \in Seq(F!Selected) /\ DOMAIN order = 1..NTasks
  BY DEF ForecastTypes
<1>2. F!Ordered = F!Selected
  BY OrderedCount
<1> QED
  BY <1>1, <1>2 DEF OrderInv, F!Ordered

(* Tasks that need each other have no first one in the order. *)
LEMMA OrderHasNoCycle ==
  ASSUME TasksAreGiven, ForecastTypes, OrderInv, Len(order) = NTasks
  PROVE  ~ F!Cyclic
<1> SUFFICES ASSUME NEW S \in SUBSET F!Selected, S # {}, \A t \in S : F!NeededBy(t) \cap S # {} PROVE FALSE
  BY DEF F!Cyclic
<1> DEFINE I == {i \in 1..NTasks : order[i] \in S}
<1>1. I \in SUBSET Nat /\ I # {}
  BY PlaceOfTask
<1>2. PICK i \in I : \A j \in I : i <= j
  BY <1>1, LeastNat
<1>3. PICK p \in F!NeededBy(order[i]) : p \in S
  BY <1>2
<1>4. PICK j \in 1..(i - 1) : order[j] = p
  BY <1>2, <1>3, PlaceOfTask
<1>5. j \in I
  BY <1>2, <1>3, <1>4, NTasks \in Nat DEF TasksAreGiven
<1> QED
  BY <1>2, <1>4, <1>5

(* A chain of dependent tasks, of n of them. *)
ChainOf(s, n) ==
    /\ n \in Nat \ {0} /\ s \in [1..n -> F!Selected]
    /\ \A i \in 1..(n - 1) : s[i] \in F!NeededBy(s[i + 1])

LEMMA ChainsAre ==
  ASSUME TasksAreGiven
  PROVE  /\ \A s, n : n \in 1..NTasks /\ ChainOf(s, n) => s \in F!Chains /\ DOMAIN s = 1..n
         /\ \A s \in F!Chains : \E n \in 1..NTasks : ChainOf(s, n)
<1>1. ASSUME NEW n \in 1..NTasks, NEW s \in [1..n -> F!Selected] PROVE Len(s) = n /\ DOMAIN s = 1..n
  <2>1. n \in Nat
    BY DEF TasksAreGiven
  <2>2. s \in Seq(F!Selected) /\ DOMAIN s = 1..n
    BY <2>1
  <2> QED
    BY <2>1, <2>2
<1>2. ASSUME NEW n \in 1..NTasks, NEW s, ChainOf(s, n) PROVE s \in F!Chains /\ DOMAIN s = 1..n
  BY <1>1, <1>2 DEF ChainOf, F!Chains
<1>3. ASSUME NEW s \in F!Chains PROVE \E n \in 1..NTasks : ChainOf(s, n)
  <2>1. PICK n \in 1..NTasks : s \in [1..n -> F!Selected]
    BY DEF F!Chains
  <2>2. Len(s) = n /\ n \in Nat \ {0}
    BY <1>1, <2>1 DEF TasksAreGiven
  <2> QED
    BY <2>1, <2>2 DEF ChainOf, F!Chains
<1> QED
  BY <1>2, <1>3

(* A chain climbs in the order, so it is no longer than the order. *)
LEMMA ChainsClimb ==
  ASSUME TasksAreGiven, ForecastTypes, OrderInv, Len(order) = NTasks, NEW s, NEW n, ChainOf(s, n)
  PROVE  n \in 1..NTasks
<1> DEFINE Low == {m \in 1..n : \E i \in 1..NTasks : order[i] = s[m] /\ i < m}
<1>0. NTasks \in Nat /\ n \in Nat \ {0}
  BY DEF TasksAreGiven, ChainOf
<1>1. ASSUME Low # {} PROVE FALSE
  <2>1. Low \in SUBSET Nat
    BY <1>0
  <2>2. PICK m \in Low : \A k \in Low : m <= k
    BY <1>1, <2>1, LeastNat
  <2>3. PICK i \in 1..NTasks : order[i] = s[m] /\ i < m
    BY <2>2
  <2>4. m \in 2..n /\ m - 1 \in 1..(n - 1) /\ (m - 1) + 1 = m
    BY <1>0, <2>2, <2>3
  <2>5. s[m - 1] \in F!NeededBy(order[i])
    BY <2>3, <2>4 DEF ChainOf
  <2>6. PICK j \in 1..(i - 1) : order[j] = s[m - 1]
    BY <2>5, PlaceOfTask
  <2>7. m - 1 \in Low
    BY <1>0, <2>3, <2>4, <2>6
  <2> QED
    BY <2>2, <2>4, <2>7
<1>2. s[n] \in F!Selected
  BY <1>0 DEF ChainOf
<1>3. PICK i \in 1..NTasks : order[i] = s[n]
  BY <1>2, PlaceOfTask
<1>4. ~ (i < n)
  BY <1>0, <1>1, <1>3
<1> QED
  BY <1>0, <1>3, <1>4

(* The length of a chain is the sum of the hours along it, task by task. *)
HoursAlong(s, n, k) == [i \in 1..n |-> hours[s[i]][k]]
LEMMA LengthIsSum ==
  ASSUME NEW s, NEW n \in Nat, DOMAIN s = 1..n, NEW k
  PROVE  \E f : Sums(f, HoursAlong(s, n, k), 1..n) /\ F!LengthOf(s, k) = f[1..n]
<1> DEFINE S == 1..n
           w == HoursAlong(s, n, k)
           Body(f) == [r \in SUBSET S |-> IF r = {} THEN 0 ELSE hours[s[First(r)]][k] + f[r \ {First(r)}]]
           iter == CHOOSE f : f = Body(f)
<1>1. F!LengthOf(s, k) = iter[S]
  BY DEF F!LengthOf, F!MapThenSumSet, F!MapThenFoldSet, First
<1>2. \A f : Body(f) = [r \in SUBSET S |-> IF r = {} THEN 0 ELSE w[First(r)] + f[r \ {First(r)}]]
  <2>1. \A r \in SUBSET S : r # {} => w[First(r)] = hours[s[First(r)]][k]
    BY DEF First, HoursAlong
  <2> HIDE DEF w, S
  <2> QED
    BY <2>1
<1>3. \A f : f = Body(f) <=> Sums(f, w, S)
  BY <1>2 DEF Sums
<1>4. IsFiniteSet(S)
  BY FS_Interval
<1>5. iter = Body(iter)
  <2> HIDE DEF S, w, Body
  <2> QED
    BY <1>3, <1>4, SumsExist
<1> QED
  BY <1>1, <1>3, <1>5

Along(f, s, n, k) ==
    /\ f[1..0] = 0
    /\ \A m \in 0..n : f[1..m] \in Int
    /\ \A m \in 1..n : f[1..m] = f[1..(m - 1)] + hours[s[m]][k] /\ hours[s[m]][k] \in Nat
LEMMA AlongTheChain ==
  ASSUME TasksAreGiven, ForecastTypes, NEW n \in Nat, NEW s \in [1..n -> F!Selected], NEW k \in {1, 2},
         NEW f, Sums(f, HoursAlong(s, n, k), 1..n)
  PROVE  Along(f, s, n, k)
<1> DEFINE w == HoursAlong(s, n, k)
<1>1. \A m \in 1..n : w[m] = hours[s[m]][k] /\ w[m] \in Nat
  BY DEF HoursAlong, ForecastTypes
<1>2. w \in [1..n -> Int] /\ IsFiniteSet(1..n)
  <2>1. \A i \in 1..n : hours[s[i]][k] \in Int
    BY DEF ForecastTypes
  <2>2. w \in [1..n -> Int]
    BY <2>1 DEF HoursAlong
  <2>3. IsFiniteSet(1..n)
    BY FS_Interval
  <2> QED
    BY <2>2, <2>3
<1> HIDE DEF w
<1>3. /\ \A r \in SUBSET (1..n) : f[r] \in Int
      /\ f[{}] = 0 /\ \A r \in SUBSET (1..n) : \A x \in (1..n) \ r : f[r \cup {x}] = f[r] + w[x]
  <2>1. Sums(f, w, 1..n)
    BY DEF w
  <2> DEFINE S == 1..n
  <2>2. IsFiniteSet(S) /\ w \in [S -> Int] /\ Sums(f, w, S)
    BY <1>2, <2>1
  <2> HIDE DEF S
  <2>3. \A r \in SUBSET S : f[r] \in Int
    BY <2>2, SumsAreInt
  <2>4. f[{}] = 0 /\ \A r \in SUBSET S : \A x \in S \ r : f[r \cup {x}] = f[r] + w[x]
    <3>1. f[{}] = 0
      BY <2>2, SumsAdd
    <3>2. ASSUME NEW r \in SUBSET S, NEW x \in S \ r PROVE f[r \cup {x}] = f[r] + w[x]
      BY <2>2, SumsAdd
    <3> QED
      BY <3>1, <3>2
  <2> QED
    BY <2>3, <2>4 DEF S
<1>4. 1..0 = {} /\ \A m \in 0..n : 1..m \in SUBSET (1..n)
  OBVIOUS
<1>5. ASSUME NEW m \in 1..n PROVE f[1..m] = f[1..(m - 1)] + w[m]
  <2> DEFINE r == 1..(m - 1)
  <2>1. r \in SUBSET (1..n) /\ m \in (1..n) \ r /\ 1..m = r \cup {m}
    OBVIOUS
  <2> HIDE DEF r
  <2>2. f[r \cup {m}] = f[r] + w[m]
    BY <1>3, <2>1
  <2> QED
    BY <2>1, <2>2 DEF r
<1> QED
  BY <1>1, <1>3, <1>4, <1>5 DEF Along

(* No chain is longer than what was measured for its end. *)
LEMMA ChainsAreBounded ==
  ASSUME TasksAreGiven, ForecastTypes, \A t \in F!Selected : MeasuredWell(t), NEW k \in {1, 2},
         NEW s, NEW n, ChainOf(s, n)
  PROVE  F!LengthOf(s, k) \in Int /\ F!LengthOf(s, k) <= longest[s[n]][k]
<1>0. n \in Nat \ {0} /\ s \in [1..n -> F!Selected] /\ DOMAIN s = 1..n
  BY DEF ChainOf
<1>1. PICK f : Sums(f, HoursAlong(s, n, k), 1..n) /\ F!LengthOf(s, k) = f[1..n]
  BY <1>0, LengthIsSum
<1>2. /\ f[1..0] = 0 /\ \A m \in 0..n : f[1..m] \in Int
      /\ \A m \in 1..n : f[1..m] = f[1..(m - 1)] + hours[s[m]][k] /\ hours[s[m]][k] \in Nat
  BY <1>0, <1>1, AlongTheChain DEF Along
<1>3. \A t \in F!Selected : longest[t][k] \in Nat /\ hours[t][k] \in Nat /\ MostOf(t, k)
  BY DEF ForecastTypes, MeasuredWell
<1> DEFINE Wrong == {m \in 1..n : ~ (f[1..m] <= longest[s[m]][k])}
<1>4. ASSUME Wrong # {} PROVE FALSE
  <2>1. Wrong \in SUBSET Nat
    BY <1>0
  <2>2. PICK m \in Wrong : \A j \in Wrong : m <= j
    BY <1>4, <2>1, LeastNat
  <2>3. m \in 1..n /\ s[m] \in F!Selected /\ ~ (f[1..m] <= longest[s[m]][k])
    BY <1>0, <2>2
  <2>4. CASE m = 1
    <3>1. f[1..m] = 0 + hours[s[m]][k]
      <4>1. f[1..m] = f[1..(m - 1)] + hours[s[m]][k]
        BY <1>2, <2>3
      <4>2. m - 1 = 0
        BY <2>4
      <4> QED
        BY <1>2, <4>1, <4>2
    <3>2. hours[s[m]][k] <= longest[s[m]][k]
      <4>1. F!NeededBy(s[m]) \subseteq F!Selected
        BY NeedsOfSelected
      <4> QED
        BY <1>3, <2>3, <4>1 DEF MostOf
    <3> QED
      BY <1>3, <2>3, <3>1, <3>2
  <2>5. CASE m # 1
    <3>1. m - 1 \in 1..(n - 1) /\ m - 1 \in 1..n /\ (m - 1) + 1 = m /\ m - 1 \notin Wrong
      BY <1>0, <2>2, <2>3, <2>5
    <3>2. s[m - 1] \in F!NeededBy(s[m]) /\ s[m - 1] \in F!Selected
      BY <1>0, <3>1 DEF ChainOf
    <3>3. f[1..(m - 1)] <= longest[s[m - 1]][k]
      BY <3>1
    <3>4. longest[s[m - 1]][k] + hours[s[m]][k] <= longest[s[m]][k]
      BY <1>3, <2>3, <3>2 DEF MostOf
    <3>5. f[1..m] = f[1..(m - 1)] + hours[s[m]][k] /\ f[1..(m - 1)] \in Int
      BY <1>2, <2>3, <3>1
    <3> QED
      BY <1>3, <2>3, <3>2, <3>3, <3>4, <3>5
  <2> QED
    BY <2>4, <2>5
<1>5. n \in 1..n /\ n \in 0..n
  BY <1>0
<1> QED
  BY <1>1, <1>2, <1>4, <1>5

(* A chain that is as long as what was measured for its end.                *)
ChainTo(s, n, i, k) ==
    /\ ChainOf(s, n) /\ n <= i /\ s[n] = order[i]
    /\ \A m \in 1..n : s[m] \in {order[j] : j \in 1..i}
    /\ \A a, b \in 1..n : s[a] = s[b] => a = b
    /\ F!LengthOf(s, k) = longest[order[i]][k]

LEMMA ChainOfOne ==
  ASSUME TasksAreGiven, ForecastTypes, OrderInv, Len(order) = NTasks, NEW k \in {1, 2},
         \A t \in F!Selected : MeasuredWell(t), NEW i \in 1..NTasks, F!NeededBy(order[i]) = {}
  PROVE  \E s, n : ChainTo(s, n, i, k)
<1> DEFINE t == order[i]
           s == [m \in 1..1 |-> t]
<1>1. t \in F!Selected
  BY PlaceOfTask
<1> HIDE DEF t
<1>2. ChainOf(s, 1)
  BY <1>1 DEF ChainOf
<1>3. s[1] = t /\ DOMAIN s = 1..1 /\ s \in [1..1 -> F!Selected]
  BY <1>1
<1> HIDE DEF s
<1>4. PICK f : Sums(f, HoursAlong(s, 1, k), 1..1) /\ F!LengthOf(s, k) = f[1..1]
  BY <1>3, LengthIsSum
<1>5. f[1..0] = 0 /\ f[1..1] = f[1..(1 - 1)] + hours[s[1]][k] /\ hours[s[1]][k] \in Nat
  <2>1. Along(f, s, 1, k)
    <3>1. 1 \in Nat
      OBVIOUS
    <3> HIDE DEF t
    <3> QED
      BY <1>3, <1>4, <3>1, AlongTheChain
  <2>2. 1 \in 1..1
    OBVIOUS
  <2> QED
    BY <2>1, <2>2 DEF Along
<1>6. F!LengthOf(s, k) = hours[t][k]
  BY <1>3, <1>4, <1>5
<1>7. longest[t][k] = hours[t][k]
  BY <1>1 DEF t, MeasuredWell, MostOf
<1>8. i \in Nat /\ 1 <= i /\ order[i] = t
  BY DEF TasksAreGiven, t
<1> QED
  BY <1>2, <1>3, <1>6, <1>7, <1>8 DEF ChainTo

LEMMA ChainOfMore ==
  ASSUME TasksAreGiven, ForecastTypes, OrderInv, Len(order) = NTasks, NEW k \in {1, 2},
         \A t \in F!Selected : MeasuredWell(t), NEW i \in 1..NTasks, NEW j \in 1..(i - 1),
         order[j] \in F!NeededBy(order[i]), longest[order[i]][k] = longest[order[j]][k] + hours[order[i]][k],
         NEW r, NEW n, ChainTo(r, n, j, k)
  PROVE  \E s, m : ChainTo(s, m, i, k)
<1> DEFINE t == order[i]
           s == [m \in 1..(n + 1) |-> IF m = n + 1 THEN t ELSE r[m]]
<1>0. t \in F!Selected /\ i \in Nat /\ NTasks \in Nat /\ j \in Nat
  BY PlaceOfTask DEF TasksAreGiven
<1>1. /\ n \in Nat \ {0} /\ n <= j /\ r \in [1..n -> F!Selected] /\ r[n] = order[j] /\ DOMAIN r = 1..n
      /\ \A m \in 1..(n - 1) : r[m] \in F!NeededBy(r[m + 1])
      /\ \A m \in 1..n : r[m] \in {order[l] : l \in 1..j}
      /\ \A a, b \in 1..n : r[a] = r[b] => a = b
      /\ F!LengthOf(r, k) = longest[order[j]][k]
  BY DEF ChainTo, ChainOf
<1>2. s \in [1..(n + 1) -> F!Selected] /\ DOMAIN s = 1..(n + 1) /\ s[n + 1] = t /\ \A m \in 1..n : s[m] = r[m]
  BY <1>0, <1>1
<1> HIDE DEF s
<1>3. ASSUME NEW m \in 1..n PROVE s[m] \in F!NeededBy(s[m + 1])
  <2>1. CASE m = n
    BY <1>1, <1>2, <2>1
  <2>2. CASE m # n
    <3>1. m \in 1..(n - 1) /\ m + 1 \in 1..n
      BY <1>1, <2>2
    <3> QED
      BY <1>1, <1>2, <3>1
  <2> QED
    BY <2>1, <2>2
<1>4. ChainOf(s, n + 1)
  BY <1>1, <1>2, <1>3 DEF ChainOf
<1>5. t \notin {order[l] : l \in 1..j}
  BY <1>0, PlaceOfTask
<1>6. \A a, b \in 1..(n + 1) : s[a] = s[b] => a = b
  <2>1. \A m \in 1..n : s[m] # t
    BY <1>1, <1>2, <1>5
  <2>2. \A a \in 1..(n + 1) : a \in 1..n \/ a = n + 1
    BY <1>1
  <2> QED
    BY <1>1, <1>2, <2>1, <2>2
<1>7. \A m \in 1..(n + 1) : s[m] \in {order[l] : l \in 1..i}
  <2>1. \A l \in 1..j : l \in 1..i
    BY <1>0
  <2>2. i \in 1..i
    BY <1>0
  <2>3. \A a \in 1..(n + 1) : a \in 1..n \/ a = n + 1
    BY <1>1
  <2> QED
    BY <1>1, <1>2, <2>1, <2>2, <2>3
<1>8. F!LengthOf(s, k) = longest[t][k]
  <2>0. n \in Nat /\ n + 1 \in Nat
    BY <1>1
  <2>1. PICK f : Sums(f, HoursAlong(s, n + 1, k), 1..(n + 1)) /\ F!LengthOf(s, k) = f[1..(n + 1)]
    BY <1>2, <2>0, LengthIsSum
  <2>2. PICK g : Sums(g, HoursAlong(r, n, k), 1..n) /\ F!LengthOf(r, k) = g[1..n]
    BY <1>1, <2>0, LengthIsSum
  <2>3. f[1..(n + 1)] = f[1..((n + 1) - 1)] + hours[s[n + 1]][k]
    <3> DEFINE q == n + 1
    <3>1. q \in 1..q /\ q \in Nat
      BY <2>0
    <3>2. s \in [1..q -> F!Selected] /\ Sums(f, HoursAlong(s, q, k), 1..q)
      BY <1>2, <2>1
    <3> HIDE DEF q
    <3>3. Along(f, s, q, k)
      BY <3>1, <3>2, AlongTheChain
    <3>4. f[1..q] = f[1..(q - 1)] + hours[s[q]][k]
      BY <3>1, <3>3 DEF Along
    <3> QED
      BY <3>4 DEF q
  <2>4. f[1..n] = g[1..n]
    <3>1. \A x \in 1..n : HoursAlong(s, n + 1, k)[x] = HoursAlong(r, n, k)[x]
      BY <1>2, <2>0 DEF HoursAlong
    <3>2. IsFiniteSet(1..(n + 1)) /\ 1..n \in SUBSET (1..(n + 1)) /\ 1..n \in SUBSET (1..n)
      <4>1. 1..n \in SUBSET (1..(n + 1)) /\ 1..n \in SUBSET (1..n)
        BY <2>0
      <4>2. IsFiniteSet(1..(n + 1))
        BY <2>0, FS_Interval
      <4> QED
        BY <4>1, <4>2
    <3> DEFINE R == 1..n
               S == 1..(n + 1)
               v == HoursAlong(s, n + 1, k)
               w == HoursAlong(r, n, k)
    <3>3. /\ IsFiniteSet(S) /\ Sums(f, v, S) /\ Sums(g, w, R) /\ R \in SUBSET S /\ R \in SUBSET R
          /\ \A x \in R : v[x] = w[x]
      BY <2>1, <2>2, <3>1, <3>2
    <3> HIDE DEF R, S, v, w
    <3>4. f[R] = g[R]
      BY <3>3, SumsAgree
    <3> QED
      BY <3>4 DEF R
  <2>5. (n + 1) - 1 = n
    BY <2>0
  <2> QED
    BY <1>1, <1>2, <2>1, <2>2, <2>3, <2>4, <2>5
<1>9. n + 1 <= i
  BY <1>0, <1>1
<1> QED
  BY <1>2, <1>4, <1>6, <1>7, <1>8, <1>9 DEF ChainTo

LEMMA ChainsAttain ==
  ASSUME TasksAreGiven, ForecastTypes, OrderInv, Len(order) = NTasks, NEW k \in {1, 2},
         \A t \in F!Selected : MeasuredWell(t)
  PROVE  \A i \in 1..NTasks : \E s, n : ChainTo(s, n, i, k)
<1> DEFINE Wrong == {i \in 1..NTasks : ~ \E s, n : ChainTo(s, n, i, k)}
<1>0. Wrong \in SUBSET Nat
  BY DEF TasksAreGiven
<1>1. ASSUME Wrong # {} PROVE FALSE
  <2>1. PICK i \in Wrong : \A l \in Wrong : i <= l
    BY <1>0, <1>1, LeastNat
  <2>2. i \in 1..NTasks /\ order[i] \in F!Selected /\ NTasks \in Nat
    BY <2>1, PlaceOfTask DEF TasksAreGiven
  <2>3. F!NeededBy(order[i]) # {}
    BY <2>1, <2>2, ChainOfOne
  <2>4. MostOf(order[i], k)
    BY <2>2 DEF MeasuredWell
  <2>5. PICK p \in F!NeededBy(order[i]) : longest[order[i]][k] = longest[p][k] + hours[order[i]][k]
    BY <2>3, <2>4 DEF MostOf
  <2>6. PICK j \in 1..(i - 1) : order[j] = p
    BY <2>2, <2>5, PlaceOfTask
  <2>7. j \in 1..NTasks /\ j \notin Wrong
    BY <2>1, <2>2, <2>6
  <2>8. PICK r, n : ChainTo(r, n, j, k)
    BY <2>7
  <2>9. \E s, m : ChainTo(s, m, i, k)
    BY <2>2, <2>5, <2>6, <2>8, ChainOfMore
  <2> QED
    BY <2>1, <2>9
<1> QED
  BY <1>1

(* The hours of the critical path are those of the longest chain. *)
LEMMA CriticalIsMost ==
  ASSUME TasksAreGiven, ForecastTypes, OrderInv, Len(order) = NTasks, NEW k \in {1, 2},
         \A t \in F!Selected : MeasuredWell(t)
  PROVE  F!Critical(k) = F!Max({F!LengthOf(s, k) : s \in {c \in F!Chains : F!Simple(c)}})
<1> DEFINE L == {F!LengthOf(s, k) : s \in {c \in F!Chains : F!Simple(c)}}
<1>1. F!LastOf(k) \in F!Selected /\ \A i \in 1..NTasks : longest[order[i]][k] <= longest[F!LastOf(k)][k]
  BY LastIsLongest
<1>2. PICK i \in 1..NTasks : order[i] = F!LastOf(k)
  BY <1>1, PlaceOfTask
<1>3. PICK s, n : ChainTo(s, n, i, k)
  BY ChainsAttain
<1>4. ChainOf(s, n) /\ n \in 1..NTasks /\ s \in F!Chains /\ DOMAIN s = 1..n
  BY <1>3, ChainsClimb, ChainsAre DEF ChainTo
<1>5. F!Simple(s)
  <2>1. s \in [1..n -> F!Selected] /\ n \in Nat /\ Len(s) = n
    BY <1>4 DEF ChainOf
  <2> DEFINE T == {s[l] : l \in DOMAIN s}
  <2>2. s \in Bijection(1..n, T)
    <3>1. s \in [1..n -> T]
      BY <1>4, <2>1
    <3>2. \A a, b \in 1..n : s[a] = s[b] => a = b
      BY <1>3 DEF ChainTo
    <3>3. \A x \in T : \E a \in 1..n : s[a] = x
      BY <1>4
    <3> HIDE DEF T
    <3> QED
      BY <3>1, <3>2, <3>3 DEF Bijection, Injection, Surjection, IsInjective
  <2>3. Cardinality(1..n) = n /\ IsFiniteSet(1..n)
    BY <2>1, FS_Interval
  <2>4. Cardinality(T) = n
    <3> HIDE DEF T
    <3> QED
      BY <2>2, <2>3, FS_Bijection DEF ExistsBijection
  <2> QED
    BY <2>1, <2>4, SameNumber DEF F!Simple
<1>6. F!Critical(k) \in L
  <2>1. F!Critical(k) = F!LengthOf(s, k)
    BY <1>2, <1>3 DEF F!Critical, ChainTo
  <2> QED
    BY <1>4, <1>5, <2>1
<1>7. ASSUME NEW c \in F!Chains PROVE F!LengthOf(c, k) \in Int /\ F!LengthOf(c, k) <= F!Critical(k)
  <2>1. PICK m \in 1..NTasks : ChainOf(c, m)
    BY ChainsAre
  <2>2. c[m] \in F!Selected
    BY <2>1 DEF ChainOf
  <2>3. PICK l \in 1..NTasks : order[l] = c[m]
    BY <2>2, PlaceOfTask
  <2>4. F!LengthOf(c, k) \in Int /\ F!LengthOf(c, k) <= longest[c[m]][k]
    BY <2>1, ChainsAreBounded
  <2>5. longest[c[m]][k] <= longest[F!LastOf(k)][k] /\ longest[c[m]][k] \in Int /\ longest[F!LastOf(k)][k] \in Int
    <3>1. longest[order[l]][k] <= longest[F!LastOf(k)][k]
      BY <1>1
    <3>2. \A t \in F!Selected : longest[t][k] \in Nat
      BY DEF ForecastTypes
    <3> QED
      BY <1>1, <2>2, <2>3, <3>1, <3>2
  <2> QED
    BY <2>4, <2>5 DEF F!Critical
<1>8. L \in SUBSET Int /\ \A x \in L : x <= F!Critical(k)
  BY <1>7
<1> HIDE DEF L
<1>9. F!Max(L) = F!Critical(k)
  BY <1>6, <1>8, GreatestOf
<1> QED
  BY <1>9 DEF L

(* The path that is reported is such a chain. *)
LEMMA PathIsCritical ==
  ASSUME TasksAreGiven, ForecastTypes, OrderInv, PathInv, phase = "stored", Len(order) = NTasks,
         \A t \in F!Selected : MeasuredWell(t)
  PROVE  path \in F!Chains /\ F!LengthOf(path, 1) = F!Critical(1)
<1> DEFINE n == Len(path)
<1>1. /\ path # << >> /\ before[path[1]] = 0 /\ path[n] = F!LastOf(1)
      /\ \A i \in 1..(n - 1) : path[i] = before[path[i + 1]] /\ path[i] \in F!NeededBy(path[i + 1])
  BY DEF PathInv
<1>2. n \in Nat \ {0} /\ path \in [1..n -> F!Selected] /\ DOMAIN path = 1..n
  <2>1. path \in Seq(F!Selected)
    BY DEF ForecastTypes
  <2>2. n \in Nat /\ n # 0
    BY <1>1, <2>1
  <2> QED
    BY <2>1, <2>2
<1> HIDE DEF n
<1>3. ChainOf(path, n)
  BY <1>1, <1>2 DEF ChainOf
<1>4. path \in F!Chains
  BY <1>3, ChainsClimb, ChainsAre
<1>5. PICK f : Sums(f, HoursAlong(path, n, 1), 1..n) /\ F!LengthOf(path, 1) = f[1..n]
  BY <1>2, LengthIsSum
<1>6. /\ f[1..0] = 0 /\ \A m \in 0..n : f[1..m] \in Int
      /\ \A m \in 1..n : f[1..m] = f[1..(m - 1)] + hours[path[m]][1] /\ hours[path[m]][1] \in Nat
  BY <1>2, <1>5, AlongTheChain DEF Along
<1> DEFINE Wrong == {m \in 1..n : f[1..m] # longest[path[m]][1]}
<1>7. ASSUME Wrong # {} PROVE FALSE
  <2>1. Wrong \in SUBSET Nat
    BY <1>2
  <2>2. PICK m \in Wrong : \A j \in Wrong : m <= j
    BY <1>7, <2>1, LeastNat
  <2>3. m \in 1..n /\ path[m] \in F!Selected /\ f[1..m] # longest[path[m]][1]
    BY <1>2, <2>2
  <2>4. CASE m = 1
    <3>1. F!NeededBy(path[1]) = {}
      <4>1. 0 \notin F!NeededBy(path[1])
        BY NeedsOfSelected DEF F!Selected
      <4> QED
        BY <1>1, <2>3, <2>4, <4>1 DEF MeasuredWell
    <3>2. longest[path[1]][1] = hours[path[1]][1]
      BY <2>3, <2>4, <3>1 DEF MeasuredWell, MostOf
    <3>3. f[1..m] = f[1..(m - 1)] + hours[path[m]][1] /\ hours[path[m]][1] \in Nat /\ m - 1 = 0
      <4>1. f[1..m] = f[1..(m - 1)] + hours[path[m]][1] /\ hours[path[m]][1] \in Nat
        BY <1>6, <2>3
      <4>2. m - 1 = 0
        BY <2>4
      <4> QED
        BY <4>1, <4>2
    <3>4. f[1..m] = 0 + hours[path[1]][1]
      BY <1>6, <2>4, <3>3
    <3> QED
      BY <2>3, <2>4, <3>2, <3>3, <3>4
  <2>5. CASE m # 1
    <3>1. m - 1 \in 1..(n - 1) /\ m - 1 \in 1..n /\ (m - 1) + 1 = m /\ m - 1 \notin Wrong
      BY <1>2, <2>2, <2>3, <2>5
    <3>2. path[m - 1] = before[path[m]] /\ path[m - 1] \in F!NeededBy(path[m])
      BY <1>1, <3>1
    <3>3. longest[path[m]][1] = longest[path[m - 1]][1] + hours[path[m]][1]
      BY <2>3, <3>2 DEF MeasuredWell
    <3>4. f[1..(m - 1)] = longest[path[m - 1]][1]
      BY <3>1
    <3> QED
      BY <1>6, <2>3, <3>3, <3>4
  <2> QED
    BY <2>4, <2>5
<1>8. n \in 1..n
  BY <1>2
<1>9. f[1..n] = longest[path[n]][1]
  BY <1>7, <1>8
<1> QED
  BY <1>1, <1>4, <1>5, <1>9 DEF F!Critical

(* The order, the measures and the path say what they promise. *)
LEMMA ForecastIsExact ==
  ASSUME TasksAreGiven, ForecastInv
  PROVE  F!TypeOKForecast /\ F!CriticalPathExact /\ F!EstimatesSettledTogether
<1>1. ForecastTypes /\ OrderInv /\ EstimatesInv /\ MeasuresInv /\ PathInv
  BY DEF ForecastInv
<1>2. F!TypeOKForecast
  BY <1>1 DEF ForecastTypes, CountedStates, F!TypeOKForecast, F!Ordered
<1>3. F!EstimatesSettledTogether
  BY <1>1 DEF EstimatesInv, F!EstimatesSettledTogether
<1>4. phase = "cancelled" => F!Cyclic
  BY <1>1 DEF OrderInv
<1>5. ASSUME phase = "stored"
      PROVE  /\ ~ F!Cyclic
             /\ \A k \in {1, 2} : F!Critical(k) = F!Max({F!LengthOf(s, k) : s \in {c \in F!Chains : F!Simple(c)}})
             /\ path \in F!Chains /\ F!LengthOf(path, 1) = F!Critical(1)
  <2>1. Len(order) = NTasks /\ \A t \in F!Selected : MeasuredWell(t)
    BY <1>1, <1>5 DEF OrderInv, PathInv, MeasuresInv
  <2> QED
    BY <1>1, <1>5, <2>1, OrderHasNoCycle, CriticalIsMost, PathIsCritical
<1> QED
  BY <1>2, <1>3, <1>4, <1>5 DEF F!CriticalPathExact

LEMMA Divided ==
  ASSUME NEW n \in Nat, NEW d \in Nat \ {0}
  PROVE  LET q == n \div d IN q \in Nat /\ d * q <= n /\ n < d * q + d
OBVIOUS

LEMMA ProductsGrow ==
  ASSUME NEW a \in Nat, NEW b \in Nat, NEW c \in Nat, a <= b
  PROVE  a * c <= b * c /\ c * a <= c * b /\ a * c \in Nat /\ c * a \in Nat /\ b * c \in Nat
OBVIOUS

(* A smaller quotient is not above the bound that a larger one meets. *)
LEMMA QuotientBelow ==
  ASSUME NEW d \in Nat \ {0}, NEW q \in Nat, NEW p \in Nat, NEW n \in Nat, d * q <= n, n < d * p + d
  PROVE  q <= p
<1>1. ASSUME p + 1 <= q PROVE FALSE
  <2>1. d * (p + 1) <= d * q
    BY <1>1, ProductsGrow
  <2>2. d * (p + 1) = d * p + d /\ d * p \in Nat /\ d * q \in Nat
    OBVIOUS
  <2> QED
    BY <2>1, <2>2
<1> QED
  BY <1>1

LEMMA RoundedGrows ==
  ASSUME NEW a \in Nat, NEW c \in Nat, NEW b \in Nat \ {0}, a <= c
  PROVE  F!Rounded(a, b) <= F!Rounded(c, b) /\ F!Rounded(a, b) \in Nat /\ F!Rounded(c, b) \in Nat
<1> DEFINE p == (2 * a + b) \div (2 * b)
           q == (2 * c + b) \div (2 * b)
           d == 2 * b
           m == 2 * a + b
           n == 2 * c + b
<1>1. d \in Nat \ {0} /\ m \in Nat /\ n \in Nat /\ m <= n
  OBVIOUS
<1>2. p = m \div d /\ q = n \div d
  OBVIOUS
<1> HIDE DEF p, q, d, m, n
<1>3. p \in Nat /\ d * p <= m /\ m < d * p + d /\ q \in Nat /\ d * q <= n /\ n < d * q + d
  BY <1>1, <1>2, Divided
<1>4. d * p \in Nat /\ d * q \in Nat
  BY <1>1, <1>3
<1>5. d * p <= n
  BY <1>1, <1>3, <1>4
<1>6. p <= q
  BY <1>1, <1>3, <1>5, QuotientBelow
<1> QED
  BY <1>3, <1>6 DEF F!Rounded, p, q

LEMMA RoundedShrinks ==
  ASSUME NEW a \in Nat, NEW b \in Nat \ {0}, NEW c \in Nat \ {0}, b <= c
  PROVE  F!Rounded(a, c) <= F!Rounded(a, b)
<1> DEFINE p == (2 * a + c) \div (2 * c)
           q == (2 * a + b) \div (2 * b)
           d == 2 * c
           e == 2 * b
           m == 2 * a + c
           n == 2 * a + b
<1>1. d \in Nat \ {0} /\ m \in Nat /\ e \in Nat \ {0} /\ n \in Nat
  OBVIOUS
<1>2. p = m \div d /\ q = n \div e
  OBVIOUS
<1> HIDE DEF p, q
<1>3. p \in Nat /\ d * p <= m /\ q \in Nat /\ n < e * q + e
  <2> HIDE DEF d, e, m, n
  <2> QED
    BY <1>1, <1>2, Divided
<1>4. CASE p = 0
  BY <1>3, <1>4 DEF F!Rounded, p, q
<1>5. CASE p # 0
  <2> DEFINE r == 2 * p - 1
  <2>1. r \in Nat
    BY <1>3, <1>5
  <2>2. d * p = c * r + c /\ e * p = b * r + b
    BY <1>3
  <2>3. b * r <= c * r /\ b * r \in Nat /\ c * r \in Nat
    BY <2>1, ProductsGrow
  <2> HIDE DEF r
  <2>4. e * p <= n
    BY <1>3, <2>2, <2>3
  <2>5. p <= q
    <3> HIDE DEF e, n
    <3> QED
      BY <1>1, <1>3, <2>4, QuotientBelow
  <2> QED
    BY <2>5 DEF F!Rounded, p, q
<1> QED
  BY <1>4, <1>5

LEMMA TotalIsSum ==
  ASSUME TasksAreGiven, NEW k
  PROVE  \E f : Sums(f, [t \in F!Selected |-> hours[t][k]], F!Selected) /\ F!Total(k) = f[F!Selected]
<1> DEFINE S == F!Selected
           w == [t \in F!Selected |-> hours[t][k]]
           Body(f) == [r \in SUBSET S |-> IF r = {} THEN 0 ELSE hours[First(r)][k] + f[r \ {First(r)}]]
           iter == CHOOSE f : f = Body(f)
<1>1. F!Total(k) = iter[S]
  BY DEF F!Total, F!MapThenSumSet, F!MapThenFoldSet, First
<1>2. \A f : Body(f) = [r \in SUBSET S |-> IF r = {} THEN 0 ELSE w[First(r)] + f[r \ {First(r)}]]
  <2>1. \A r \in SUBSET S : r # {} => w[First(r)] = hours[First(r)][k]
    BY DEF First
  <2> HIDE DEF w, S
  <2> QED
    BY <2>1
<1>3. \A f : f = Body(f) <=> Sums(f, w, S)
  BY <1>2 DEF Sums
<1>4. IsFiniteSet(S)
  BY NeedsAreFinite
<1>5. iter = Body(iter)
  <2> HIDE DEF S, w, Body
  <2> QED
    BY <1>3, <1>4, SumsExist
<1> QED
  BY <1>1, <1>3, <1>5

LEMMA TotalsGrow ==
  ASSUME TasksAreGiven, ForecastTypes, \A t \in F!Selected : hours[t][1] <= hours[t][2]
  PROVE  F!Total(1) \in Nat /\ F!Total(2) \in Nat /\ F!Total(1) <= F!Total(2)
<1> DEFINE S == F!Selected
           w == [t \in F!Selected |-> hours[t][1]]
           v == [t \in F!Selected |-> hours[t][2]]
<1>1. PICK f : Sums(f, w, S) /\ F!Total(1) = f[S]
  BY TotalIsSum
<1>2. PICK g : Sums(g, v, S) /\ F!Total(2) = g[S]
  BY TotalIsSum
<1>3. w \in [S -> Nat] /\ v \in [S -> Nat] /\ \A x \in S : w[x] <= v[x]
  BY DEF ForecastTypes
<1>4. IsFiniteSet(S)
  BY NeedsAreFinite
<1> HIDE DEF S, w, v
<1>5. f[S] <= g[S] /\ f[S] \in Nat /\ g[S] \in Nat
  BY <1>1, <1>2, <1>3, <1>4, SumsGrow
<1> QED
  BY <1>1, <1>2, <1>5

(* Team sizes, streams and deadlines are integers. *)
ScenariosAreGiven == Teams \subseteq Int /\ Days \subseteq Int

LEMMA StreamsAre ==
  ASSUME TasksAreGiven, NEW t \in Int, NEW s \in Int
  PROVE  /\ F!Streams(t, s) \in Nat \ {0}
         /\ F!Streams(t, s) \in {1, t, s, NTasks}
         /\ F!Streams(t, s) = 1 \/ (F!Streams(t, s) <= t /\ F!Streams(t, s) <= s /\ F!Streams(t, s) <= NTasks)
         /\ (t <= F!Streams(t, s) \/ s <= F!Streams(t, s) \/ NTasks <= F!Streams(t, s))
<1> DEFINE m == F!Min({t, s, NTasks})
<1>1. m \in {t, s, NTasks} /\ m <= t /\ m <= s /\ m <= NTasks
  <2>1. NTasks \in Int
    BY DEF TasksAreGiven
  <2> QED
    BY <2>1, LeastOfThree
<1> HIDE DEF m
<1>2. m \in Int /\ NTasks \in Int
  BY <1>1 DEF TasksAreGiven
<1>3. F!Streams(t, s) = IF 1 >= m THEN 1 ELSE m
  <2>1. F!Max({1, m}) = IF 1 >= m THEN 1 ELSE m
    BY <1>2, GreaterOfTwo
  <2> QED
    BY <2>1 DEF F!Streams, F!LeastOf, m
<1> QED
  BY <1>1, <1>2, <1>3

LEMMA StreamsGrow ==
  ASSUME TasksAreGiven, NEW t \in Int, NEW u \in Int, NEW s \in Int, t <= u
  PROVE  F!Streams(t, s) <= F!Streams(u, s)
<1> DEFINE a == F!Streams(t, s)
           b == F!Streams(u, s)
<1>1. a \in Nat \ {0} /\ (a = 1 \/ (a <= t /\ a <= s /\ a <= NTasks))
  BY StreamsAre
<1>2. b \in Nat \ {0} /\ (u <= b \/ s <= b \/ NTasks <= b)
  BY StreamsAre
<1> HIDE DEF a, b
<1>3. a <= b
  BY <1>1, <1>2, NTasks \in Int DEF TasksAreGiven
<1> QED
  BY <1>3 DEF a, b

LEMMA WhatIfIsSame ==
  ASSUME TasksAreGiven, NEW t \in Int, NEW s \in Int
  PROVE  F!WhatIfStreams(t, s) \in Int /\ F!Streams(t, F!WhatIfStreams(t, s)) = F!Streams(t, s)
<1> DEFINE m == F!Min({t, s})
           v == F!WhatIfStreams(t, s)
<1>1. m = IF t <= s THEN t ELSE s
  BY LeastOfTwo
<1> HIDE DEF m
<1>2. v = IF 1 >= m THEN 1 ELSE m
  <2>1. m \in Int
    BY <1>1
  <2>2. F!Max({1, m}) = IF 1 >= m THEN 1 ELSE m
    BY <2>1, GreaterOfTwo
  <2> QED
    BY <2>2 DEF F!WhatIfStreams, F!LeastOf, m
<1> HIDE DEF v
<1>3. v \in Int
  BY <1>1, <1>2
<1> DEFINE a == F!Streams(t, s)
           b == F!Streams(t, v)
<1>4. /\ a \in Nat \ {0} /\ (a = 1 \/ (a <= t /\ a <= s /\ a <= NTasks))
      /\ (t <= a \/ s <= a \/ NTasks <= a)
  BY StreamsAre
<1>5. /\ b \in Nat \ {0} /\ (b = 1 \/ (b <= t /\ b <= v /\ b <= NTasks))
      /\ (t <= b \/ v <= b \/ NTasks <= b)
  BY <1>3, StreamsAre
<1> HIDE DEF a, b
<1>6. a = b
  BY <1>1, <1>2, <1>4, <1>5, NTasks \in Int DEF TasksAreGiven
<1> QED
  BY <1>3, <1>6 DEF a, b, v

LEMMA CapacityGrows ==
  ASSUME NEW a \in Nat, NEW b \in Nat, a <= b
  PROVE  F!Capacity(a) \in Nat \ {0} /\ F!Capacity(b) \in Nat \ {0} /\ F!Capacity(a) <= F!Capacity(b)
<1>1. \A n \in Nat : F!Capacity(n) = IF 85 * n >= 100 THEN 85 * n ELSE 100
  BY GreaterOfTwo DEF F!Capacity
<1> QED
  BY <1>1

(* What the calendars of two scenarios and two percentiles have in common. *)
CalendarOf(c, w, n) == F!Max({100 * c, F!Rounded(10000 * w, F!Capacity(n))})
LEMMA CalendarMoves ==
  ASSUME NEW c \in Nat, NEW d \in Nat, NEW w \in Nat, NEW x \in Nat, NEW m \in Nat, NEW n \in Nat,
         c <= d, w <= x, n <= m
  PROVE  CalendarOf(c, w, m) <= CalendarOf(d, x, n) /\ CalendarOf(c, w, m) \in Nat /\ CalendarOf(d, x, n) \in Nat
<1> DEFINE p == F!Rounded(10000 * w, F!Capacity(m))
           q == F!Rounded(10000 * x, F!Capacity(m))
           r == F!Rounded(10000 * x, F!Capacity(n))
<1>1. F!Capacity(n) \in Nat \ {0} /\ F!Capacity(m) \in Nat \ {0} /\ F!Capacity(n) <= F!Capacity(m)
  BY CapacityGrows
<1>2. 10000 * w \in Nat /\ 10000 * x \in Nat /\ 10000 * w <= 10000 * x
  OBVIOUS
<1>3. p <= q /\ p \in Nat /\ q \in Nat
  BY <1>1, <1>2, RoundedGrows
<1>4. q <= r
  BY <1>1, <1>2, RoundedShrinks
<1>5. r \in Nat
  BY <1>1, <1>2, RoundedGrows
<1> HIDE DEF p, q, r
<1>6. F!Max({100 * c, p}) = IF 100 * c >= p THEN 100 * c ELSE p
  BY <1>3, GreaterOfTwo
<1>7. F!Max({100 * d, r}) = IF 100 * d >= r THEN 100 * d ELSE r
  BY <1>5, GreaterOfTwo
<1> DEFINE a == CalendarOf(c, w, m)
           b == CalendarOf(d, x, n)
<1>8. a = IF 100 * c >= p THEN 100 * c ELSE p
  BY <1>6 DEF CalendarOf, p
<1>9. b = IF 100 * d >= r THEN 100 * d ELSE r
  BY <1>7 DEF CalendarOf, r
<1> HIDE DEF a, b
<1>10. a <= b /\ a \in Nat /\ b \in Nat
  BY <1>3, <1>4, <1>5, <1>8, <1>9
<1> QED
  BY <1>10 DEF a, b

(* The level of the risk grows with the days. *)
Level(d, p, q) ==
    CASE d <= 0 \/ p > 100 * d -> 3
      [] d > 0 /\ p <= 100 * d /\ q > 100 * d -> 2
      [] d > 0 /\ q <= 100 * d /\ q > 85 * d -> 1
      [] OTHER -> 0
LEMMA LevelGrows ==
  ASSUME NEW d \in Int, NEW p \in Nat, NEW q \in Nat, NEW r \in Nat, NEW s \in Nat, p <= r, q <= s, p <= q, r <= s
  PROVE  Level(d, p, q) <= Level(d, r, s)
<1>1. Level(d, p, q) = IF d <= 0 \/ p > 100 * d THEN 3
                       ELSE IF q > 100 * d THEN 2 ELSE IF q > 85 * d THEN 1 ELSE 0
  BY DEF Level
<1>2. Level(d, r, s) = IF d <= 0 \/ r > 100 * d THEN 3
                       ELSE IF s > 100 * d THEN 2 ELSE IF s > 85 * d THEN 1 ELSE 0
  BY DEF Level
<1> DEFINE a == Level(d, p, q)
           b == Level(d, r, s)
<1> HIDE DEF a, b
<1>3. a = IF d <= 0 \/ p > 100 * d THEN 3 ELSE IF q > 100 * d THEN 2 ELSE IF q > 85 * d THEN 1 ELSE 0
  BY <1>1 DEF a
<1>4. b = IF d <= 0 \/ r > 100 * d THEN 3 ELSE IF s > 100 * d THEN 2 ELSE IF s > 85 * d THEN 1 ELSE 0
  BY <1>2 DEF b
<1>5. a <= b
  BY <1>3, <1>4
<1> QED
  BY <1>5 DEF a, b

LEMMA ScenariosAgree ==
  ASSUME TasksAreGiven, ScenariosAreGiven, ForecastInv
  PROVE  F!ScenariosConsistent
<1> SUFFICES ASSUME phase = "stored", NEW t \in Teams, NEW u \in Teams, NEW s \in Teams
             PROVE  /\ F!Calendar(1, t, s) <= F!Calendar(2, t, s)
                    /\ F!Calendar(2, t, F!WhatIfStreams(t, s)) = F!Calendar(2, t, s)
                    /\ t <= u => /\ F!Calendar(2, u, s) <= F!Calendar(2, t, s)
                                 /\ \A d \in Days : F!Risk(d, u, s) <= F!Risk(d, t, s)
  BY DEF F!ScenariosConsistent
<1>1. ForecastTypes /\ OrderInv /\ EstimatesInv /\ MeasuresInv /\ PathInv
  BY DEF ForecastInv
<1>2. t \in Int /\ u \in Int /\ s \in Int
  BY DEF ScenariosAreGiven
<1>3. Len(order) = NTasks /\ \A x \in F!Selected : MeasuredWell(x) /\ hours[x][1] <= hours[x][2]
  BY <1>1 DEF OrderInv, PathInv, MeasuresInv, EstimatesInv, CountedStates
<1> DEFINE c1 == F!Critical(1)
           c2 == F!Critical(2)
           w1 == F!Total(1)
           w2 == F!Total(2)
<1>4. c1 \in Nat /\ c2 \in Nat /\ c1 <= c2
  <2> DEFINE a == F!LastOf(1)
             b == F!LastOf(2)
  <2>1. a \in F!Selected /\ b \in F!Selected /\ \A i \in 1..NTasks : longest[order[i]][2] <= longest[b][2]
    BY <1>1, <1>3, LastIsLongest
  <2>2. PICK i \in 1..NTasks : order[i] = a
    BY <1>1, <1>3, <2>1, PlaceOfTask
  <2> HIDE DEF a, b
  <2>3. longest[a][2] <= longest[b][2] /\ longest[a][1] <= longest[a][2]
    BY <1>3, <2>1, <2>2 DEF MeasuredWell
  <2>4. longest[a] \in Nat \X Nat /\ longest[b] \in Nat \X Nat
    BY <1>1, <2>1 DEF ForecastTypes
  <2> QED
    BY <2>3, <2>4 DEF F!Critical, a, b
<1>5. w1 \in Nat /\ w2 \in Nat /\ w1 <= w2
  BY <1>1, <1>3, TotalsGrow
<1>6. \A n, h : F!Calendar(1, n, h) = CalendarOf(c1, w1, F!Streams(n, h)) /\ F!Calendar(2, n, h) = CalendarOf(c2, w2, F!Streams(n, h))
  BY DEF F!Calendar, CalendarOf
<1> HIDE DEF c1, c2, w1, w2
<1>7. F!Streams(t, s) \in Nat /\ F!Streams(u, s) \in Nat
  BY <1>2, StreamsAre
<1>8. /\ F!Calendar(1, t, s) <= F!Calendar(2, t, s) /\ F!Calendar(1, t, s) \in Nat /\ F!Calendar(2, t, s) \in Nat
      /\ F!Calendar(1, u, s) <= F!Calendar(2, u, s) /\ F!Calendar(1, u, s) \in Nat /\ F!Calendar(2, u, s) \in Nat
  <2> DEFINE m == F!Streams(t, s)
             n == F!Streams(u, s)
  <2>1. m \in Nat /\ n \in Nat /\ m <= m /\ n <= n
    BY <1>7
  <2> HIDE DEF m, n
  <2>2. CalendarOf(c1, w1, m) <= CalendarOf(c2, w2, m) /\ CalendarOf(c1, w1, m) \in Nat /\ CalendarOf(c2, w2, m) \in Nat
    BY <1>4, <1>5, <2>1, CalendarMoves
  <2>3. CalendarOf(c1, w1, n) <= CalendarOf(c2, w2, n) /\ CalendarOf(c1, w1, n) \in Nat /\ CalendarOf(c2, w2, n) \in Nat
    BY <1>4, <1>5, <2>1, CalendarMoves
  <2> QED
    BY <1>6, <2>2, <2>3 DEF m, n
<1>9. F!Calendar(2, t, F!WhatIfStreams(t, s)) = F!Calendar(2, t, s)
  BY <1>2, <1>6, WhatIfIsSame
<1>10. ASSUME t <= u
       PROVE  F!Calendar(1, u, s) <= F!Calendar(1, t, s) /\ F!Calendar(2, u, s) <= F!Calendar(2, t, s)
  <2>1. F!Streams(t, s) <= F!Streams(u, s)
    BY <1>2, <1>10, StreamsGrow
  <2> DEFINE m == F!Streams(t, s)
             n == F!Streams(u, s)
  <2>2. m \in Nat /\ n \in Nat /\ m <= n
    BY <1>7, <2>1
  <2> HIDE DEF m, n
  <2>3. c1 <= c1 /\ c2 <= c2 /\ w1 <= w1 /\ w2 <= w2
    BY <1>4, <1>5
  <2>4. CalendarOf(c1, w1, n) <= CalendarOf(c1, w1, m)
    BY <1>4, <1>5, <2>2, <2>3, CalendarMoves
  <2>5. CalendarOf(c2, w2, n) <= CalendarOf(c2, w2, m)
    BY <1>4, <1>5, <2>2, <2>3, CalendarMoves
  <2> QED
    BY <1>6, <2>4, <2>5 DEF m, n
<1>11. ASSUME t <= u, NEW d \in Days PROVE F!Risk(d, u, s) <= F!Risk(d, t, s)
  <2> DEFINE p(k, n) == F!InDays(F!Calendar(k, n, s))
  <2>1. \A n : F!Risk(d, n, s) = Level(d, p(1, n), p(2, n))
    BY DEF F!Risk, Level
  <2>2. \A a, b \in Nat : a <= b => F!InDays(a) <= F!InDays(b) /\ F!InDays(a) \in Nat /\ F!InDays(b) \in Nat
    <3>1. 8 \in Nat \ {0}
      OBVIOUS
    <3> QED
      BY <3>1, RoundedGrows DEF F!InDays
  <2>3. /\ p(1, u) <= p(1, t) /\ p(2, u) <= p(2, t) /\ p(1, u) <= p(2, u) /\ p(1, t) <= p(2, t)
        /\ p(1, u) \in Nat /\ p(2, u) \in Nat /\ p(1, t) \in Nat /\ p(2, t) \in Nat
    BY <1>8, <1>10, <1>11, <2>2
  <2>4. d \in Int
    BY DEF ScenariosAreGiven
  <2> HIDE DEF p
  <2>5. Level(d, p(1, u), p(2, u)) <= Level(d, p(1, t), p(2, t))
    BY <2>3, <2>4, LevelGrows
  <2> QED
    BY <2>1, <2>5
<1> QED
  BY <1>8, <1>9, <1>10, <1>11

(* However many tasks there are and however they depend on each other, a     *)
(* stored forecast has the hours and the path of the longest chain, a cycle   *)
(* is refused and nothing else is, scenarios do not contradict each other,    *)
(* and the estimates of a preview are settled together                       *)
(* (_topological_order, _critical_path and _aggregate_project in             *)
(* workload_planning.py).                                                    *)
THEOREM ForecastsAreExact ==
  TasksAreGiven /\ ScenariosAreGiven =>
    (F!SpecForecast => [](F!TypeOKForecast /\ F!CriticalPathExact /\ F!ScenariosConsistent /\ F!EstimatesSettledTogether))
<1> SUFFICES ASSUME TasksAreGiven, ScenariosAreGiven
    PROVE F!SpecForecast => [](F!TypeOKForecast /\ F!CriticalPathExact /\ F!ScenariosConsistent /\ F!EstimatesSettledTogether)
  OBVIOUS
<1>1. F!InitForecast => ForecastInv
  BY ForecastInit
<1>2. ForecastInv /\ [F!NextForecast]_(F!varsForecast) => ForecastInv'
  BY ForecastStep
<1>3. ForecastInv => F!TypeOKForecast /\ F!CriticalPathExact /\ F!ScenariosConsistent /\ F!EstimatesSettledTogether
  BY ForecastIsExact, ScenariosAgree
<1> QED
  BY <1>1, <1>2, <1>3, PTL DEF F!SpecForecast

-----------------------------------------------------------------------------
(* MemberForecast: the recommendations of members for any number of tasks.   *)
(* The loads are sums over the tasks a member carries, of which the section  *)
(* before has the lemmas.                                                    *)

CONSTANTS MTasks, People, Gone, NoMember, Hours, Fit, Urgent, Capacities, MaxChanges
VARIABLES owners, done, able, ask, todo, load, pick, room, base, stage, changes
M == INSTANCE MemberForecast WITH NTasks <- MTasks, Nobody <- NoMember

(* Members can be compared by name, hours are not negative (_context) and    *)
(* capacities positive (capacity_hours in member_assignment.py).             *)
MembersAreGiven ==
    /\ MTasks \in Nat
    /\ IsFiniteSet(People) /\ People \subseteq Int /\ NoMember \notin People
    /\ Hours \in [M!AllTasks -> Nat] /\ Fit \in [M!AllTasks -> [People -> Int]]
    /\ Capacities \subseteq Nat \ {0}

AnyRequest ==
    [sel : SUBSET M!AllTasks, keep : BOOLEAN, lock : [M!AllTasks -> People \cup {NoMember}],
     profiled : SUBSET People, cap : [People -> Nat]]
Positive(r) == \A u \in People : r.cap[u] \in Nat \ {0}
Picks == [M!AllTasks -> People \cup {NoMember}]

MemberTypes ==
    /\ owners \in [M!AllTasks -> SUBSET (People \cup {Gone})] /\ done \subseteq M!AllTasks /\ able \subseteq People
    /\ ask \in AnyRequest /\ pick \in Picks
    /\ todo \subseteq M!AllTasks
    /\ load \in [People -> Nat] /\ room \in [M!AllTasks -> [People -> Nat]]
    /\ base.ask \in AnyRequest /\ base.pick \in Picks
    /\ stage \in {"idle", "planning", "comparing", "stored"}

UnderWay == stage \in {"planning", "comparing"}

(* What is asked for can be planned, and what is left is not planned yet.    *)
RequestInv ==
    /\ stage \in {"comparing", "stored"} => Positive(base.ask)
    /\ UnderWay => /\ Positive(ask) /\ able # {}
                   /\ \A t \in M!AllTasks : ask.lock[t] # NoMember => ask.lock[t] \in able
                   /\ todo \subseteq ask.sel
                   /\ \A t \in todo : pick[t] = NoMember

(* The load is that of the tasks a member would have. *)
HoursSum == CHOOSE f : Sums(f, Hours, M!AllTasks)
Carried(u) == {t \in M!AllTasks \ done : u \in M!After(t)}
LoadInv == UnderWay => \A u \in able : load[u] = HoursSum[Carried(u)]

ChoicesInv ==
    UnderWay => \A t \in ask.sel \ todo :
        /\ ask.keep /\ owners[t] # {} => pick[t] = NoMember
        /\ t \in done => pick[t] = NoMember
        /\ (ask.lock[t] # NoMember /\ pick[t] # NoMember) => pick[t] = ask.lock[t]

LighterInv ==
    UnderWay => \A t \in ask.sel \ todo : \A w \in able :
        (/\ pick[t] # NoMember /\ ask.lock[t] = NoMember
         /\ Fit[t][w] = Fit[t][pick[t]] /\ ask.cap[w] = ask.cap[pick[t]])
            => room[t][pick[t]] <= room[t][w]

MembersInv == MemberTypes /\ RequestInv /\ LoadInv /\ ChoicesInv /\ LighterInv

(* The hours of some tasks *)
LEMMA HoursAreSums ==
  ASSUME MembersAreGiven
  PROVE  /\ Sums(HoursSum, Hours, M!AllTasks) /\ IsFiniteSet(M!AllTasks)
         /\ \A T \in SUBSET M!AllTasks : HoursSum[T] \in Nat
         /\ \A T \in SUBSET M!AllTasks : \A x \in M!AllTasks \ T : HoursSum[T \cup {x}] = HoursSum[T] + Hours[x]
<1> DEFINE S == M!AllTasks
           f == HoursSum
<1>1. IsFiniteSet(S)
  BY FS_Interval DEF M!AllTasks, MembersAreGiven
<1>2. Hours \in [S -> Nat] /\ Hours \in [S -> Int]
  BY DEF MembersAreGiven
<1>3. Sums(f, Hours, S)
  <2> HIDE DEF S
  <2>1. \E g : Sums(g, Hours, S)
    BY <1>1, SumsExist
  <2> QED
    BY <2>1 DEF HoursSum, S
<1> HIDE DEF S, f
<1>4. f[{}] = 0
  BY <1>1, <1>2, <1>3, SumsAdd
<1>5. ASSUME NEW T \in SUBSET S, NEW x \in S \ T PROVE f[T \cup {x}] = f[T] + Hours[x]
  BY <1>1, <1>2, <1>3, SumsAdd
<1> DEFINE B == {T \in SUBSET S : f[T] \notin Nat}
<1>6. ASSUME B # {} PROVE FALSE
  <2>1. PICK T \in B : /\ IsFiniteSet(T) /\ Cardinality(T) \in Nat
                       /\ \A r \in B : Cardinality(T) <= Cardinality(r)
    BY <1>1, <1>6, SmallestSet
  <2>0. T \in SUBSET S /\ f[T] \notin Nat
    BY <2>1
  <2>2. PICK x \in T : TRUE
    <3>1. T # {}
      BY <1>4, <2>0
    <3> QED
      BY <3>1
  <2>3. T \ {x} \in SUBSET S /\ x \in S \ (T \ {x}) /\ (T \ {x}) \cup {x} = T
    BY <2>1, <2>2
  <2>4. Cardinality(T \ {x}) = Cardinality(T) - 1
    BY <2>1, <2>2, FS_RemoveElement
  <2>5. T \ {x} \notin B
    BY <2>1, <2>4
  <2>6. f[T \ {x}] \in Nat /\ Hours[x] \in Nat
    BY <1>2, <2>3, <2>5
  <2>7. f[(T \ {x}) \cup {x}] = f[T \ {x}] + Hours[x]
    BY <1>5, <2>3
  <2>8. f[T] = f[T \ {x}] + Hours[x]
    BY <2>3, <2>7
  <2>9. f[T] \in Nat
    BY <2>6, <2>8
  <2> QED
    BY <2>0, <2>9
<1> QED
  BY <1>1, <1>3, <1>5, <1>6 DEF S, f

LEMMA HoursOfIsSum ==
  ASSUME MembersAreGiven, NEW g, NEW u
  PROVE  M!HoursOf(g, u) = HoursSum[{t \in M!AllTasks \ done : u \in g[t]}]
<1> DEFINE S == {t \in M!AllTasks \ done : u \in g[t]}
           Body(f) == [r \in SUBSET S |-> IF r = {} THEN 0 ELSE Hours[First(r)] + f[r \ {First(r)}]]
           iter == CHOOSE f : f = Body(f)
<1>1. M!HoursOf(g, u) = iter[S]
  BY DEF M!HoursOf, M!MapThenSumSet, M!MapThenFoldSet, First
<1>2. S \in SUBSET M!AllTasks
  OBVIOUS
<1> HIDE DEF S
<1>3. \A f : f = Body(f) <=> Sums(f, Hours, S)
  BY DEF Sums
<1>4. IsFiniteSet(S)
  BY <1>2, HoursAreSums, FS_Subset
<1>5. iter = Body(iter)
  <2> HIDE DEF Body
  <2> QED
    BY <1>3, <1>4, SumsExist
<1>6. Sums(iter, Hours, S)
  <2> HIDE DEF iter, Body
  <2> QED
    BY <1>3, <1>5
<1>7. Sums(HoursSum, Hours, M!AllTasks)
  BY HoursAreSums
<1> HIDE DEF iter
<1>8. iter[S] = HoursSum[S]
  BY <1>2, <1>4, <1>6, <1>7, SumsAgree
<1> QED
  BY <1>1, <1>8 DEF S

LEMMA MembersInit == MembersAreGiven /\ M!InitMembers => MembersInv
<1> SUFFICES ASSUME MembersAreGiven, M!InitMembers PROVE MembersInv
  OBVIOUS
<1> USE DEF M!InitMembers
<1>1. ask \in AnyRequest
  BY DEF M!NoRequest, AnyRequest
<1>2. MemberTypes
  BY <1>1 DEF MemberTypes, Picks
<1> QED
  BY <1>2 DEF MembersInv, RequestInv, LoadInv, ChoicesInv, LighterInv, UnderWay

(* A request that can be planned is taken. *)
LEMMA StartStep ==
  ASSUME MembersAreGiven, MembersInv, NEW r \in AnyRequest, Positive(r), M!StartPlanning(r),
         stage' \in {"planning", "comparing"}, stage' = "comparing" => stage = "stored", UNCHANGED base
  PROVE  MembersInv'
<1>1. /\ ask' = r /\ todo' = r.sel /\ load' = M!CurrentLoad /\ pick' = [t \in M!AllTasks |-> NoMember]
      /\ UNCHANGED <<owners, done, able, room, changes>> /\ able # {}
      /\ \A t \in M!AllTasks : r.lock[t] # NoMember => t \in r.sel /\ r.lock[t] \in able
  BY DEF M!StartPlanning, M!Acceptable
<1>2. MemberTypes /\ RequestInv
  BY DEF MembersInv
<1>3. \A u \in able : load'[u] = HoursSum[{t \in M!AllTasks \ done : u \in owners[t]}] /\ u \in People
  BY <1>1, <1>2, HoursOfIsSum DEF M!CurrentLoad, MemberTypes
<1>4. load' \in [People -> Nat]
  <2>1. \A u \in People : (IF u \in able THEN M!HoursOf(owners, u) ELSE 0) \in Nat
    <3>1. \A u : {t \in M!AllTasks \ done : u \in owners[t]} \in SUBSET M!AllTasks
      OBVIOUS
    <3>2. ASSUME NEW u PROVE M!HoursOf(owners, u) \in Nat
      <4>1. M!HoursOf(owners, u) = HoursSum[{t \in M!AllTasks \ done : u \in owners[t]}]
        BY HoursOfIsSum
      <4>2. \A T \in SUBSET M!AllTasks : HoursSum[T] \in Nat
        BY HoursAreSums
      <4> QED
        BY <3>1, <4>1, <4>2
    <3> QED
      BY <3>2
  <2> QED
    BY <1>1, <2>1 DEF M!CurrentLoad
<1>5. r.sel \subseteq M!AllTasks /\ pick' \in Picks
  BY <1>1 DEF AnyRequest, Picks
<1>6. MemberTypes'
  BY <1>1, <1>2, <1>4, <1>5 DEF MemberTypes, AnyRequest, Picks, M!AllTasks
<1>7. RequestInv'
  BY <1>1, <1>2, <1>5 DEF RequestInv, UnderWay, Positive, M!AllTasks
<1>8. LoadInv'
  <2>1. \A u : Carried(u)' = {t \in M!AllTasks \ done : u \in owners[t]}
    BY <1>1 DEF Carried, M!After, M!AllTasks
  <2>2. HoursSum' = HoursSum
    BY DEF HoursSum, Sums, M!AllTasks, First
  <2> QED
    BY <1>1, <1>3, <2>1, <2>2 DEF LoadInv, UnderWay
<1>9. ChoicesInv' /\ LighterInv'
  BY <1>1 DEF ChoicesInv, LighterInv, UnderWay
<1> QED
  BY <1>6, <1>7, <1>8, <1>9 DEF MembersInv

LEMMA PreviewStep ==
  ASSUME MembersAreGiven, MembersInv, NEW r \in M!Requests, M!Preview(r)
  PROVE  MembersInv'
<1>1. r \in AnyRequest /\ Positive(r)
  <2>1. PICK s \in SUBSET M!AllTasks, k \in BOOLEAN, x \in {1}, w \in People \cup {NoMember},
             p \in {{}, {M!Min(People)}}, c \in Capacities :
          r = [sel |-> s, keep |-> k, lock |-> [t \in M!AllTasks |-> IF t = x THEN w ELSE NoMember],
               profiled |-> p, cap |-> [u \in People |-> c]]
    BY DEF M!Requests
  <2>2. p \subseteq People
    <3>1. p \subseteq able
      BY <2>1 DEF M!Preview, M!StartPlanning, M!Acceptable
    <3> QED
      BY <3>1 DEF MembersInv, MemberTypes
  <2>3. c \in Nat \ {0}
    BY DEF MembersAreGiven
  <2> QED
    BY <2>1, <2>2, <2>3 DEF AnyRequest, Positive
<1> QED
  BY <1>1, StartStep DEF M!Preview

LEMMA WhatIfStep ==
  ASSUME MembersAreGiven, MembersInv, NEW u \in People, NEW c \in Capacities, M!WhatIf(u, c)
  PROVE  MembersInv'
<1> DEFINE r == [base.ask EXCEPT !.cap[u] = c]
<1>1. base.ask \in AnyRequest /\ Positive(base.ask) /\ c \in Nat \ {0}
  BY DEF MembersInv, MemberTypes, RequestInv, M!WhatIf, MembersAreGiven
<1>2. r \in AnyRequest /\ Positive(r)
  BY <1>1 DEF AnyRequest, Positive
<1> QED
  BY <1>2, StartStep DEF M!WhatIf

LEMMA GreaterOfMembers ==
  ASSUME NEW a \in Int, NEW b \in Int
  PROVE  M!Max({a, b}) = IF a >= b THEN a ELSE b
BY GreaterOfTwo DEF M!Max, F!Max

LEMMA LesserOfMembers ==
  ASSUME NEW a \in Int, NEW b \in Int
  PROVE  M!Min({a, b}) = IF a <= b THEN a ELSE b
BY LeastOfTwo DEF M!Min, F!Min

LEMMA QuotientsGrow ==
  ASSUME NEW m \in Int, NEW n \in Int, NEW d \in Nat \ {0}, m <= n
  PROVE  m \div d \in Int /\ n \div d \in Int /\ m \div d <= n \div d
<1> DEFINE p == m \div d
           q == n \div d
<1>1. p \in Int /\ d * p <= m /\ m < d * p + d
  OBVIOUS
<1>2. q \in Int /\ d * q <= n /\ n < d * q + d
  OBVIOUS
<1> HIDE DEF p, q
<1>3. ASSUME q + 1 <= p PROVE FALSE
  <2>1. PICK x \in Nat : p = (q + 1) + x
    <3>1. p - (q + 1) \in Nat /\ p = (q + 1) + (p - (q + 1))
      BY <1>1, <1>2, <1>3
    <3> QED
      BY <3>1
  <2>2. d * ((q + 1) + x) = d * q + d + d * x /\ d * x \in Nat /\ d * q \in Int
    BY <1>2
  <2>3. d * p = d * q + d + d * x
    BY <2>1, <2>2
  <2> QED
    BY <1>1, <1>2, <2>2, <2>3
<1>4. p <= q
  BY <1>1, <1>2, <1>3
<1> QED
  BY <1>1, <1>2, <1>4 DEF p, q

(* The score of a member, by what it depends on, falls with the load. *)
Headroom(c, x) == M!Max({0, (280 * (c - x)) \div c})
Excess(c, h, x) ==
    LET over == x + h - c IN IF over > 0 THEN M!Min({350, 150 + (200 * over) \div c}) ELSE 0
Rush(urgent, c, x) == IF urgent /\ 10 * x >= 8 * c THEN 80 ELSE 0
ScoreOf(fit, c, h, x, urgent) ==
    LET s == fit + Headroom(c, x) - Excess(c, h, x) - Rush(urgent, c, x) IN M!Max({0, M!Min({s, 1000})})

LEMMA HeadroomFalls ==
  ASSUME NEW c \in Nat \ {0}, NEW x \in Nat, NEW y \in Nat, y <= x
  PROVE  Headroom(c, x) \in Int /\ Headroom(c, y) \in Int /\ Headroom(c, x) <= Headroom(c, y)
<1> DEFINE p == (280 * (c - x)) \div c
           q == (280 * (c - y)) \div c
<1>1. p \in Int /\ q \in Int /\ p <= q
  <2>1. 280 * (c - x) \in Int /\ 280 * (c - y) \in Int /\ 280 * (c - x) <= 280 * (c - y)
    OBVIOUS
  <2> QED
    BY <2>1, QuotientsGrow
<1> HIDE DEF p, q
<1>2. M!Max({0, p}) = (IF 0 >= p THEN 0 ELSE p) /\ M!Max({0, q}) = IF 0 >= q THEN 0 ELSE q
  BY <1>1, GreaterOfMembers
<1>3. Headroom(c, x) = (IF 0 >= p THEN 0 ELSE p) /\ Headroom(c, y) = IF 0 >= q THEN 0 ELSE q
  BY <1>2 DEF Headroom, p, q
<1> QED
  BY <1>1, <1>3

LEMMA ExcessGrows ==
  ASSUME NEW c \in Nat \ {0}, NEW h \in Nat, NEW x \in Nat, NEW y \in Nat, y <= x
  PROVE  Excess(c, h, x) \in Int /\ Excess(c, h, y) \in Int /\ Excess(c, h, y) <= Excess(c, h, x)
<1> DEFINE v == x + h - c
           w == y + h - c
           p == (200 * v) \div c
           q == (200 * w) \div c
<1>1. v \in Int /\ w \in Int /\ w <= v
  OBVIOUS
<1> HIDE DEF v, w
<1>2. p \in Int /\ q \in Int /\ q <= p
  <2>1. 200 * v \in Int /\ 200 * w \in Int /\ 200 * w <= 200 * v
    BY <1>1
  <2> QED
    BY <2>1, QuotientsGrow
<1>3. w > 0 => q >= 0
  <2>1. ASSUME w > 0 PROVE q >= 0
    <3>1. 0 \in Int /\ 200 * w \in Int /\ 0 <= 200 * w
      BY <1>1, <2>1
    <3>2. 0 \div c = 0
      OBVIOUS
    <3>3. 0 \div c <= (200 * w) \div c
      BY <3>1, QuotientsGrow
    <3> QED
      BY <3>2, <3>3, <1>2
  <2> QED
    BY <2>1
<1>4. v > 0 => p >= 0
  <2>1. ASSUME v > 0 PROVE p >= 0
    <3>1. 0 \in Int /\ 200 * v \in Int /\ 0 <= 200 * v
      BY <1>1, <2>1
    <3>2. 0 \div c = 0
      OBVIOUS
    <3>3. 0 \div c <= (200 * v) \div c
      BY <3>1, QuotientsGrow
    <3> QED
      BY <3>2, <3>3, <1>2
  <2> QED
    BY <2>1
<1> HIDE DEF p, q
<1>5. /\ M!Min({350, 150 + p}) = IF 350 <= 150 + p THEN 350 ELSE 150 + p
      /\ M!Min({350, 150 + q}) = IF 350 <= 150 + q THEN 350 ELSE 150 + q
  <2>1. 150 + p \in Int /\ 150 + q \in Int
    BY <1>2
  <2> QED
    BY <2>1, LesserOfMembers
<1>6. /\ Excess(c, h, x) = IF v > 0 THEN M!Min({350, 150 + p}) ELSE 0
      /\ Excess(c, h, y) = IF w > 0 THEN M!Min({350, 150 + q}) ELSE 0
  BY DEF Excess, v, w, p, q
<1> QED
  BY <1>1, <1>2, <1>3, <1>4, <1>5, <1>6

LEMMA ScoreFalls ==
  ASSUME NEW fit \in Int, NEW c \in Nat \ {0}, NEW h \in Nat, NEW x \in Nat, NEW y \in Nat, y <= x, NEW b \in BOOLEAN
  PROVE  /\ ScoreOf(fit, c, h, x, b) \in Int /\ ScoreOf(fit, c, h, y, b) \in Int
         /\ ScoreOf(fit, c, h, x, b) <= ScoreOf(fit, c, h, y, b)
<1> DEFINE s == fit + Headroom(c, x) - Excess(c, h, x) - Rush(b, c, x)
           r == fit + Headroom(c, y) - Excess(c, h, y) - Rush(b, c, y)
<1>1. Rush(b, c, x) \in Int /\ Rush(b, c, y) \in Int /\ Rush(b, c, y) <= Rush(b, c, x)
  BY DEF Rush
<1>2. s \in Int /\ r \in Int /\ s <= r
  BY <1>1, HeadroomFalls, ExcessGrows
<1> HIDE DEF s, r
<1>3. \A i \in Int : M!Max({0, M!Min({i, 1000})}) = IF i <= 0 THEN 0 ELSE IF i <= 1000 THEN i ELSE 1000
  <2> TAKE i \in Int
  <2>1. M!Min({i, 1000}) = IF i <= 1000 THEN i ELSE 1000
    BY LesserOfMembers
  <2>2. M!Min({i, 1000}) \in Int
    BY <2>1
  <2>3. M!Max({0, M!Min({i, 1000})}) = IF 0 >= M!Min({i, 1000}) THEN 0 ELSE M!Min({i, 1000})
    BY <2>2, GreaterOfMembers
  <2> QED
    BY <2>1, <2>3
<1>4. ScoreOf(fit, c, h, x, b) = M!Max({0, M!Min({s, 1000})}) /\ ScoreOf(fit, c, h, y, b) = M!Max({0, M!Min({r, 1000})})
  BY DEF ScoreOf, s, r
<1> QED
  BY <1>2, <1>3, <1>4

(* To be better than another is a strict order on all members. *)
Beats(s, a, c, u, w) ==
    \/ s[u] > s[w]
    \/ /\ s[u] = s[w]
       /\ a[u] * c[w] < a[w] * c[u] \/ (a[u] * c[w] = a[w] * c[u] /\ u < w)

LEMMA SharesOrdered ==
  ASSUME NEW a \in Nat, NEW b \in Nat, NEW e \in Nat, NEW p \in Nat \ {0}, NEW q \in Nat \ {0}, NEW r \in Nat \ {0},
         a * q <= b * p, b * r <= e * q
  PROVE  /\ a * r <= e * p
         /\ a * r = e * p => a * q = b * p /\ b * r = e * q
<1>1. (a * q) * r <= (b * p) * r /\ (b * r) * p <= (e * q) * p
  <2>1. a * q \in Nat /\ b * p \in Nat /\ b * r \in Nat /\ e * q \in Nat
    OBVIOUS
  <2> QED
    BY <2>1, ProductsGrow
<1>2. (a * q) * r = (a * r) * q /\ (b * p) * r = (b * r) * p /\ (e * q) * p = (e * p) * q
  OBVIOUS
<1>3. (a * r) * q <= (e * p) * q
  BY <1>1, <1>2
<1>4. \A x, y \in Nat : x * q <= y * q => x <= y
  <2> SUFFICES ASSUME NEW x \in Nat, NEW y \in Nat, x * q <= y * q, y + 1 <= x PROVE FALSE
    OBVIOUS
  <2>1. (y + 1) * q <= x * q
    BY ProductsGrow
  <2>2. (y + 1) * q = y * q + q /\ y * q \in Nat /\ x * q \in Nat
    OBVIOUS
  <2> QED
    BY <2>1, <2>2
<1>5. a * r \in Nat /\ e * p \in Nat
  OBVIOUS
<1>6. a * r <= e * p
  BY <1>3, <1>4, <1>5
<1>7. ASSUME a * r = e * p PROVE a * q = b * p /\ b * r = e * q
  <2>1. (a * q) * r = (b * p) * r /\ (b * r) * p = (e * q) * p
    BY <1>1, <1>2, <1>7
  <2>2. \A x, y, z \in Nat : z # 0 /\ x * z = y * z => x = y
    <3> SUFFICES ASSUME NEW x \in Nat, NEW y \in Nat, NEW z \in Nat, z # 0, x * z = y * z, x < y \/ y < x PROVE FALSE
      OBVIOUS
    <3>1. \A m, n \in Nat : m + 1 <= n => m * z + z <= n * z /\ m * z \in Nat /\ n * z \in Nat
      <4> TAKE m, n \in Nat
      <4>1. (m + 1) * z = m * z + z
        OBVIOUS
      <4> QED
        BY <4>1, ProductsGrow
    <3> QED
      BY <3>1
  <2>3. a * q \in Nat /\ b * p \in Nat /\ b * r \in Nat /\ e * q \in Nat
    OBVIOUS
  <2> QED
    BY <2>1, <2>2, <2>3
<1> QED
  BY <1>6, <1>7

LEMMA BeatsOrders ==
  ASSUME NEW S \in SUBSET Int, NEW s \in [S -> Int], NEW a \in [S -> Nat], NEW c \in [S -> Nat \ {0}]
  PROVE  /\ \A u, v, w \in S : Beats(s, a, c, u, v) /\ Beats(s, a, c, v, w) => Beats(s, a, c, u, w)
         /\ \A u, v \in S : u = v \/ Beats(s, a, c, u, v) \/ Beats(s, a, c, v, u)
<1>1. ASSUME NEW u \in S, NEW v \in S, NEW w \in S, Beats(s, a, c, u, v), Beats(s, a, c, v, w)
      PROVE  Beats(s, a, c, u, w)
  <2>1. s[u] \in Int /\ s[v] \in Int /\ s[w] \in Int /\ s[u] >= s[v] /\ s[v] >= s[w]
    BY <1>1 DEF Beats
  <2>2. CASE s[u] > s[w]
    BY <2>2 DEF Beats
  <2>3. CASE ~ (s[u] > s[w])
    <3>1. s[u] = s[v] /\ s[v] = s[w]
      BY <2>1, <2>3
    <3> DEFINE x == a[u] * c[v]
               y == a[v] * c[u]
               z == a[v] * c[w]
               t == a[w] * c[v]
               m == a[u] * c[w]
               n == a[w] * c[u]
    <3>2. x \in Nat /\ y \in Nat /\ z \in Nat /\ t \in Nat /\ m \in Nat /\ n \in Nat
      OBVIOUS
    <3>3. (x < y \/ (x = y /\ u < v)) /\ (z < t \/ (z = t /\ v < w))
      <4>1. ~ (s[u] > s[v]) /\ ~ (s[v] > s[w])
        BY <2>1, <3>1
      <4> QED
        BY <1>1, <4>1 DEF Beats
    <3>4. m <= n /\ (m = n => x = y /\ z = t)
      <4>1. x <= y /\ z <= t
        BY <3>2, <3>3
      <4>2. a[u] \in Nat /\ a[v] \in Nat /\ a[w] \in Nat /\ c[u] \in Nat \ {0} /\ c[v] \in Nat \ {0} /\ c[w] \in Nat \ {0}
        OBVIOUS
      <4> QED
        BY <4>1, <4>2, SharesOrdered
    <3> HIDE DEF x, y, z, t, m, n
    <3>5. m < n \/ (m = n /\ u < w)
      <4>1. u \in Int /\ v \in Int /\ w \in Int
        OBVIOUS
      <4> QED
        BY <3>2, <3>3, <3>4, <4>1
    <3> QED
      BY <3>1, <3>5 DEF Beats, m, n
  <2> QED
    BY <2>2, <2>3
<1>2. ASSUME NEW u \in S, NEW v \in S PROVE u = v \/ Beats(s, a, c, u, v) \/ Beats(s, a, c, v, u)
  <2> DEFINE x == a[u] * c[v]
             y == a[v] * c[u]
  <2>1. x \in Nat /\ y \in Nat /\ s[u] \in Int /\ s[v] \in Int /\ u \in Int /\ v \in Int
    OBVIOUS
  <2> HIDE DEF x, y
  <2>2. \/ u = v \/ s[u] > s[v] \/ s[v] > s[u]
        \/ s[u] = s[v] /\ (x < y \/ y < x \/ (x = y /\ (u < v \/ v < u)))
    BY <2>1
  <2> QED
    BY <2>2 DEF Beats, x, y
<1> QED
  BY <1>1, <1>2

(* Of some members one beats all others. *)
LEMMA OneBeatsAll ==
  ASSUME NEW S \in SUBSET Int, IsFiniteSet(S), S # {}, NEW s \in [S -> Int], NEW a \in [S -> Nat], NEW c \in [S -> Nat \ {0}]
  PROVE  \E u \in S : \A w \in S \ {u} : Beats(s, a, c, u, w)
<1> DEFINE Top(T) == \E u \in T : \A w \in T \ {u} : Beats(s, a, c, u, w)
           B == {T \in SUBSET S : T # {} /\ ~ Top(T)}
<1>1. ASSUME B # {} PROVE FALSE
  <2>1. PICK T \in B : /\ IsFiniteSet(T) /\ Cardinality(T) \in Nat
                       /\ \A r \in B : Cardinality(T) <= Cardinality(r)
    BY <1>1, SmallestSet
  <2>2. T \in SUBSET S /\ T # {} /\ ~ Top(T)
    BY <2>1
  <2>3. PICK x \in T : TRUE
    BY <2>2
  <2>4. Cardinality(T \ {x}) = Cardinality(T) - 1
    BY <2>1, <2>3, FS_RemoveElement
  <2>5. T \ {x} # {}
    <3>1. ASSUME T = {x} PROVE FALSE
      BY <2>2, <3>1
    <3> QED
      BY <2>3, <3>1
  <2>6. T \ {x} \notin B
    <3> HIDE DEF B
    <3> QED
      BY <2>1, <2>4
  <2>7. PICK y \in T \ {x} : \A w \in (T \ {x}) \ {y} : Beats(s, a, c, y, w)
    BY <2>2, <2>5, <2>6
  <2>8. CASE Beats(s, a, c, x, y)
    <3>1. \A w \in T \ {x} : Beats(s, a, c, x, w)
      BY <2>2, <2>3, <2>7, <2>8, BeatsOrders
    <3> QED
      BY <2>2, <2>3, <3>1
  <2>9. CASE Beats(s, a, c, y, x)
    <3>1. \A w \in T \ {y} : Beats(s, a, c, y, w)
      BY <2>7, <2>9
    <3> QED
      BY <2>2, <2>7, <3>1
  <2> QED
    BY <2>2, <2>3, <2>7, <2>8, <2>9, BeatsOrders
<1> QED
  BY <1>1

(* The task in hand, and what its owners give back. *)
LEMMA CurrentIsNext ==
  ASSUME MembersAreGiven, MembersInv, M!Planning
  PROVE  /\ M!Current \in todo /\ M!Current \in M!AllTasks /\ M!Current \in ask.sel /\ pick[M!Current] = NoMember
         /\ UnderWay
<1>1. todo \in SUBSET Nat /\ todo # {}
  BY DEF MembersInv, MemberTypes, M!AllTasks, M!Planning
<1>2. PICK n \in todo : \A m \in todo : n <= m
  BY <1>1, LeastNat
<1>3. M!Min(todo) = n
  <2>1. F!Min(todo) = n
    BY <1>1, <1>2, LeastOf
  <2> QED
    BY <2>1 DEF M!Min, F!Min
<1> QED
  BY <1>2, <1>3 DEF M!Current, M!Planning, UnderWay, MembersInv, MemberTypes, RequestInv

LEMMA GivenBack ==
  ASSUME MembersAreGiven, MembersInv, UnderWay, NEW t \in todo, t \notin done
  PROVE  /\ M!Released(t) \in [People -> Nat]
         /\ \A v \in able : /\ M!Released(t)[v] = HoursSum[Carried(v) \ {t}]
                            /\ Carried(v) \ {t} \in SUBSET (M!AllTasks \ {t})
<1> DEFINE l == M!Released(t)
<1>1. MemberTypes /\ RequestInv /\ LoadInv
  BY DEF MembersInv
<1>2. t \in M!AllTasks /\ pick[t] = NoMember /\ Hours[t] \in Nat /\ \A u \in People : load[u] \in Nat
  BY <1>1 DEF MemberTypes, RequestInv, MembersAreGiven
<1>3. ASSUME NEW u \in People
      PROVE  l[u] = IF u \in owners[t] \cap able THEN (IF 0 >= load[u] - Hours[t] THEN 0 ELSE load[u] - Hours[t]) ELSE load[u]
  <2>1. M!Max({0, load[u] - Hours[t]}) = IF 0 >= load[u] - Hours[t] THEN 0 ELSE load[u] - Hours[t]
    <3>1. 0 \in Int /\ load[u] - Hours[t] \in Int
      BY <1>2
    <3> QED
      BY <3>1, GreaterOfMembers
  <2> QED
    BY <2>1 DEF M!Released
<1>4. l \in [People -> Nat]
  <2>1. l = [u \in People |-> l[u]]
    BY DEF M!Released
  <2>2. \A u \in People : l[u] \in Nat
    BY <1>2, <1>3
  <2> HIDE DEF l
  <2> QED
    BY <2>1, <2>2
<1>5. ASSUME NEW v \in able PROVE l[v] = HoursSum[Carried(v) \ {t}] /\ Carried(v) \ {t} \in SUBSET (M!AllTasks \ {t})
  <2> DEFINE C == Carried(v)
             r == C \ {t}
  <2>1. v \in People /\ load[v] = HoursSum[C]
    BY <1>1 DEF MemberTypes, LoadInv
  <2>2. C \in SUBSET M!AllTasks /\ (t \in C <=> v \in owners[t])
    BY <1>2 DEF Carried, M!After
  <2> HIDE DEF C
  <2>3. r \in SUBSET M!AllTasks /\ r \in SUBSET (M!AllTasks \ {t}) /\ t \in M!AllTasks \ r /\ (t \in C => C = r \cup {t}) /\ (t \notin C => C = r)
    BY <1>2, <2>2
  <2> HIDE DEF r
  <2>4. HoursSum[r] \in Nat /\ HoursSum[r \cup {t}] = HoursSum[r] + Hours[t]
    BY <2>3, HoursAreSums
  <2>5. CASE t \in C
    <3>1. load[v] = HoursSum[r] + Hours[t] /\ v \in owners[t] \cap able
      BY <2>1, <2>2, <2>3, <2>4, <2>5
    <3>2. l[v] = IF 0 >= load[v] - Hours[t] THEN 0 ELSE load[v] - Hours[t]
      BY <1>3, <2>1, <3>1
    <3>3. l[v] = HoursSum[r]
      <4> HIDE DEF l
      <4> QED
        BY <1>2, <2>4, <3>1, <3>2
    <3> QED
      BY <2>3, <3>3 DEF r, C
  <2>6. CASE t \notin C
    <3>1. l[v] = HoursSum[r]
      BY <1>3, <2>1, <2>2, <2>3, <2>6
    <3> QED
      BY <2>3, <3>1 DEF r, C
  <2> QED
    BY <2>5, <2>6
<1> QED
  BY <1>4, <1>5

(* A task that is not done and not kept goes to a member that may have it. *)
LEMMA AssignStep ==
  ASSUME MembersAreGiven, MembersInv, M!Planning, NEW u \in able, M!Current \notin done, ~ M!Kept(M!Current),
         M!Assign(M!Current, u, M!Released(M!Current)), M!Continue,
         M!Locked(M!Current) # NoMember => u = M!Locked(M!Current),
         M!Locked(M!Current) = NoMember =>
            \A w \in able : (Fit[M!Current][w] = Fit[M!Current][u] /\ ask.cap[w] = ask.cap[u])
                               => M!Released(M!Current)[u] <= M!Released(M!Current)[w]
  PROVE  MembersInv'
<1> DEFINE t == M!Current
           l == M!Released(t)
<1>1. MemberTypes /\ RequestInv /\ LoadInv /\ ChoicesInv /\ LighterInv
  BY DEF MembersInv
<1>2. t \in todo /\ t \in M!AllTasks /\ t \in ask.sel /\ pick[t] = NoMember /\ UnderWay
  BY CurrentIsNext
<1>3. /\ load' = [l EXCEPT ![u] = @ + Hours[t]] /\ pick' = [pick EXCEPT ![t] = u] /\ room' = [room EXCEPT ![t] = l]
      /\ todo' = todo \ {t} /\ UNCHANGED <<owners, done, able, ask, base, stage, changes>>
  BY DEF M!Assign, M!Continue
<1>4. t \notin done /\ ~ M!Kept(t) /\ (M!Locked(t) # NoMember => u = M!Locked(t))
      /\ (M!Locked(t) = NoMember => \A w \in able : (Fit[t][w] = Fit[t][u] /\ ask.cap[w] = ask.cap[u]) => l[u] <= l[w])
  OBVIOUS
<1>5. l \in [People -> Nat] /\ \A v \in able : l[v] = HoursSum[Carried(v) \ {t}] /\ Carried(v) \ {t} \in SUBSET (M!AllTasks \ {t})
  BY <1>2, <1>4, GivenBack
<1> HIDE DEF t, l
<1>6. u \in People /\ Hours[t] \in Nat /\ u # NoMember
  BY <1>1, <1>2 DEF MemberTypes, MembersAreGiven
<1>7. MemberTypes'
  <2>1. load' \in [People -> Nat] /\ pick' \in Picks /\ room' \in [M!AllTasks -> [People -> Nat]]
    BY <1>1, <1>2, <1>3, <1>5, <1>6 DEF MemberTypes, Picks
  <2> QED
    BY <1>1, <1>3, <2>1 DEF MemberTypes, AnyRequest, Picks, M!AllTasks
<1>8. /\ \A x \in M!AllTasks : x # t => pick'[x] = pick[x] /\ room'[x] = room[x]
      /\ pick'[t] = u /\ room'[t] = l
  BY <1>1, <1>2, <1>3 DEF MemberTypes, Picks
<1>9. RequestInv'
  <2>1. \A x \in todo' : pick'[x] = NoMember
    BY <1>1, <1>2, <1>3, <1>8 DEF RequestInv, MemberTypes
  <2> QED
    BY <1>1, <1>2, <1>3, <2>1 DEF RequestInv, UnderWay, Positive, M!AllTasks
<1>10. LoadInv'
  <2>1. HoursSum' = HoursSum
    BY DEF HoursSum, Sums, M!AllTasks, First
  <2>2. ASSUME NEW v \in able PROVE load'[v] = HoursSum[Carried(v)']
    <3> DEFINE r == Carried(v) \ {t}
    <3>1. Carried(v)' = IF v = u THEN r \cup {t} ELSE r
      BY <1>2, <1>3, <1>4, <1>6, <1>8 DEF Carried, M!After, M!AllTasks
    <3>2. l[v] = HoursSum[r] /\ r \in SUBSET M!AllTasks /\ t \in M!AllTasks \ r
      BY <1>2, <1>5
    <3> HIDE DEF r
    <3>3. HoursSum[r \cup {t}] = HoursSum[r] + Hours[t]
      BY <3>2, HoursAreSums
    <3>4. load'[v] = IF v = u THEN l[v] + Hours[t] ELSE l[v]
      BY <1>1, <1>3, <1>5 DEF MemberTypes
    <3> QED
      BY <3>1, <3>2, <3>3, <3>4
  <2> QED
    BY <1>3, <2>1, <2>2 DEF LoadInv
<1>11. ChoicesInv'
  <2>1. ASSUME NEW x \in ask.sel \ todo'
        PROVE  /\ ask.keep /\ owners[x] # {} => pick'[x] = NoMember
               /\ x \in done => pick'[x] = NoMember
               /\ (ask.lock[x] # NoMember /\ pick'[x] # NoMember) => pick'[x] = ask.lock[x]
    <3>1. CASE x = t
      BY <1>4, <1>8, <3>1 DEF M!Kept, M!Locked
    <3>2. CASE x # t
      <4>1. x \in ask.sel \ todo /\ x \in M!AllTasks
        BY <1>1, <1>3, <2>1, <3>2 DEF MemberTypes, AnyRequest
      <4> QED
        BY <1>1, <1>2, <1>8, <3>2, <4>1 DEF ChoicesInv
    <3> QED
      BY <3>1, <3>2
  <2> QED
    BY <1>3, <2>1 DEF ChoicesInv
<1>12. LighterInv'
  <2>1. ASSUME NEW x \in ask.sel \ todo', NEW w \in able, pick'[x] # NoMember, ask.lock[x] = NoMember,
               Fit[x][w] = Fit[x][pick'[x]], ask.cap[w] = ask.cap[pick'[x]]
        PROVE  room'[x][pick'[x]] <= room'[x][w]
    <3>1. CASE x = t
      BY <1>4, <1>8, <2>1, <3>1 DEF M!Locked
    <3>2. CASE x # t
      <4>1. x \in ask.sel \ todo /\ x \in M!AllTasks
        BY <1>1, <1>3, <2>1, <3>2 DEF MemberTypes, AnyRequest
      <4> QED
        BY <1>1, <1>2, <1>8, <2>1, <3>2, <4>1 DEF LighterInv
    <3> QED
      BY <3>1, <3>2
  <2> QED
    BY <1>3, <2>1 DEF LighterInv
<1> QED
  BY <1>7, <1>9, <1>10, <1>11, <1>12 DEF MembersInv

LEMMA ApplyLockStep ==
  ASSUME MembersAreGiven, MembersInv, M!ApplyLock
  PROVE  MembersInv'
<1>1. M!Planning
  BY DEF M!ApplyLock, M!MayPlan
<1>2. M!Locked(M!Current) \in able
  BY <1>1, CurrentIsNext DEF M!ApplyLock, M!Locked, MembersInv, RequestInv
<1> QED
  BY <1>1, <1>2, AssignStep DEF M!ApplyLock

(* The member that is recommended: the first of the sorted scores. *)
LEMMA TopIsBest ==
  ASSUME MembersAreGiven, MembersInv, UnderWay, NEW t \in M!AllTasks, NEW l \in [People -> Nat]
  PROVE  LET top == CHOOSE u \in able : \A w \in able \ {u} : M!Better(t, l, u, w)
         IN  /\ top \in able
             /\ \A w \in able : (Fit[t][w] = Fit[t][top] /\ ask.cap[w] = ask.cap[top]) => l[top] <= l[w]
<1>1. /\ able \subseteq People /\ able # {} /\ ask \in AnyRequest /\ \A u \in People : ask.cap[u] \in Nat \ {0}
  BY DEF MembersInv, MemberTypes, RequestInv, Positive
<1>2. able \in SUBSET Int /\ IsFiniteSet(able) /\ Hours[t] \in Nat /\ \A u \in People : Fit[t][u] \in Int /\ l[u] \in Nat
  BY <1>1, FS_Subset DEF MembersAreGiven
<1>3. \A u \in able : M!Score(t, u, l) = ScoreOf(Fit[t][u], ask.cap[u], Hours[t], l[u], t \in Urgent)
  BY DEF M!Score, ScoreOf, Headroom, Excess, Rush
<1>4. \A u \in able : M!Score(t, u, l) \in Int
  <2> TAKE u \in able
  <2>1. Fit[t][u] \in Int /\ ask.cap[u] \in Nat \ {0} /\ l[u] \in Nat /\ l[u] <= l[u] /\ (t \in Urgent) \in BOOLEAN
    BY <1>1, <1>2
  <2>2. ScoreOf(Fit[t][u], ask.cap[u], Hours[t], l[u], t \in Urgent) \in Int
    BY <1>2, <2>1, ScoreFalls
  <2> QED
    BY <1>3, <2>2
<1> DEFINE s == [u \in able |-> M!Score(t, u, l)]
           a == [u \in able |-> l[u] + Hours[t]]
           c == [u \in able |-> ask.cap[u]]
<1>5. s \in [able -> Int] /\ a \in [able -> Nat] /\ c \in [able -> Nat \ {0}]
  BY <1>1, <1>2, <1>4
<1>6. \A u, w \in able : Beats(s, a, c, u, w) <=> M!Better(t, l, u, w)
  BY DEF Beats, M!Better
<1> HIDE DEF s, a, c
<1>7. \E u \in able : \A w \in able \ {u} : M!Better(t, l, u, w)
  <2>1. PICK u \in able : \A w \in able \ {u} : Beats(s, a, c, u, w)
    BY <1>1, <1>2, <1>5, OneBeatsAll
  <2> QED
    BY <1>6, <2>1
<1> DEFINE top == CHOOSE u \in able : \A w \in able \ {u} : M!Better(t, l, u, w)
<1>8. top \in able /\ \A w \in able \ {top} : M!Better(t, l, top, w)
  BY <1>7
<1> HIDE DEF top
<1>9. ASSUME NEW w \in able, Fit[t][w] = Fit[t][top], ask.cap[w] = ask.cap[top], ~ (l[top] <= l[w]) PROVE FALSE
  <2>1. w # top /\ l[w] <= l[top] /\ l[w] \in Nat /\ l[top] \in Nat /\ ask.cap[top] \in Nat \ {0} /\ Fit[t][top] \in Int
    BY <1>1, <1>2, <1>8, <1>9
  <2>2. M!Score(t, top, l) <= M!Score(t, w, l)
    <3>1. (t \in Urgent) \in BOOLEAN
      OBVIOUS
    <3>2. ScoreOf(Fit[t][top], ask.cap[top], Hours[t], l[top], t \in Urgent) <= ScoreOf(Fit[t][top], ask.cap[top], Hours[t], l[w], t \in Urgent)
      BY <1>2, <2>1, <3>1, ScoreFalls
    <3> QED
      BY <1>3, <1>8, <1>9, <3>2
  <2>3. M!Better(t, l, top, w)
    BY <1>8, <2>1
  <2> DEFINE k == ask.cap[top]
             x == (l[top] + Hours[t]) * k
             y == (l[w] + Hours[t]) * k
  <2>4. y + k <= x /\ y \in Nat /\ x \in Nat /\ k \in Nat /\ k # 0
    <3>1. (l[w] + Hours[t]) + 1 <= l[top] + Hours[t] /\ k \in Nat /\ k # 0 /\ (l[w] + Hours[t]) + 1 \in Nat /\ l[top] + Hours[t] \in Nat
      BY <1>2, <1>9, <2>1
    <3>2. ((l[w] + Hours[t]) + 1) * k <= x
      <4> HIDE DEF k
      <4> QED
        BY <3>1, ProductsGrow
    <3>3. ((l[w] + Hours[t]) + 1) * k = y + k /\ x \in Nat /\ y \in Nat
      <4>1. \A i, j \in Nat : (i + 1) * j = i * j + j /\ i * j \in Nat
        OBVIOUS
      <4>2. l[w] + Hours[t] \in Nat
        BY <1>2, <2>1
      <4> HIDE DEF k
      <4> QED
        BY <3>1, <4>1, <4>2
    <3> QED
      BY <3>1, <3>2, <3>3
  <2>5. x < y \/ x = y
    <3>1. ~ (M!Score(t, top, l) > M!Score(t, w, l))
      BY <1>4, <1>8, <2>2
    <3> QED
      BY <1>9, <2>3, <3>1 DEF M!Better
  <2> HIDE DEF x, y, k
  <2> QED
    BY <2>4, <2>5
<1> QED
  BY <1>8, <1>9 DEF top

LEMMA RecommendStep ==
  ASSUME MembersAreGiven, MembersInv, M!Recommend
  PROVE  MembersInv'
<1> DEFINE t == M!Current
           l == M!Released(t)
           top == CHOOSE u \in able : \A w \in able \ {u} : M!Better(t, l, u, w)
<1>1. /\ M!Planning /\ t \notin done /\ ~ M!Kept(t) /\ M!Locked(t) = NoMember
      /\ M!Assign(t, top, l) /\ M!Continue
  BY DEF M!Recommend, M!MayPlan
<1>2. t \in todo /\ t \in M!AllTasks /\ UnderWay
  BY <1>1, CurrentIsNext
<1>3. l \in [People -> Nat]
  BY <1>1, <1>2, GivenBack
<1>4. top \in able /\ \A w \in able : (Fit[t][w] = Fit[t][top] /\ ask.cap[w] = ask.cap[top]) => l[top] <= l[w]
  <2> HIDE DEF t, l
  <2> QED
    BY <1>2, <1>3, TopIsBest
<1> HIDE DEF top
<1> QED
  BY <1>1, <1>4, AssignStep

(* A task that is left as it is. *)
LEMMA LeftAsItIs ==
  ASSUME MembersAreGiven, MembersInv, M!Planning, M!Continue, UNCHANGED <<load, pick, room>>
  PROVE  MembersInv'
<1> DEFINE t == M!Current
<1>1. MemberTypes /\ RequestInv /\ LoadInv /\ ChoicesInv /\ LighterInv
  BY DEF MembersInv
<1>2. t \in todo /\ pick[t] = NoMember /\ UnderWay
  BY CurrentIsNext
<1>3. todo' = todo \ {t} /\ UNCHANGED <<owners, done, able, ask, base, stage, changes, load, pick, room>>
  BY DEF M!Continue
<1> HIDE DEF t
<1>4. MemberTypes'
  BY <1>1, <1>3 DEF MemberTypes, AnyRequest, Picks, M!AllTasks
<1>5. RequestInv'
  BY <1>1, <1>3 DEF RequestInv, UnderWay, Positive, M!AllTasks
<1>6. LoadInv'
  <2>1. HoursSum' = HoursSum /\ \A v : Carried(v)' = Carried(v)
    BY <1>3 DEF HoursSum, Sums, M!AllTasks, First, Carried, M!After
  <2> QED
    BY <1>1, <1>3, <2>1 DEF LoadInv, UnderWay
<1>7. \A x \in ask.sel \ todo' : x = t \/ x \in ask.sel \ todo
  BY <1>3
<1>8. ChoicesInv'
  BY <1>1, <1>2, <1>3, <1>7 DEF ChoicesInv, UnderWay
<1>9. LighterInv'
  BY <1>1, <1>2, <1>3, <1>7 DEF LighterInv, UnderWay
<1> QED
  BY <1>4, <1>5, <1>6, <1>8, <1>9 DEF MembersInv

LEMMA SettleStep ==
  ASSUME MembersAreGiven, MembersInv, NEW b, b.ask \in AnyRequest, b.pick \in Picks, M!Settle(b),
         stage' \in {"idle", "stored"}, stage' = "stored" => Positive(b.ask)
  PROVE  MembersInv'
<1>1. /\ base' = b /\ ask' = b.ask /\ pick' = b.pick /\ todo' = {} /\ load' = [u \in People |-> 0]
      /\ room' = [t \in M!AllTasks |-> [u \in People |-> 0]] /\ UNCHANGED <<owners, done, able, changes>>
  BY DEF M!Settle
<1>2. MemberTypes'
  BY <1>1 DEF MembersInv, MemberTypes, AnyRequest, Picks, M!AllTasks
<1> QED
  BY <1>1, <1>2 DEF MembersInv, RequestInv, LoadInv, ChoicesInv, LighterInv, UnderWay, Positive

LEMMA OthersStep ==
  ASSUME MembersAreGiven, MembersInv, NEW o \in [M!AllTasks -> SUBSET (People \cup {Gone})],
         NEW d \in SUBSET M!AllTasks, NEW a \in SUBSET People, M!Others(o, d, a)
  PROVE  MembersInv'
<1>1. /\ owners' = o /\ done' = d /\ able' = a /\ stage = "stored"
      /\ UNCHANGED <<ask, todo, load, pick, room, base, stage>>
  BY DEF M!Others
<1>2. MemberTypes'
  BY <1>1 DEF MembersInv, MemberTypes, AnyRequest, Picks, M!AllTasks
<1> QED
  BY <1>1, <1>2 DEF MembersInv, RequestInv, LoadInv, ChoicesInv, LighterInv, UnderWay, Positive

LEMMA MembersStep ==
  MembersAreGiven /\ MembersInv /\ [M!NextMembers]_(M!varsMembers) => MembersInv'
<1> SUFFICES ASSUME MembersAreGiven, MembersInv, [M!NextMembers]_(M!varsMembers) PROVE MembersInv'
  OBVIOUS
<1>0. MemberTypes /\ RequestInv
  BY DEF MembersInv
<1>1. CASE \E r \in M!Requests : M!Preview(r)
  BY <1>1, PreviewStep
<1>2. CASE \E u \in People, c \in Capacities : M!WhatIf(u, c)
  BY <1>2, WhatIfStep
<1>3. CASE M!Refuse
  <2>1. /\ stage = "planning" \/ stage = "comparing"
        /\ stage' = IF stage = "planning" THEN "idle" ELSE "stored"
        /\ M!Settle(base)
    BY <1>3 DEF M!Refuse, M!Planning
  <2>2. base.ask \in AnyRequest /\ base.pick \in Picks /\ (stage = "comparing" => Positive(base.ask))
    BY <1>0 DEF MemberTypes, RequestInv
  <2> QED
    BY <2>1, <2>2, SettleStep
<1>4. CASE M!SkipDone
  BY <1>4, LeftAsItIs DEF M!SkipDone, M!MayPlan
<1>5. CASE M!KeepAssignee
  BY <1>5, LeftAsItIs DEF M!KeepAssignee, M!MayPlan
<1>6. CASE M!ApplyLock
  BY <1>6, ApplyLockStep
<1>7. CASE M!Recommend
  BY <1>7, RecommendStep
<1>8. CASE M!Planned
  <2> DEFINE b == [ask |-> ask, pick |-> pick]
  <2>1. stage = "planning" /\ stage' = "stored" /\ M!Settle(b)
    BY <1>8 DEF M!Planned
  <2>2. b.ask \in AnyRequest /\ b.pick \in Picks /\ Positive(b.ask)
    BY <1>0, <2>1 DEF MemberTypes, RequestInv, UnderWay
  <2> HIDE DEF b
  <2> QED
    BY <2>1, <2>2, SettleStep
<1>9. CASE M!Compared
  <2>1. stage = "comparing" /\ stage' = "stored" /\ M!Settle(base)
    BY <1>9 DEF M!Compared
  <2>2. base.ask \in AnyRequest /\ base.pick \in Picks /\ Positive(base.ask)
    BY <1>0, <2>1 DEF MemberTypes, RequestInv
  <2> QED
    BY <2>1, <2>2, SettleStep
<1>10. CASE M!Reassigned
  <2>1. PICK t \in M!AllTasks, u \in People : M!Others([owners EXCEPT ![t] = {u}], done, able)
    BY <1>10 DEF M!Reassigned
  <2>2. [owners EXCEPT ![t] = {u}] \in [M!AllTasks -> SUBSET (People \cup {Gone})] /\ done \in SUBSET M!AllTasks /\ able \in SUBSET People
    BY <1>0 DEF MemberTypes
  <2> QED
    BY <2>1, <2>2, OthersStep
<1>11. CASE M!Finished
  <2>1. PICK t \in M!AllTasks : M!Others(owners, done \cup {t}, able)
    BY <1>11 DEF M!Finished
  <2>2. owners \in [M!AllTasks -> SUBSET (People \cup {Gone})] /\ done \cup {t} \in SUBSET M!AllTasks /\ able \in SUBSET People
    BY <1>0 DEF MemberTypes
  <2> QED
    BY <2>1, <2>2, OthersStep
<1>12. CASE M!Left
  <2>1. PICK u \in able : M!Others(owners, done, able \ {u})
    BY <1>12 DEF M!Left
  <2>2. owners \in [M!AllTasks -> SUBSET (People \cup {Gone})] /\ done \in SUBSET M!AllTasks /\ able \ {u} \in SUBSET People
    BY <1>0 DEF MemberTypes
  <2> QED
    BY <2>1, <2>2, OthersStep
<1>13. CASE UNCHANGED M!varsMembers
  <2>1. UNCHANGED <<owners, done, able, ask, todo, load, pick, room, base, stage, changes>>
    BY <1>13 DEF M!varsMembers
  <2>2. MemberTypes'
    BY <1>0, <2>1 DEF MemberTypes, AnyRequest, Picks, M!AllTasks
  <2>3. RequestInv'
    BY <1>0, <2>1 DEF RequestInv, UnderWay, Positive, M!AllTasks
  <2>4. LoadInv'
    <3>1. HoursSum' = HoursSum /\ \A v : Carried(v)' = Carried(v)
      BY <2>1 DEF HoursSum, Sums, M!AllTasks, First, Carried, M!After
    <3> QED
      BY <2>1, <3>1 DEF MembersInv, LoadInv, UnderWay
  <2>5. ChoicesInv' /\ LighterInv'
    BY <2>1 DEF MembersInv, ChoicesInv, LighterInv, UnderWay
  <2> QED
    BY <2>2, <2>3, <2>4, <2>5 DEF MembersInv
<1> QED
  BY <1>1, <1>2, <1>3, <1>4, <1>5, <1>6, <1>7, <1>8, <1>9, <1>10, <1>11, <1>12, <1>13 DEF M!NextMembers

LEMMA MembersAreRight ==
  ASSUME MembersAreGiven, MembersInv
  PROVE  M!TypeOKMembers /\ M!LoadsAddUp /\ M!ManualChoicesKept /\ M!LighterFirst
<1>1. MemberTypes /\ RequestInv /\ LoadInv /\ ChoicesInv /\ LighterInv
  BY DEF MembersInv
<1>2. M!TypeOKMembers
  BY <1>1 DEF MemberTypes, Picks, M!TypeOKMembers
<1>3. M!LoadsAddUp
  <2> SUFFICES ASSUME stage \in {"planning", "comparing"}, NEW u \in able
               PROVE  load[u] = M!HoursOf([t \in M!AllTasks |-> M!After(t)], u)
    BY DEF M!LoadsAddUp
  <2> DEFINE g == [t \in M!AllTasks |-> M!After(t)]
  <2>1. M!HoursOf(g, u) = HoursSum[{t \in M!AllTasks \ done : u \in g[t]}]
    BY HoursOfIsSum
  <2>2. {t \in M!AllTasks \ done : u \in g[t]} = Carried(u)
    BY DEF Carried
  <2> HIDE DEF g
  <2>3. load[u] = HoursSum[Carried(u)]
    BY <1>1 DEF LoadInv, UnderWay
  <2>4. load[u] = M!HoursOf(g, u)
    BY <2>1, <2>2, <2>3
  <2> QED
    BY <2>4 DEF g
<1>4. M!ManualChoicesKept
  BY <1>1 DEF ChoicesInv, UnderWay, M!ManualChoicesKept
<1>5. M!LighterFirst
  BY <1>1 DEF LighterInv, UnderWay, M!LighterFirst
<1> QED
  BY <1>2, <1>3, <1>4, <1>5

(* Whatever tasks, members, scores and capacities there are, the projected   *)
(* load of a member is what it carries once the recommendations are          *)
(* accepted, nobody is replaced who is to be kept, a done task goes to       *)
(* nobody, locks hold, and of two members that fit alike the one with less   *)
(* to do comes first, in a preview and in a what-if (_context and            *)
(* _recommend in member_assignment.py).                                      *)
THEOREM RecommendationsAreRight ==
  MembersAreGiven => (M!SpecMembers => [](M!TypeOKMembers /\ M!LoadsAddUp /\ M!ManualChoicesKept /\ M!LighterFirst))
<1> SUFFICES ASSUME MembersAreGiven
             PROVE  M!SpecMembers => [](M!TypeOKMembers /\ M!LoadsAddUp /\ M!ManualChoicesKept /\ M!LighterFirst)
  OBVIOUS
<1>1. M!InitMembers => MembersInv
  BY MembersInit
<1>2. MembersInv /\ [M!NextMembers]_(M!varsMembers) => MembersInv'
  BY MembersStep
<1>3. MembersInv => M!TypeOKMembers /\ M!LoadsAddUp /\ M!ManualChoicesKept /\ M!LighterFirst
  BY MembersAreRight
<1> QED
  BY <1>1, <1>2, <1>3, PTL DEF M!SpecMembers

-----------------------------------------------------------------------------
(* ProjectSteward: what its diagnoses conclude. Each recursive definition of *)
(* _topology and _critical_path is unrolled: it has a solution, which is     *)
(* then followed place by place.                                            *)

(* What holds of 0 and passes from each number to the next holds of all.     *)
LEMMA AllReached ==
  ASSUME NEW N \in Nat, NEW P, 0 \in P, \A n \in 1..N : n - 1 \in P => n \in P
  PROVE  0..N \subseteq P
<1> DEFINE B == {n \in 0..N : n \notin P}
<1>1. ASSUME B # {} PROVE FALSE
  <2>1. B \in SUBSET Nat
    OBVIOUS
  <2>2. PICK n \in B : \A m \in B : n <= m
    BY <1>1, <2>1, LeastNat
  <2>3. n \in 1..N /\ n - 1 \in 0..N
    BY <2>2
  <2>4. n - 1 \notin B
    BY <2>2, <2>3
  <2> QED
    BY <2>2, <2>3, <2>4
<1> QED
  BY <1>1

Solves(f, N, x, step) == f = [n \in 0..N |-> IF n = 0 THEN x ELSE step[<<n, f[n - 1]>>]]

(* A recursion on 0..N has a solution, within what its steps keep. *)
LEMMA RecursionSolved ==
  ASSUME NEW N \in Nat, NEW S, NEW x \in S, NEW step, \A n \in 1..N : \A y \in S : step[<<n, y>>] \in S
  PROVE  \E f : Solves(f, N, x, step) /\ \A n \in 0..N : f[n] \in S
<1> DEFINE Upto(k) == \E f : \A n \in 0..k : f[n] = (IF n = 0 THEN x ELSE step[<<n, f[n - 1]>>])
           P == {k \in 0..N : Upto(k)}
<1>1. Upto(0)
  <2>1. \A n \in 0..0 : [k \in {0} |-> x][n] = (IF n = 0 THEN x ELSE step[<<n, [k \in {0} |-> x][n - 1]>>])
    OBVIOUS
  <2> QED
    BY <2>1
<1>2. ASSUME NEW k \in 1..N, Upto(k - 1) PROVE Upto(k)
  <2>1. PICK f : \A n \in 0..(k - 1) : f[n] = (IF n = 0 THEN x ELSE step[<<n, f[n - 1]>>])
    BY <1>2
  <2> DEFINE g == [n \in 0..k |-> IF n = k THEN step[<<k, f[k - 1]>>] ELSE f[n]]
  <2>2. ASSUME NEW n \in 0..k PROVE g[n] = (IF n = 0 THEN x ELSE step[<<n, g[n - 1]>>])
    <3>1. CASE n = k
      BY <3>1
    <3>2. CASE n # k
      <4>1. n \in 0..(k - 1) /\ g[n] = f[n]
        BY <3>2
      <4>2. n # 0 => n - 1 \in 0..k /\ n - 1 # k
        BY <3>2
      <4>3. n # 0 => g[n - 1] = f[n - 1]
        BY <4>2
      <4> HIDE DEF g
      <4> QED
        BY <2>1, <4>1, <4>3
    <3> QED
      BY <3>1, <3>2
  <2> HIDE DEF g
  <2> QED
    BY <2>2
<1>3. Upto(N)
  <2>1. 0 \in P /\ \A n \in 1..N : n - 1 \in P => n \in P
    <3> HIDE DEF Upto
    <3>1. \A n \in 1..N : n \in 0..N
      OBVIOUS
    <3> QED
      BY <1>1, <1>2, <3>1
  <2>2. 0..N \subseteq P
    <3> HIDE DEF P
    <3> QED
      BY <2>1, AllReached
  <2>3. N \in P
    BY <2>2
  <2> QED
    BY <2>3
<1>4. PICK f : \A n \in 0..N : f[n] = (IF n = 0 THEN x ELSE step[<<n, f[n - 1]>>])
  BY <1>3
<1> DEFINE g == [n \in 0..N |-> f[n]]
<1>5. ASSUME NEW n \in 0..N PROVE g[n] = (IF n = 0 THEN x ELSE step[<<n, g[n - 1]>>])
  <2>1. n # 0 => n - 1 \in 0..N
    OBVIOUS
  <2>2. n # 0 => g[n - 1] = f[n - 1]
    BY <2>1
  <2>3. g[n] = f[n]
    OBVIOUS
  <2> HIDE DEF g
  <2> QED
    BY <1>4, <2>2, <2>3
<1>6. g = [n \in 0..N |-> g[n]]
  OBVIOUS
<1> HIDE DEF g
<1>7. Solves(g, N, x, step)
  BY <1>5, <1>6 DEF Solves
<1>8. \A n \in 0..N : g[n] \in S
  <2> DEFINE K == {n \in 0..N : g[n] \in S}
  <2>1. 0 \in K
    <3>1. 0 \in 0..N
      OBVIOUS
    <3>2. g[0] = x
      BY <1>5, <3>1
    <3> QED
      BY <3>1, <3>2
  <2>2. ASSUME NEW n \in 1..N, n - 1 \in K PROVE n \in K
    <3>1. n \in 0..N /\ n # 0 /\ g[n - 1] \in S
      BY <2>2
    <3> QED
      BY <1>5, <3>1
  <2>3. 0..N \subseteq K
    <3> HIDE DEF K
    <3> QED
      BY <2>1, <2>2, AllReached
  <2> QED
    BY <2>3
<1> QED
  BY <1>7, <1>8

(* max_records is at least ten (schemas/project_steward.py).                 *)
StewardIsGiven == NRecs \in Nat /\ Effort \in [PS!Recs -> Int] /\ Limit \in Nat \ {0}

OthersOf(T, t) == PS!Needs(T, t) \ {t}
TakeNext(T, s) ==
    LET free == PS!Free(T, PS!ToSet(s)) IN IF free = {} THEN s ELSE Append(s, PS!Min(free))
Taken(T) == CHOOSE f : f = [n \in 0..NRecs |-> IF n = 0 THEN << >> ELSE TakeNext(T, f[n - 1])]

(* A task is taken once, after the others it needs. *)
InOrder(T, s) ==
    /\ s \in Seq(DOMAIN T)
    /\ Cardinality(PS!ToSet(s)) = Len(s)
    /\ \A i \in 1..Len(s) : OthersOf(T, s[i]) \subseteq {s[j] : j \in 1..(i - 1)}
    /\ \A i \in 1..Len(s) : s[i] \notin {s[j] : j \in 1..(i - 1)}

LEMMA StewardMin ==
  ASSUME NEW S \in SUBSET Nat, S # {}
  PROVE  PS!Min(S) \in S /\ \A x \in S : PS!Min(S) <= x
<1>1. PICK n \in S : \A m \in S : n <= m
  BY LeastNat
<1>2. PS!Min(S) = n
  <2>1. F!Min(S) = n
    BY <1>1, LeastOf
  <2> QED
    BY <2>1 DEF PS!Min, F!Min
<1> QED
  BY <1>1, <1>2

LEMMA TasksAreFinite ==
  ASSUME StewardIsGiven, NEW T, DOMAIN T \subseteq PS!Recs
  PROVE  /\ DOMAIN T \subseteq Nat /\ IsFiniteSet(DOMAIN T)
         /\ Cardinality(DOMAIN T) \in Nat /\ Cardinality(DOMAIN T) <= NRecs
<1>1. IsFiniteSet(1..NRecs) /\ Cardinality(1..NRecs) = NRecs
  BY FS_Interval DEF StewardIsGiven
<1> QED
  BY <1>1, FS_Subset, FS_CardinalityType DEF StewardIsGiven, PS!Recs

Extends(r, s, x, S) ==
    /\ r \in Seq(S) /\ Len(r) = Len(s) + 1 /\ r[Len(s) + 1] = x
    /\ \A i \in 1..Len(s) : r[i] = s[i]
    /\ PS!ToSet(s) = {s[i] : i \in 1..Len(s)}
    /\ PS!ToSet(r) = PS!ToSet(s) \cup {x}

(* What a sequence holds, with an element more at its end. *)
LEMMA OneMore ==
  ASSUME NEW S, NEW s \in Seq(S), NEW x \in S, NEW r, r = Append(s, x)
  PROVE  Extends(r, s, x, S)
<1>1. r \in Seq(S) /\ Len(r) = Len(s) + 1 /\ r[Len(s) + 1] = x /\ (\A i \in 1..Len(s) : r[i] = s[i]) /\ Len(s) \in Nat
  OBVIOUS
<1>2. DOMAIN r = 1..(Len(s) + 1) /\ DOMAIN s = 1..Len(s)
  BY <1>1
<1>3. ASSUME NEW y \in PS!ToSet(r) PROVE y \in PS!ToSet(s) \cup {x}
  <2>1. PICK i \in 1..(Len(s) + 1) : y = r[i]
    BY <1>2 DEF PS!ToSet
  <2>2. i = Len(s) + 1 \/ i \in 1..Len(s)
    BY <1>1
  <2> QED
    BY <1>1, <1>2, <2>1, <2>2 DEF PS!ToSet
<1>4. ASSUME NEW y \in PS!ToSet(s) PROVE y \in PS!ToSet(r)
  <2>1. PICK i \in 1..Len(s) : y = s[i]
    BY <1>2 DEF PS!ToSet
  <2>2. y = r[i] /\ i \in 1..(Len(s) + 1)
    BY <1>1, <2>1
  <2> QED
    BY <1>2, <2>2 DEF PS!ToSet
<1>5. x \in PS!ToSet(r)
  <2>1. Len(s) + 1 \in 1..(Len(s) + 1)
    BY <1>1
  <2> QED
    BY <1>1, <1>2, <2>1 DEF PS!ToSet
<1>6. PS!ToSet(s) = {s[i] : i \in 1..Len(s)}
  BY <1>2 DEF PS!ToSet
<1> QED
  BY <1>1, <1>3, <1>4, <1>5, <1>6 DEF Extends

LEMMA TakenInOrder ==
  ASSUME StewardIsGiven, NEW T, DOMAIN T \subseteq PS!Recs, NEW s, InOrder(T, s)
  PROVE  /\ InOrder(T, TakeNext(T, s)) /\ PS!ToSet(s) \subseteq DOMAIN T
         /\ PS!Free(T, PS!ToSet(s)) # {} => Len(TakeNext(T, s)) = Len(s) + 1
         /\ PS!Free(T, PS!ToSet(s)) = {} => TakeNext(T, s) = s
<1>1. /\ s \in Seq(DOMAIN T) /\ Len(s) \in Nat /\ Cardinality(PS!ToSet(s)) = Len(s)
      /\ PS!ToSet(s) = {s[i] : i \in 1..Len(s)} /\ PS!ToSet(s) \subseteq DOMAIN T
  BY DEF InOrder, PS!ToSet
<1>0. Len(s) \in Nat
  BY <1>1
<1>2. CASE PS!Free(T, PS!ToSet(s)) = {}
  BY <1>1, <1>2 DEF TakeNext
<1>3. CASE PS!Free(T, PS!ToSet(s)) # {}
  <2> DEFINE x == PS!Min(PS!Free(T, PS!ToSet(s)))
             r == Append(s, x)
  <2>1. x \in PS!Free(T, PS!ToSet(s))
    <3>1. PS!Free(T, PS!ToSet(s)) \in SUBSET Nat
      BY TasksAreFinite DEF PS!Free
    <3> QED
      BY <1>3, <3>1, StewardMin
  <2>2. x \in DOMAIN T /\ x \notin PS!ToSet(s) /\ OthersOf(T, x) \subseteq PS!ToSet(s)
    BY <2>1 DEF PS!Free, OthersOf
  <2>3. TakeNext(T, s) = r
    BY <1>3 DEF TakeNext
  <2> HIDE DEF x
  <2>4. /\ r \in Seq(DOMAIN T) /\ Len(r) = Len(s) + 1 /\ r[Len(s) + 1] = x
        /\ \A i \in 1..Len(s) : r[i] = s[i]
        /\ PS!ToSet(r) = PS!ToSet(s) \cup {x}
    <3> DEFINE All == DOMAIN T
    <3>1. s \in Seq(All) /\ x \in All
      BY <1>1, <2>2
    <3> HIDE DEF All
    <3>2. Extends(r, s, x, All)
      BY <3>1, OneMore
    <3> QED
      BY <3>2 DEF Extends, All
  <2>7. Len(r) \in Nat
    BY <1>0, <2>4
  <2> HIDE DEF r
  <2>5. Cardinality(PS!ToSet(r)) = Len(r)
    <3>1. IsFiniteSet(PS!ToSet(s))
      BY <1>1, TasksAreFinite, FS_Subset
    <3> DEFINE A == PS!ToSet(s)
    <3>2. x \notin A /\ PS!ToSet(r) = A \cup {x} /\ IsFiniteSet(A)
      BY <2>2, <2>4, <3>1
    <3>3. Cardinality(A) = Len(s)
      BY <1>1
    <3> HIDE DEF A
    <3>4. Cardinality(A \cup {x}) = Cardinality(A) + 1
      BY <3>2, FS_AddElement
    <3> QED
      BY <2>4, <3>2, <3>3, <3>4
  <2>6. ASSUME NEW i \in 1..Len(r)
        PROVE  /\ OthersOf(T, r[i]) \subseteq {r[j] : j \in 1..(i - 1)}
               /\ r[i] \notin {r[j] : j \in 1..(i - 1)}
    <3>1. \A j \in 1..(i - 1) : r[j] = s[j]
      <4>1. \A j \in 1..(i - 1) : j \in 1..Len(s)
        BY <1>0, <2>4
      <4> QED
        BY <2>4, <4>1
    <3>2. {r[j] : j \in 1..(i - 1)} = {s[j] : j \in 1..(i - 1)}
      BY <3>1
    <3>3. CASE i \in 1..Len(s)
      BY <2>4, <3>2, <3>3 DEF InOrder
    <3>4. CASE i = Len(s) + 1
      <4>1. {s[j] : j \in 1..(i - 1)} = PS!ToSet(s) /\ r[i] = x
        <5>1. i - 1 = Len(s)
          BY <1>0, <3>4
        <5> QED
          BY <1>1, <2>4, <3>4, <5>1
      <4> QED
        BY <2>2, <3>2, <4>1
    <3> QED
      BY <1>0, <2>4, <3>3, <3>4
  <2>8. InOrder(T, r)
    BY <2>4, <2>5, <2>6 DEF InOrder
  <2> QED
    BY <1>1, <1>3, <2>3, <2>4, <2>8
<1> QED
  BY <1>2, <1>3

LEMMA TakenStepwise ==
  ASSUME StewardIsGiven, NEW T, DOMAIN T \subseteq PS!Recs
  PROVE  /\ Taken(T)[0] = << >>
         /\ \A n \in 1..NRecs : Taken(T)[n] = TakeNext(T, Taken(T)[n - 1])
         /\ \A n \in 0..NRecs : InOrder(T, Taken(T)[n])
         /\ PS!Order(T) = Taken(T)[NRecs]
<1> DEFINE S == {s \in Seq(DOMAIN T) : InOrder(T, s)}
           g == [p \in (1..NRecs) \X S |-> TakeNext(T, p[2])]
<1>1. << >> \in S
  <2>1. PS!ToSet(<< >>) = {} /\ Len(<< >>) = 0 /\ << >> \in Seq(DOMAIN T)
    BY DEF PS!ToSet
  <2>2. Cardinality({}) = 0
    BY FS_EmptySet
  <2>3. 1..Len(<< >>) = {}
    BY <2>1
  <2>4. InOrder(T, << >>)
    BY <2>1, <2>2, <2>3 DEF InOrder
  <2> QED
    BY <2>1, <2>4
<1>2. \A s \in S : TakeNext(T, s) \in S
  <2>1. ASSUME NEW s \in S PROVE TakeNext(T, s) \in S
    <3>1. InOrder(T, TakeNext(T, s))
      BY TakenInOrder
    <3> QED
      BY <3>1 DEF InOrder
  <2> QED
    BY <2>1
<1> HIDE DEF S
<1>3. \A n \in 1..NRecs : \A s \in S : g[<<n, s>>] = TakeNext(T, s)
  OBVIOUS
<1>4. \A n \in 1..NRecs : \A s \in S : g[<<n, s>>] \in S
  BY <1>2, <1>3
<1> HIDE DEF g
<1>5. PICK f : /\ f = [n \in 0..NRecs |-> IF n = 0 THEN << >> ELSE g[<<n, f[n - 1]>>]]
               /\ \A n \in 0..NRecs : f[n] \in S
  <2>1. NRecs \in Nat
    BY DEF StewardIsGiven
  <2>2. PICK f : Solves(f, NRecs, << >>, g) /\ \A n \in 0..NRecs : f[n] \in S
    BY <1>1, <1>4, <2>1, RecursionSolved
  <2> QED
    BY <2>2 DEF Solves
<1>6. ASSUME NEW n \in 0..NRecs, n # 0 PROVE g[<<n, f[n - 1]>>] = TakeNext(T, f[n - 1])
  <2>1. n - 1 \in 0..NRecs /\ n \in 1..NRecs
    BY <1>6 DEF StewardIsGiven
  <2> QED
    BY <1>3, <1>5, <2>1
<1>7. f = [n \in 0..NRecs |-> IF n = 0 THEN << >> ELSE TakeNext(T, f[n - 1])]
  BY <1>5, <1>6
<1>8. Taken(T) = [n \in 0..NRecs |-> IF n = 0 THEN << >> ELSE TakeNext(T, Taken(T)[n - 1])]
  BY <1>7 DEF Taken
<1>9. Taken(T) = f
  <2> DEFINE K == {n \in 0..NRecs : Taken(T)[n] = f[n]}
  <2>1. 0 \in K
    BY <1>7, <1>8 DEF StewardIsGiven
  <2>2. ASSUME NEW n \in 1..NRecs, n - 1 \in K PROVE n \in K
    <3>1. n \in 0..NRecs /\ n # 0 /\ Taken(T)[n - 1] = f[n - 1]
      BY <2>2
    <3> QED
      BY <1>7, <1>8, <3>1
  <2>3. 0..NRecs \subseteq K
    <3> HIDE DEF K
    <3> QED
      BY <2>1, <2>2, AllReached DEF StewardIsGiven
  <2>4. \A n \in 0..NRecs : Taken(T)[n] = f[n]
    BY <2>3
  <2> QED
    BY <1>7, <1>8, <2>4
<1>10. PS!Order(T) = Taken(T)[NRecs]
  BY DEF PS!Order, Taken, TakeNext
<1>11. 0 \in 0..NRecs /\ \A n \in 1..NRecs : n \in 0..NRecs /\ n # 0
  BY DEF StewardIsGiven
<1>12. \A n \in 0..NRecs : InOrder(T, Taken(T)[n])
  BY <1>5, <1>9 DEF S
<1> QED
  BY <1>8, <1>10, <1>11, <1>12

(* When the rounds are over, no task is free. *)
LEMMA NothingIsFree ==
  ASSUME StewardIsGiven, NEW T, DOMAIN T \subseteq PS!Recs
  PROVE  /\ InOrder(T, PS!Order(T))
         /\ PS!Free(T, PS!ToSet(PS!Order(T))) = {}
<1> DEFINE K == {n \in 0..NRecs : Len(Taken(T)[n]) = n \/ PS!Free(T, PS!ToSet(Taken(T)[n])) = {}}
<1>1. 0 \in K
  <2>1. 0 \in 0..NRecs /\ Len(<< >>) = 0
    BY DEF StewardIsGiven
  <2> QED
    BY <2>1, TakenStepwise
<1>2. ASSUME NEW n \in 1..NRecs, n - 1 \in K PROVE n \in K
  <2> DEFINE s == Taken(T)[n - 1]
  <2>1. /\ n - 1 \in 0..NRecs /\ n \in 0..NRecs /\ InOrder(T, s) /\ Taken(T)[n] = TakeNext(T, s)
        /\ Len(s) = n - 1 \/ PS!Free(T, PS!ToSet(s)) = {}
    BY <1>2, TakenStepwise
  <2>2. CASE PS!Free(T, PS!ToSet(s)) = {}
    BY <2>1, <2>2, TakenInOrder
  <2>3. CASE PS!Free(T, PS!ToSet(s)) # {}
    <3>1. Len(Taken(T)[n]) = Len(s) + 1 /\ Len(s) = n - 1
      BY <2>1, <2>3, TakenInOrder
    <3> QED
      BY <2>1, <3>1
  <2> QED
    BY <2>2, <2>3
<1>3. 0..NRecs \subseteq K
  <2> HIDE DEF K
  <2> QED
    BY <1>1, <1>2, AllReached DEF StewardIsGiven
<1> DEFINE o == PS!Order(T)
<1>4. InOrder(T, o) /\ (Len(o) = NRecs \/ PS!Free(T, PS!ToSet(o)) = {})
  <2>1. NRecs \in 0..NRecs
    BY DEF StewardIsGiven
  <2>2. InOrder(T, Taken(T)[NRecs]) /\ o = Taken(T)[NRecs]
    BY <2>1, TakenStepwise
  <2>3. NRecs \in K
    BY <1>3, <2>1
  <2> QED
    BY <2>2, <2>3
<1> HIDE DEF o
<1>5. ASSUME Len(o) = NRecs PROVE PS!Free(T, PS!ToSet(o)) = {}
  <2>1. PS!ToSet(o) \subseteq DOMAIN T /\ Cardinality(PS!ToSet(o)) = NRecs
    BY <1>4, <1>5, TakenInOrder DEF InOrder
  <2>2. PS!ToSet(o) = DOMAIN T
    <3>1. /\ IsFiniteSet(DOMAIN T) /\ Cardinality(DOMAIN T) \in Nat /\ Cardinality(DOMAIN T) <= NRecs
      BY TasksAreFinite
    <3>2. Cardinality(PS!ToSet(o)) <= Cardinality(DOMAIN T)
      BY <2>1, <3>1, FS_Subset
    <3>3. Cardinality(PS!ToSet(o)) = Cardinality(DOMAIN T)
      BY <2>1, <3>1, <3>2 DEF StewardIsGiven
    <3> QED
      BY <2>1, <3>1, <3>3, FS_Subset
  <2> QED
    BY <2>2 DEF PS!Free
<1> QED
  BY <1>4, <1>5 DEF o

OnCircle(T, S) == S # {} /\ \A t \in S : (T[t].deps \cap S) \ {t} # {}

(* What is left over is circular, and every circle is left over: of its      *)
(* tasks none could be taken first.                                         *)
LEMMA CirclesFound ==
  ASSUME StewardIsGiven, NEW T, DOMAIN T \subseteq PS!Recs
  PROVE  /\ PS!Circular(T) # {} => OnCircle(T, PS!Circular(T))
         /\ \A S \in SUBSET DOMAIN T : OnCircle(T, S) => S \subseteq PS!Circular(T)
<1> DEFINE o == PS!Order(T)
           C == PS!Circular(T)
<1>1. InOrder(T, o) /\ PS!Free(T, PS!ToSet(o)) = {} /\ C = DOMAIN T \ PS!ToSet(o)
  BY NothingIsFree DEF PS!Circular
<1>2. o \in Seq(DOMAIN T) /\ Len(o) \in Nat /\ PS!ToSet(o) = {o[i] : i \in 1..Len(o)}
  BY <1>1 DEF InOrder, PS!ToSet
<1> HIDE DEF o, C
<1>3. ASSUME NEW t \in C PROVE (T[t].deps \cap C) \ {t} # {}
  <2>1. ~ (PS!Needs(T, t) \ {t} \subseteq PS!ToSet(o))
    BY <1>1 DEF PS!Free
  <2> QED
    BY <1>1, <2>1 DEF PS!Needs
<1>4. ASSUME NEW S \in SUBSET DOMAIN T, OnCircle(T, S), NEW t \in S, t \in PS!ToSet(o) PROVE FALSE
  <2> DEFINE B == {i \in 1..Len(o) : o[i] \in S}
  <2>1. B \in SUBSET Nat /\ B # {}
    BY <1>2, <1>4
  <2>2. PICK i \in B : \A j \in B : i <= j
    BY <2>1, LeastNat
  <2>3. PICK u \in (T[o[i]].deps \cap S) \ {o[i]} : TRUE
    BY <1>4, <2>2 DEF OnCircle
  <2>4. u \in OthersOf(T, o[i])
    BY <1>4, <2>3 DEF OthersOf, PS!Needs
  <2>5. PICK j \in 1..(i - 1) : u = o[j]
    BY <1>1, <2>2, <2>4 DEF InOrder
  <2>6. j \in 1..Len(o) /\ ~ (i <= j)
    BY <1>2, <2>2, <2>5
  <2> QED
    BY <2>2, <2>3, <2>5, <2>6
<1> QED
  BY <1>1, <1>3, <1>4 DEF OnCircle, C

-----------------------------------------------------------------------------
LEMMA StewardMax ==
  ASSUME NEW N \in Nat, NEW B \in SUBSET (1..N), B # {}, NEW v, \A p \in B : v[p] \in Nat
  PROVE  \E p \in B : PS!Max({v[b] : b \in B}) = v[p] /\ \A q \in B : v[q] <= v[p]
<1>1. PICK p \in B : \A q \in B : v[q] <= v[p]
  BY FirstLargest
<1> DEFINE S == {v[b] : b \in B}
<1>2. S \in SUBSET Int /\ v[p] \in S /\ \A x \in S : x <= v[p]
  BY <1>1
<1> HIDE DEF S
<1>3. F!Max(S) = v[p]
  BY <1>2, GreatestOf
<1>4. PS!Max(S) = v[p]
  BY <1>3 DEF PS!Max, F!Max
<1> QED
  BY <1>1, <1>4 DEF S

Weight(t) == PS!Max({1, Effort[t]})

LEMMA WeightsCount ==
  ASSUME StewardIsGiven, NEW t \in PS!Recs
  PROVE  Weight(t) \in Nat /\ Weight(t) >= 1
<1>1. Effort[t] \in Int
  BY DEF StewardIsGiven
<1>2. PS!Max({1, Effort[t]}) = IF 1 >= Effort[t] THEN 1 ELSE Effort[t]
  BY <1>1, GreaterOfTwo DEF PS!Max, F!Max
<1> QED
  BY <1>1, <1>2 DEF Weight

Lengthen(T, l, t) ==
    LET earlier == PS!Needs(T, t) \cap DOMAIN l
        most == IF earlier = {} THEN 0 ELSE PS!Max({l[b] : b \in earlier})
    IN  [u \in DOMAIN l \cup {t} |-> IF u = t THEN most + PS!Max({1, Effort[t]}) ELSE l[u]]
Lengths(T) ==
    CHOOSE f : f = [n \in 0..Len(PS!Order(T)) |-> IF n = 0 THEN << >> ELSE Lengthen(T, f[n - 1], PS!Order(T)[n])]

(* The length of a chain to t, from those of the chains to the tasks before. *)
Measured(T, l, t) ==
    /\ \A b \in OthersOf(T, t) : b \in DOMAIN l /\ l[b] + Weight(t) <= l[t]
    /\ OthersOf(T, t) = {} => l[t] = Weight(t)
    /\ OthersOf(T, t) # {} => \E b \in OthersOf(T, t) : l[t] = l[b] + Weight(t)
Partial(T, l) == l \in [DOMAIN l -> Nat] /\ DOMAIN l \subseteq DOMAIN T

LEMMA OneLonger ==
  ASSUME StewardIsGiven, NEW T, DOMAIN T \subseteq PS!Recs, NEW l, Partial(T, l), NEW t \in DOMAIN T
  PROVE  /\ Partial(T, Lengthen(T, l, t)) /\ DOMAIN Lengthen(T, l, t) = DOMAIN l \cup {t}
         /\ \A u \in DOMAIN l \ {t} : Lengthen(T, l, t)[u] = l[u]
         /\ OthersOf(T, t) \subseteq DOMAIN l /\ t \notin DOMAIN l => Measured(T, Lengthen(T, l, t), t)
<1> DEFINE earlier == PS!Needs(T, t) \cap DOMAIN l
           most == IF earlier = {} THEN 0 ELSE PS!Max({l[b] : b \in earlier})
           m == Lengthen(T, l, t)
<1>1. m = [u \in DOMAIN l \cup {t} |-> IF u = t THEN most + Weight(t) ELSE l[u]]
  BY DEF Lengthen, Weight
<1>2. /\ earlier # {} => \E b \in earlier : most = l[b] /\ \A q \in earlier : l[q] <= l[b]
      /\ earlier = {} => most = 0
      /\ \A q \in DOMAIN l : l[q] \in Nat
  <2>1. earlier \subseteq 1..NRecs /\ NRecs \in Nat /\ (\A q \in earlier : l[q] \in Nat) /\ \A q \in DOMAIN l : l[q] \in Nat
    BY DEF Partial, PS!Recs, StewardIsGiven
  <2> HIDE DEF earlier
  <2>2. ASSUME earlier # {} PROVE \E b \in earlier : PS!Max({l[p] : p \in earlier}) = l[b] /\ \A q \in earlier : l[q] <= l[b]
    BY <2>1, <2>2, StewardMax
  <2> QED
    BY <2>1, <2>2
<1>3. most \in Nat /\ Weight(t) \in Nat
  <2>1. Weight(t) \in Nat
    BY WeightsCount
  <2> HIDE DEF most
  <2> QED
    BY <1>2, <2>1
<1>4. OthersOf(T, t) \subseteq DOMAIN l /\ t \notin DOMAIN l => earlier = OthersOf(T, t)
  BY DEF OthersOf
<1> HIDE DEF earlier, most, m
<1>5. DOMAIN m = DOMAIN l \cup {t} /\ m[t] = most + Weight(t) /\ \A u \in DOMAIN l \ {t} : m[u] = l[u]
  BY <1>1
<1>6. Partial(T, m)
  <2>1. \A u \in DOMAIN m : m[u] \in Nat
    BY <1>2, <1>3, <1>5
  <2>2. m = [u \in DOMAIN m |-> m[u]]
    BY <1>1
  <2> QED
    BY <1>5, <2>1, <2>2 DEF Partial
<1>7. ASSUME OthersOf(T, t) \subseteq DOMAIN l, t \notin DOMAIN l PROVE Measured(T, m, t)
  <2>1. earlier = OthersOf(T, t) /\ \A b \in earlier : b \in DOMAIN m /\ m[b] = l[b] /\ l[b] \in Nat
    BY <1>2, <1>4, <1>5, <1>7
  <2>2. ASSUME NEW b \in earlier PROVE m[b] + Weight(t) <= m[t]
    BY <1>2, <1>3, <1>5, <2>1
  <2>3. earlier = {} => m[t] = Weight(t)
    BY <1>2, <1>3, <1>5
  <2>4. earlier # {} => \E b \in earlier : m[t] = m[b] + Weight(t)
    BY <1>2, <1>5, <2>1
  <2> QED
    BY <2>1, <2>2, <2>3, <2>4 DEF Measured
<1> QED
  BY <1>5, <1>6, <1>7 DEF m

LEMMA LengthsStepwise ==
  ASSUME StewardIsGiven, NEW T, DOMAIN T \subseteq PS!Recs
  PROVE  LET o == PS!Order(T) IN
         /\ Lengths(T)[0] = << >>
         /\ \A n \in 1..Len(o) : Lengths(T)[n] = Lengthen(T, Lengths(T)[n - 1], o[n])
         /\ \A n \in 0..Len(o) : Partial(T, Lengths(T)[n])
         /\ PS!Longest(T) = Lengths(T)[Len(o)]
<1> DEFINE o == PS!Order(T)
           N == Len(o)
           S == UNION {[E -> Nat] : E \in SUBSET DOMAIN T}
           g == [p \in (1..N) \X S |-> Lengthen(T, p[2], o[p[1]])]
<1>0. o \in Seq(DOMAIN T) /\ N \in Nat /\ \A n \in 1..N : o[n] \in DOMAIN T
  BY NothingIsFree DEF InOrder
<1>1. \A l : l \in S <=> Partial(T, l)
  BY DEF Partial
<1>2. << >> \in S
  <2>1. << >> \in [{} -> Nat] /\ {} \in SUBSET DOMAIN T
    OBVIOUS
  <2> QED
    BY <2>1
<1> HIDE DEF S, N
<1>3. \A n \in 1..N : \A l \in S : Lengthen(T, l, o[n]) \in S
  BY <1>0, <1>1, OneLonger
<1>4. \A n \in 1..N : \A l \in S : g[<<n, l>>] = Lengthen(T, l, o[n])
  OBVIOUS
<1>5. \A n \in 1..N : \A l \in S : g[<<n, l>>] \in S
  BY <1>3, <1>4
<1> HIDE DEF g, o
<1>6. PICK f : /\ f = [n \in 0..N |-> IF n = 0 THEN << >> ELSE g[<<n, f[n - 1]>>]]
               /\ \A n \in 0..N : f[n] \in S
  <2>1. PICK f : Solves(f, N, << >>, g) /\ \A n \in 0..N : f[n] \in S
    BY <1>0, <1>2, <1>5, RecursionSolved
  <2> QED
    BY <2>1 DEF Solves
<1>7. ASSUME NEW n \in 0..N, n # 0 PROVE g[<<n, f[n - 1]>>] = Lengthen(T, f[n - 1], o[n])
  <2>1. n - 1 \in 0..N /\ n \in 1..N
    BY <1>0, <1>7
  <2> QED
    BY <1>4, <1>6, <2>1
<1>8. f = [n \in 0..N |-> IF n = 0 THEN << >> ELSE Lengthen(T, f[n - 1], o[n])]
  BY <1>6, <1>7
<1> DEFINE L == Lengths(T)
<1>9. L = [n \in 0..N |-> IF n = 0 THEN << >> ELSE Lengthen(T, L[n - 1], o[n])]
  BY <1>8 DEF Lengths, o, N
<1>10. PS!Longest(T) = L[N]
  BY DEF PS!Longest, Lengths, Lengthen, N, o
<1> HIDE DEF L
<1>11. \A n \in 0..N : L[n] = f[n]
  <2> DEFINE K == {n \in 0..N : L[n] = f[n]}
  <2>1. 0 \in K
    BY <1>0, <1>8, <1>9
  <2>2. ASSUME NEW n \in 1..N, n - 1 \in K PROVE n \in K
    <3>1. n \in 0..N /\ n # 0 /\ L[n - 1] = f[n - 1]
      BY <2>2
    <3> QED
      BY <1>8, <1>9, <3>1
  <2>3. 0..N \subseteq K
    <3> HIDE DEF K
    <3> QED
      BY <1>0, <2>1, <2>2, AllReached
  <2> QED
    BY <2>3
<1>12. 0 \in 0..N /\ \A n \in 1..N : n \in 0..N /\ n # 0
  BY <1>0
<1>13. \A n \in 0..N : Partial(T, L[n])
  BY <1>1, <1>6, <1>11
<1>14. L[0] = << >> /\ \A n \in 1..N : L[n] = Lengthen(T, L[n - 1], o[n])
  BY <1>9, <1>12
<1> QED
  BY <1>10, <1>13, <1>14 DEF L, N, o

(* The measures hold for every task when there is no circle. *)
LEMMA LongestMeasures ==
  ASSUME StewardIsGiven, NEW T, DOMAIN T \subseteq PS!Recs, PS!Circular(T) = {}
  PROVE  /\ PS!Longest(T) \in [DOMAIN T -> Nat]
         /\ \A t \in DOMAIN T : Measured(T, PS!Longest(T), t)
<1> DEFINE o == PS!Order(T)
           N == Len(o)
           L == Lengths(T)
           K == {n \in 0..N : /\ DOMAIN L[n] = {o[j] : j \in 1..n}
                              /\ \A j \in 1..n : Measured(T, L[n], o[j])}
<1>0. InOrder(T, o) /\ o \in Seq(DOMAIN T) /\ N \in Nat /\ \A n \in 1..N : o[n] \in DOMAIN T
  <2>1. InOrder(T, o)
    BY NothingIsFree
  <2> HIDE DEF o
  <2>2. o \in Seq(DOMAIN T)
    BY <2>1 DEF InOrder
  <2> QED
    BY <2>1, <2>2
<1>1. /\ L[0] = << >>
      /\ \A n \in 1..N : L[n] = Lengthen(T, L[n - 1], o[n])
      /\ \A n \in 0..N : Partial(T, L[n])
      /\ PS!Longest(T) = L[N]
  BY LengthsStepwise
<1>2. DOMAIN T = {o[j] : j \in 1..N}
  <2>1. DOMAIN T \subseteq PS!ToSet(o)
    BY DEF PS!Circular
  <2> HIDE DEF o
  <2>2. PS!ToSet(o) = {o[j] : j \in 1..N}
    BY <1>0 DEF PS!ToSet
  <2>3. {o[j] : j \in 1..N} \subseteq DOMAIN T
    BY <1>0
  <2> QED
    BY <2>1, <2>2, <2>3
<1> HIDE DEF o, L, N
<1>3. 0 \in K
  <2>1. DOMAIN << >> = {} /\ 1..0 = {} /\ 0 \in 0..N
    BY <1>0
  <2> QED
    BY <1>1, <2>1
<1>4. ASSUME NEW n \in 1..N, n - 1 \in K PROVE n \in K
  <2> DEFINE l == L[n - 1]
             t == o[n]
             m == L[n]
  <2>1. /\ n - 1 \in 0..N /\ n \in 0..N /\ n \in Nat /\ Partial(T, l) /\ t \in DOMAIN T /\ m = Lengthen(T, l, t)
        /\ DOMAIN l = {o[j] : j \in 1..(n - 1)} /\ \A j \in 1..(n - 1) : Measured(T, l, o[j])
    BY <1>0, <1>1, <1>4
  <2>2. OthersOf(T, t) \subseteq DOMAIN l /\ t \notin DOMAIN l
    BY <1>0, <2>1 DEF InOrder, N
  <2> HIDE DEF l, t, m
  <2>3. /\ DOMAIN m = DOMAIN l \cup {t} /\ Measured(T, m, t)
        /\ \A u \in DOMAIN l : m[u] = l[u]
    <3>1. /\ DOMAIN Lengthen(T, l, t) = DOMAIN l \cup {t} /\ Measured(T, Lengthen(T, l, t), t)
          /\ \A u \in DOMAIN l \ {t} : Lengthen(T, l, t)[u] = l[u]
      BY <2>1, <2>2, OneLonger
    <3> QED
      BY <2>1, <2>2, <3>1
  <2>4. ASSUME NEW j \in 1..(n - 1) PROVE Measured(T, m, o[j])
    <3>1. o[j] \in DOMAIN l /\ Measured(T, l, o[j])
      BY <2>1
    <3> QED
      BY <2>3, <3>1 DEF Measured
  <2>5. 1..n = 1..(n - 1) \cup {n}
    BY <2>1
  <2>6. DOMAIN m = {o[j] : j \in 1..n}
    BY <2>1, <2>3, <2>5 DEF t
  <2>7. \A j \in 1..n : Measured(T, m, o[j])
    BY <2>3, <2>4, <2>5 DEF t
  <2> QED
    BY <2>1, <2>6, <2>7 DEF m
<1>5. 0..N \subseteq K
  <2> HIDE DEF K
  <2> QED
    BY <1>0, <1>3, <1>4, AllReached
<1>6. N \in 0..N
  BY <1>0
<1>7. DOMAIN L[N] = DOMAIN T /\ \A t \in DOMAIN T : Measured(T, L[N], t)
  BY <1>2, <1>5, <1>6
<1> QED
  BY <1>1, <1>6, <1>7 DEF Partial

HoursTo(s) ==
    CHOOSE f : f = [i \in 0..Len(s) |-> IF i = 0 THEN 0 ELSE f[i - 1] + PS!Max({1, Effort[s[i]]})]

LEMMA HoursStepwise ==
  ASSUME StewardIsGiven, NEW s \in Seq(PS!Recs)
  PROVE  /\ HoursTo(s)[0] = 0
         /\ \A i \in 1..Len(s) : HoursTo(s)[i] = HoursTo(s)[i - 1] + Weight(s[i])
         /\ \A i \in 0..Len(s) : HoursTo(s)[i] \in Nat
         /\ PS!HoursIn(s) = HoursTo(s)[Len(s)]
<1> DEFINE N == Len(s)
           g == [p \in (1..N) \X Nat |-> p[2] + Weight(s[p[1]])]
           L == HoursTo(s)
<1>0. N \in Nat /\ 0 \in Nat /\ \A i \in 1..N : Weight(s[i]) \in Nat
  <2>1. \A i \in 1..N : s[i] \in PS!Recs
    OBVIOUS
  <2> QED
    BY <2>1, WeightsCount
<1> HIDE DEF N
<1>1. \A n \in 1..N : \A h \in Nat : g[<<n, h>>] = h + Weight(s[n]) /\ g[<<n, h>>] \in Nat
  BY <1>0
<1> HIDE DEF g
<1>2. PICK f : /\ f = [n \in 0..N |-> IF n = 0 THEN 0 ELSE g[<<n, f[n - 1]>>]]
               /\ \A n \in 0..N : f[n] \in Nat
  <2>1. PICK f : Solves(f, N, 0, g) /\ \A n \in 0..N : f[n] \in Nat
    BY <1>0, <1>1, RecursionSolved
  <2> QED
    BY <2>1 DEF Solves
<1>3. ASSUME NEW n \in 0..N, n # 0 PROVE g[<<n, f[n - 1]>>] = f[n - 1] + Weight(s[n])
  <2>1. n - 1 \in 0..N /\ n \in 1..N
    BY <1>0, <1>3
  <2> QED
    BY <1>1, <1>2, <2>1
<1>4. f = [n \in 0..N |-> IF n = 0 THEN 0 ELSE f[n - 1] + Weight(s[n])]
  BY <1>2, <1>3
<1>5. L = [n \in 0..N |-> IF n = 0 THEN 0 ELSE L[n - 1] + Weight(s[n])]
  BY <1>4 DEF HoursTo, Weight, N
<1>6. PS!HoursIn(s) = L[N]
  BY DEF PS!HoursIn, HoursTo, N
<1> HIDE DEF L
<1>7. \A n \in 0..N : L[n] = f[n]
  <2> DEFINE K == {n \in 0..N : L[n] = f[n]}
  <2>1. 0 \in K
    BY <1>0, <1>4, <1>5
  <2>2. ASSUME NEW n \in 1..N, n - 1 \in K PROVE n \in K
    <3>1. n \in 0..N /\ n # 0 /\ L[n - 1] = f[n - 1]
      BY <2>2
    <3> QED
      BY <1>4, <1>5, <3>1
  <2>3. 0..N \subseteq K
    <3> HIDE DEF K
    <3> QED
      BY <1>0, <2>1, <2>2, AllReached
  <2> QED
    BY <2>3
<1>8. 0 \in 0..N /\ \A n \in 1..N : n \in 0..N /\ n # 0
  BY <1>0
<1>9. L[0] = 0 /\ \A n \in 1..N : L[n] = L[n - 1] + Weight(s[n])
  BY <1>5, <1>8
<1>10. \A n \in 0..N : L[n] \in Nat
  BY <1>2, <1>7
<1> QED
  BY <1>6, <1>9, <1>10 DEF L, N

-----------------------------------------------------------------------------
(* No chain is longer than the measure of its last task. *)
Chained(T, s) ==
    s \in Seq(DOMAIN T) /\ Len(s) >= 1 /\ \A i \in 1..(Len(s) - 1) : s[i] \in OthersOf(T, s[i + 1])

LEMMA ChainsBounded ==
  ASSUME StewardIsGiven, NEW T, DOMAIN T \subseteq PS!Recs, PS!Circular(T) = {}, NEW s, Chained(T, s)
  PROVE  PS!HoursIn(s) <= PS!Longest(T)[s[Len(s)]]
<1> DEFINE l == PS!Longest(T)
           h == HoursTo(s)
           N == Len(s)
           K == {n \in 0..N : n # 0 => h[n] <= l[s[n]]}
<1>1. l \in [DOMAIN T -> Nat] /\ \A t \in DOMAIN T : Measured(T, l, t)
  BY LongestMeasures
<1>2. /\ s \in Seq(DOMAIN T) /\ N \in Nat /\ N >= 1 /\ (\A i \in 1..N : s[i] \in DOMAIN T /\ s[i] \in PS!Recs)
      /\ \A i \in 1..(N - 1) : s[i] \in OthersOf(T, s[i + 1])
  BY DEF Chained
<1>3. /\ h[0] = 0 /\ (\A i \in 1..N : h[i] = h[i - 1] + Weight(s[i])) /\ (\A i \in 0..N : h[i] \in Nat)
      /\ PS!HoursIn(s) = h[N]
  <2>1. s \in Seq(PS!Recs)
    BY <1>2
  <2> QED
    BY <2>1, HoursStepwise
<1> HIDE DEF l, h, N
<1>4. \A i \in 1..N : Weight(s[i]) \in Nat /\ l[s[i]] \in Nat
  BY <1>1, <1>2, WeightsCount
<1>5. 0 \in K
  BY <1>2
<1>6. ASSUME NEW n \in 1..N, n - 1 \in K PROVE n \in K
  <2> DEFINE t == s[n]
  <2>0. t \in DOMAIN T /\ Measured(T, l, t) /\ h[n] = h[n - 1] + Weight(t) /\ Weight(t) \in Nat /\ l[t] \in Nat
    BY <1>1, <1>2, <1>3, <1>4
  <2>1. CASE n = 1
    <3>1. h[n] = Weight(t)
      BY <1>3, <2>0, <2>1
    <3>2. ASSUME NEW b \in OthersOf(T, t) PROVE Weight(t) <= l[t]
      <4>1. b \in DOMAIN T /\ l[b] + Weight(t) <= l[t] /\ l[b] \in Nat
        BY <1>1, <2>0 DEF Measured
      <4> QED
        BY <2>0, <4>1
    <3>3. Weight(t) <= l[t]
      BY <2>0, <3>2 DEF Measured
    <3> QED
      BY <3>1, <3>3
  <2>2. CASE n # 1
    <3> DEFINE b == s[n - 1]
    <3>1. n - 1 \in 1..(N - 1) /\ n - 1 \in 1..N /\ n - 1 \in 0..N /\ (n - 1) + 1 = n /\ n - 1 # 0
      BY <1>2, <2>2
    <3>2. b \in OthersOf(T, t) /\ l[b] \in Nat /\ h[n - 1] <= l[b] /\ h[n - 1] \in Nat
      BY <1>2, <1>3, <1>4, <1>6, <3>1
    <3>3. l[b] + Weight(t) <= l[t]
      BY <2>0, <3>2 DEF Measured
    <3> HIDE DEF t, b
    <3>4. h[n] <= l[t]
      BY <2>0, <3>2, <3>3
    <3> QED
      BY <3>4 DEF t
  <2> QED
    BY <2>1, <2>2
<1>7. 0..N \subseteq K
  <2> HIDE DEF K
  <2> QED
    BY <1>2, <1>5, <1>6, AllReached
<1>8. N \in 0..N /\ N # 0
  BY <1>2
<1>9. h[N] <= l[s[N]]
  BY <1>7, <1>8
<1> QED
  BY <1>3, <1>9 DEF l, N

LEMMA ChainsAreChained ==
  ASSUME NEW T, NEW s \in PS!ChainsOf(T)
  PROVE  Chained(T, s)
<1>1. PICK n \in 1..PS!Cardinality(DOMAIN T) : s \in [1..n -> DOMAIN T]
  BY DEF PS!ChainsOf
<1>2. s \in Seq(DOMAIN T) /\ Len(s) = n /\ n \in Nat /\ n >= 1
  BY <1>1
<1>3. ASSUME NEW i \in 1..(Len(s) - 1) PROVE s[i] \in OthersOf(T, s[i + 1])
  <2>1. i \in 1..n /\ i + 1 \in 1..n /\ i # i + 1 /\ DOMAIN s = 1..n
    BY <1>1, <1>2
  <2>2. s[i] \in T[s[i + 1]].deps /\ s[i] # s[i + 1] /\ s[i] \in DOMAIN T
    BY <1>1, <2>1 DEF PS!ChainsOf
  <2> QED
    BY <2>2 DEF OthersOf, PS!Needs
<1> QED
  BY <1>2, <1>3 DEF Chained

(* The first of the longest, and the last task of the path. *)
FirstOfLongest(T, S) ==
    LET l == PS!Longest(T) IN CHOOSE t \in S : \A u \in S : l[u] < l[t] \/ (l[u] = l[t] /\ t <= u)
EndOf(T) ==
    LET l == PS!Longest(T)
    IN  PS!Order(T)[PS!Min({i \in DOMAIN PS!Order(T) : l[PS!Order(T)[i]] = PS!PathHours(T)})]
Backward(T, b) ==
    LET earlier == PS!Needs(T, Head(b)) \ {Head(b)}
    IN  IF earlier = {} THEN b ELSE <<FirstOfLongest(T, earlier)>> \o b
Back(T) == CHOOSE f : f = [n \in 0..NRecs |-> IF n = 0 THEN <<EndOf(T)>> ELSE Backward(T, f[n - 1])]

LEMMA EndIsLongest ==
  ASSUME StewardIsGiven, NEW T, DOMAIN T \subseteq PS!Recs, DOMAIN T # {}, PS!Circular(T) = {}
  PROVE  /\ EndOf(T) \in DOMAIN T /\ PS!PathHours(T) # 0 /\ PS!Longest(T)[EndOf(T)] = PS!PathHours(T)
         /\ \A t \in DOMAIN T : PS!Longest(T)[t] <= PS!PathHours(T)
<1> DEFINE l == PS!Longest(T)
           o == PS!Order(T)
           h == PS!PathHours(T)
           B == {i \in DOMAIN o : l[o[i]] = h}
<1>1. l \in [DOMAIN T -> Nat] /\ \A t \in DOMAIN T : Measured(T, l, t)
  BY LongestMeasures
<1>2. \E p \in DOMAIN T : h = l[p] /\ \A q \in DOMAIN T : l[q] <= l[p]
  <2>1. h = PS!Max({l[t] : t \in DOMAIN T})
    BY DEF PS!PathHours
  <2>2. NRecs \in Nat /\ DOMAIN T \in SUBSET (1..NRecs) /\ \A t \in DOMAIN T : l[t] \in Nat
    BY <1>1 DEF StewardIsGiven, PS!Recs
  <2> HIDE DEF l, h
  <2> QED
    BY <2>1, <2>2, StewardMax
<1>3. PICK p \in DOMAIN T : h = l[p] /\ \A q \in DOMAIN T : l[q] <= l[p]
  BY <1>2
<1>4. o \in Seq(DOMAIN T) /\ DOMAIN T \subseteq {o[i] : i \in DOMAIN o}
  <2>1. o \in Seq(DOMAIN T)
    BY NothingIsFree DEF InOrder
  <2> QED
    BY <2>1 DEF PS!Circular, PS!ToSet
<1>5. h # 0
  <2>1. Weight(p) \in Nat /\ Weight(p) >= 1 /\ l[p] \in Nat /\ Measured(T, l, p)
    BY <1>1, WeightsCount
  <2>2. CASE OthersOf(T, p) = {}
    BY <1>3, <2>1, <2>2 DEF Measured
  <2>3. CASE OthersOf(T, p) # {}
    <3>1. PICK b \in OthersOf(T, p) : l[p] = l[b] + Weight(p) /\ b \in DOMAIN T
      BY <1>1, <2>1, <2>3 DEF Measured
    <3>2. l[b] \in Nat
      BY <1>1, <3>1
    <3> QED
      BY <1>3, <2>1, <3>1, <3>2
  <2> QED
    BY <2>2, <2>3
<1> HIDE DEF l, o, h
<1>6. B \in SUBSET Nat /\ B # {}
  BY <1>3, <1>4
<1>7. PS!Min(B) \in B
  BY <1>6, StewardMin
<1>8. EndOf(T) = o[PS!Min(B)]
  BY DEF EndOf, l, o, h
<1>9. EndOf(T) \in DOMAIN T /\ l[EndOf(T)] = h
  BY <1>4, <1>7, <1>8
<1> QED
  BY <1>3, <1>5, <1>9 DEF l, h

(* An element more at the start. *)
Prepends(r, x, b, S) ==
    /\ r \in Seq(S) /\ Len(r) = Len(b) + 1 /\ r[1] = x
    /\ \A i \in 1..Len(b) : r[i + 1] = b[i]
    /\ \A i \in 2..Len(r) : r[i] = b[i - 1]
    /\ PS!ToSet(r) = PS!ToSet(b) \cup {x}

LEMMA OneBefore ==
  ASSUME NEW S, NEW b \in Seq(S), NEW x \in S, NEW r, r = <<x>> \o b
  PROVE  Prepends(r, x, b, S)
<1>0. Len(b) \in Nat /\ <<x>> \in Seq(S) /\ Len(<<x>>) = 1 /\ <<x>>[1] = x
  OBVIOUS
<1>1. r \in Seq(S) /\ Len(r) = Len(b) + 1 /\ r[1] = x
  BY <1>0
<1>2. \A i \in 1..Len(b) : r[i + 1] = b[i]
  BY <1>0
<1>3. ASSUME NEW i \in 2..Len(r) PROVE r[i] = b[i - 1] /\ i - 1 \in 1..Len(b)
  <2>1. i - 1 \in 1..Len(b) /\ (i - 1) + 1 = i
    BY <1>0, <1>1
  <2> QED
    BY <1>2, <2>1
<1>4. DOMAIN r = 1..Len(r) /\ DOMAIN b = 1..Len(b) /\ 1 \in 1..Len(r)
  BY <1>0, <1>1
<1>5. ASSUME NEW y \in PS!ToSet(r) PROVE y \in PS!ToSet(b) \cup {x}
  <2>1. PICK i \in 1..Len(r) : y = r[i]
    BY <1>4 DEF PS!ToSet
  <2>2. i = 1 \/ i \in 2..Len(r)
    BY <1>0, <1>1
  <2> QED
    BY <1>1, <1>3, <1>4, <2>1, <2>2 DEF PS!ToSet
<1>6. ASSUME NEW y \in PS!ToSet(b) PROVE y \in PS!ToSet(r)
  <2>1. PICK i \in 1..Len(b) : y = b[i]
    BY <1>4 DEF PS!ToSet
  <2>2. i + 1 \in 1..Len(r)
    BY <1>0, <1>1
  <2> QED
    BY <1>2, <1>4, <2>1, <2>2 DEF PS!ToSet
<1>7. x \in PS!ToSet(r)
  BY <1>1, <1>4 DEF PS!ToSet
<1> QED
  BY <1>1, <1>2, <1>3, <1>5, <1>6, <1>7 DEF Prepends

(* What is followed back so far ends with the last task, and each task of it *)
(* adds its hours to those before.                                          *)
OnThePath(T, b) ==
    /\ b \in Seq(DOMAIN T) /\ Len(b) >= 1 /\ b[Len(b)] = EndOf(T)
    /\ Cardinality(PS!ToSet(b)) = Len(b)
    /\ \A i \in 1..(Len(b) - 1) :
         /\ b[i] \in OthersOf(T, b[i + 1])
         /\ PS!Longest(T)[b[i + 1]] = PS!Longest(T)[b[i]] + Weight(b[i + 1])
    /\ \A i, j \in 1..Len(b) : i < j => PS!Longest(T)[b[i]] < PS!Longest(T)[b[j]]

LEMMA PredecessorChosen ==
  ASSUME StewardIsGiven, NEW T, DOMAIN T \subseteq PS!Recs, PS!Circular(T) = {},
         NEW t \in DOMAIN T, OthersOf(T, t) # {}
  PROVE  LET x == FirstOfLongest(T, OthersOf(T, t)) IN
         /\ x \in OthersOf(T, t) /\ x \in DOMAIN T
         /\ PS!Longest(T)[t] = PS!Longest(T)[x] + Weight(t) /\ PS!Longest(T)[x] < PS!Longest(T)[t]
<1> DEFINE l == PS!Longest(T)
           S == OthersOf(T, t)
           x == FirstOfLongest(T, S)
<1>1. l \in [DOMAIN T -> Nat] /\ Measured(T, l, t)
  BY LongestMeasures
<1>2. NRecs \in Nat /\ S \in SUBSET (1..NRecs) /\ S \subseteq DOMAIN T /\ \A u \in S : l[u] \in Nat
  BY <1>1 DEF OthersOf, PS!Needs, StewardIsGiven, PS!Recs
<1>3. Weight(t) \in Nat /\ Weight(t) >= 1 /\ l[t] \in Nat
  BY <1>1, WeightsCount
<1>4. /\ \A b \in S : l[b] + Weight(t) <= l[t]
      /\ \E b \in S : l[t] = l[b] + Weight(t)
  BY <1>1 DEF Measured
<1>5. x = CHOOSE y \in S : \A u \in S : l[u] < l[y] \/ (l[u] = l[y] /\ y <= u)
  BY DEF FirstOfLongest
<1> HIDE DEF l, S
<1>6. PICK y \in S : /\ \A q \in S : l[q] <= l[y]
                     /\ \A q \in S : l[q] = l[y] => y <= q
  BY <1>2, <1>4, FirstLargest
<1>7. \A u \in S : l[u] < l[y] \/ (l[u] = l[y] /\ y <= u)
  BY <1>2, <1>6
<1>8. x \in S /\ \A u \in S : l[u] < l[x] \/ (l[u] = l[x] /\ x <= u)
  BY <1>5, <1>7
<1> HIDE DEF x
<1>9. PICK b \in S : l[t] = l[b] + Weight(t)
  BY <1>4
<1>10. l[t] = l[x] + Weight(t) /\ l[x] < l[t]
  BY <1>2, <1>3, <1>4, <1>8, <1>9
<1> QED
  BY <1>2, <1>8, <1>10 DEF l, S, x

LEMMA BackwardOnThePath ==
  ASSUME StewardIsGiven, NEW T, DOMAIN T \subseteq PS!Recs, PS!Circular(T) = {}, NEW b, OnThePath(T, b)
  PROVE  /\ OnThePath(T, Backward(T, b))
         /\ OthersOf(T, b[1]) # {} => Len(Backward(T, b)) = Len(b) + 1
         /\ OthersOf(T, b[1]) = {} => Backward(T, b) = b
<1> DEFINE l == PS!Longest(T)
           t == b[1]
           N == Len(b)
<1>1. /\ b \in Seq(DOMAIN T) /\ N \in Nat /\ N >= 1 /\ b[N] = EndOf(T)
      /\ Cardinality(PS!ToSet(b)) = N /\ t \in DOMAIN T /\ Head(b) = t /\ DOMAIN b = 1..N
  BY DEF OnThePath
<1>2. CASE OthersOf(T, t) = {}
  BY <1>1, <1>2 DEF Backward, OthersOf
<1>3. CASE OthersOf(T, t) # {}
  <2> DEFINE x == FirstOfLongest(T, OthersOf(T, t))
             r == <<x>> \o b
  <2>1. x \in OthersOf(T, t) /\ x \in DOMAIN T /\ l[t] = l[x] + Weight(t) /\ l[x] < l[t]
    BY <1>1, <1>3, PredecessorChosen
  <2>2. Backward(T, b) = r
    BY <1>1, <1>3 DEF Backward, OthersOf
  <2> HIDE DEF x
  <2>3. Prepends(r, x, b, DOMAIN T)
    <3> DEFINE All == DOMAIN T
    <3>1. b \in Seq(All) /\ x \in All
      BY <1>1, <2>1
    <3> HIDE DEF All
    <3>2. Prepends(r, x, b, All)
      BY <3>1, OneBefore
    <3> QED
      BY <3>2 DEF All
  <2> HIDE DEF r
  <2>4. /\ r \in Seq(DOMAIN T) /\ Len(r) = N + 1 /\ r[1] = x
        /\ \A i \in 1..N : r[i + 1] = b[i]
        /\ \A i \in 2..(N + 1) : r[i] = b[i - 1]
        /\ PS!ToSet(r) = PS!ToSet(b) \cup {x}
    BY <2>3 DEF Prepends
  <2>5. /\ \A i \in 1..N : b[i] \in DOMAIN T /\ l[b[i]] \in Nat
        /\ l[x] \in Nat /\ \A i \in 1..N : l[x] < l[b[i]]
    <3>1. l \in [DOMAIN T -> Nat]
      BY LongestMeasures
    <3>2. \A i \in 1..N : b[i] \in DOMAIN T
      BY <1>1
    <3>3. \A i \in 1..N : l[b[i]] \in Nat
      BY <3>1, <3>2
    <3>4. \A i \in 1..N : 1 < i => l[t] < l[b[i]]
      BY <1>1 DEF OnThePath
    <3>5. l[x] \in Nat /\ l[t] \in Nat
      BY <1>1, <2>1, <3>1
    <3> HIDE DEF l
    <3>6. ASSUME NEW i \in 1..N PROVE l[x] < l[b[i]]
      <4>1. i = 1 \/ 1 < i
        BY <1>1
      <4>2. CASE i = 1
        BY <2>1, <4>2
      <4>3. CASE 1 < i
        BY <2>1, <3>3, <3>4, <3>5, <4>3
      <4> QED
        BY <4>1, <4>2, <4>3
    <3> QED
      BY <3>2, <3>3, <3>5, <3>6
  <2>6. x \notin PS!ToSet(b)
    <3>1. ASSUME x \in PS!ToSet(b) PROVE FALSE
      <4>1. PICK i \in 1..N : x = b[i]
        BY <1>1, <3>1 DEF PS!ToSet
      <4>2. l[x] < l[x] /\ l[x] \in Nat
        BY <2>5, <4>1
      <4> HIDE DEF l
      <4> QED
        BY <4>2
    <3> QED
      BY <3>1
  <2>7. Cardinality(PS!ToSet(r)) = N + 1
    <3> DEFINE A == PS!ToSet(b)
    <3>1. A \subseteq DOMAIN T
      BY <1>1, <2>5 DEF PS!ToSet
    <3>2. IsFiniteSet(A) /\ x \notin A /\ Cardinality(A) = N
      BY <1>1, <2>6, <3>1, TasksAreFinite, FS_Subset
    <3> HIDE DEF A
    <3>3. Cardinality(A \cup {x}) = Cardinality(A) + 1
      BY <3>2, FS_AddElement
    <3> QED
      BY <2>4, <3>2, <3>3 DEF A
  <2>8. r[N + 1] = b[N]
    BY <1>1, <2>4
  <2>9. ASSUME NEW i \in 1..N
        PROVE  r[i] \in OthersOf(T, r[i + 1]) /\ l[r[i + 1]] = l[r[i]] + Weight(r[i + 1])
    <3>1. r[i + 1] = b[i]
      BY <2>4
    <3>2. CASE i = 1
      BY <2>1, <2>4, <3>1, <3>2
    <3>3. CASE i # 1
      <4>1. i - 1 \in 1..(N - 1) /\ (i - 1) + 1 = i /\ i \in 2..(N + 1)
        BY <1>1, <3>3
      <4>2. r[i] = b[i - 1]
        BY <2>4, <4>1
      <4> QED
        BY <3>1, <4>1, <4>2 DEF OnThePath
    <3> QED
      BY <3>2, <3>3
  <2>10. ASSUME NEW i \in 1..(N + 1), NEW j \in 1..(N + 1), i < j PROVE l[r[i]] < l[r[j]]
    <3>1. j \in 2..(N + 1) /\ j - 1 \in 1..N /\ r[j] = b[j - 1]
      <4>1. j \in 2..(N + 1) /\ j - 1 \in 1..N
        BY <1>1, <2>10
      <4> QED
        BY <2>4, <4>1
    <3>2. CASE i = 1
      BY <2>4, <2>5, <3>1, <3>2
    <3>3. CASE i # 1
      <4>1. i \in 2..(N + 1) /\ i - 1 \in 1..N /\ i - 1 < j - 1
        BY <1>1, <2>10, <3>3
      <4>2. r[i] = b[i - 1]
        BY <2>4, <4>1
      <4> QED
        BY <3>1, <4>1, <4>2 DEF OnThePath
    <3> QED
      BY <3>2, <3>3
  <2>11. OnThePath(T, r)
    BY <1>1, <2>4, <2>7, <2>8, <2>9, <2>10 DEF OnThePath
  <2> QED
    BY <1>1, <1>3, <2>2, <2>4, <2>11
<1> QED
  BY <1>2, <1>3

LEMMA BackStepwise ==
  ASSUME StewardIsGiven, NEW T, DOMAIN T \subseteq PS!Recs, DOMAIN T # {}, PS!Circular(T) = {}
  PROVE  /\ Back(T)[0] = <<EndOf(T)>>
         /\ \A n \in 1..NRecs : Back(T)[n] = Backward(T, Back(T)[n - 1])
         /\ \A n \in 0..NRecs : OnThePath(T, Back(T)[n])
         /\ PS!Path(T) = Back(T)[NRecs]
<1> DEFINE S == {b \in Seq(DOMAIN T) : OnThePath(T, b)}
           g == [p \in (1..NRecs) \X S |-> Backward(T, p[2])]
           e == EndOf(T)
           L == Back(T)
<1>0. NRecs \in Nat
  BY DEF StewardIsGiven
<1>1. <<e>> \in S
  <2>1. e \in DOMAIN T
    BY EndIsLongest
  <2> HIDE DEF e
  <2>2. <<e>> \in Seq(DOMAIN T) /\ Len(<<e>>) = 1 /\ <<e>>[1] = e /\ DOMAIN <<e>> = {1}
    BY <2>1
  <2>3. PS!ToSet(<<e>>) = {e}
    BY <2>2 DEF PS!ToSet
  <2>4. Cardinality({e}) = 1
    BY FS_Singleton
  <2>5. 1..(Len(<<e>>) - 1) = {} /\ \A i, j \in 1..Len(<<e>>) : ~ (i < j)
    BY <2>2
  <2>6. OnThePath(T, <<e>>)
    BY <2>2, <2>3, <2>4, <2>5 DEF OnThePath, e
  <2> QED
    BY <2>2, <2>6
<1>2. \A b \in S : Backward(T, b) \in S
  <2>1. ASSUME NEW b \in S PROVE Backward(T, b) \in S
    <3>1. OnThePath(T, Backward(T, b))
      BY BackwardOnThePath
    <3> QED
      BY <3>1 DEF OnThePath
  <2> QED
    BY <2>1
<1>3. \A b \in S : OnThePath(T, b)
  OBVIOUS
<1> HIDE DEF S
<1>4. \A n \in 1..NRecs : \A b \in S : g[<<n, b>>] = Backward(T, b) /\ g[<<n, b>>] \in S
  BY <1>2
<1> HIDE DEF g
<1>5. PICK f : /\ f = [n \in 0..NRecs |-> IF n = 0 THEN <<e>> ELSE g[<<n, f[n - 1]>>]]
               /\ \A n \in 0..NRecs : f[n] \in S
  <2>1. PICK f : Solves(f, NRecs, <<e>>, g) /\ \A n \in 0..NRecs : f[n] \in S
    BY <1>0, <1>1, <1>4, RecursionSolved
  <2> QED
    BY <2>1 DEF Solves
<1>6. ASSUME NEW n \in 0..NRecs, n # 0 PROVE g[<<n, f[n - 1]>>] = Backward(T, f[n - 1])
  <2>1. n - 1 \in 0..NRecs /\ n \in 1..NRecs
    BY <1>0, <1>6
  <2> QED
    BY <1>4, <1>5, <2>1
<1>7. f = [n \in 0..NRecs |-> IF n = 0 THEN <<e>> ELSE Backward(T, f[n - 1])]
  BY <1>5, <1>6
<1>8. L = [n \in 0..NRecs |-> IF n = 0 THEN <<e>> ELSE Backward(T, L[n - 1])]
  BY <1>7 DEF Back, e
<1>9. PS!Path(T) = L[NRecs]
  <2>1. PS!PathHours(T) # 0
    BY EndIsLongest
  <2> QED
    BY <2>1 DEF PS!Path, Back, Backward, FirstOfLongest, EndOf
<1> HIDE DEF L
<1>10. \A n \in 0..NRecs : L[n] = f[n]
  <2> DEFINE K == {n \in 0..NRecs : L[n] = f[n]}
  <2>1. 0 \in K
    BY <1>0, <1>7, <1>8
  <2>2. ASSUME NEW n \in 1..NRecs, n - 1 \in K PROVE n \in K
    <3>1. n \in 0..NRecs /\ n # 0 /\ L[n - 1] = f[n - 1]
      BY <2>2
    <3> QED
      BY <1>7, <1>8, <3>1
  <2>3. 0..NRecs \subseteq K
    <3> HIDE DEF K
    <3> QED
      BY <1>0, <2>1, <2>2, AllReached
  <2> QED
    BY <2>3
<1>11. 0 \in 0..NRecs /\ \A n \in 1..NRecs : n \in 0..NRecs /\ n # 0
  BY <1>0
<1>12. L[0] = <<e>> /\ \A n \in 1..NRecs : L[n] = Backward(T, L[n - 1])
  BY <1>8, <1>11
<1>13. \A n \in 0..NRecs : OnThePath(T, L[n])
  BY <1>3, <1>5, <1>10
<1> QED
  BY <1>9, <1>12, <1>13 DEF L, e

(* The path starts where nothing comes before: it cannot have more tasks     *)
(* than there are.                                                          *)
LEMMA PathIsComplete ==
  ASSUME StewardIsGiven, NEW T, DOMAIN T \subseteq PS!Recs, DOMAIN T # {}, PS!Circular(T) = {}
  PROVE  OnThePath(T, PS!Path(T)) /\ OthersOf(T, PS!Path(T)[1]) = {}
<1> DEFINE L == Back(T)
           K == {n \in 0..NRecs : Len(L[n]) = n + 1 \/ OthersOf(T, L[n][1]) = {}}
<1>0. NRecs \in Nat /\ 0 \in 0..NRecs /\ NRecs \in 0..NRecs
  BY DEF StewardIsGiven
<1>1. /\ L[0] = <<EndOf(T)>>
      /\ \A n \in 1..NRecs : L[n] = Backward(T, L[n - 1])
      /\ \A n \in 0..NRecs : OnThePath(T, L[n])
      /\ PS!Path(T) = L[NRecs]
  BY BackStepwise
<1> HIDE DEF L
<1>2. 0 \in K
  BY <1>0, <1>1
<1>3. ASSUME NEW n \in 1..NRecs, n - 1 \in K PROVE n \in K
  <2> DEFINE b == L[n - 1]
  <2>1. /\ n - 1 \in 0..NRecs /\ n \in 0..NRecs /\ OnThePath(T, b) /\ L[n] = Backward(T, b)
        /\ Len(b) = (n - 1) + 1 \/ OthersOf(T, b[1]) = {}
    BY <1>1, <1>3
  <2> HIDE DEF b
  <2>2. CASE OthersOf(T, b[1]) = {}
    <3>1. L[n] = b
      BY <2>1, <2>2, BackwardOnThePath
    <3> QED
      BY <2>1, <2>2, <3>1
  <2>3. CASE OthersOf(T, b[1]) # {}
    <3>1. Len(L[n]) = Len(b) + 1 /\ Len(b) = n
      BY <2>1, <2>3, BackwardOnThePath
    <3> QED
      BY <2>1, <3>1
  <2> QED
    BY <2>2, <2>3
<1>4. 0..NRecs \subseteq K
  <2> HIDE DEF K
  <2> QED
    BY <1>0, <1>2, <1>3, AllReached
<1> DEFINE p == L[NRecs]
<1>5. OnThePath(T, p) /\ (Len(p) = NRecs + 1 \/ OthersOf(T, p[1]) = {})
  BY <1>0, <1>1, <1>4
<1> HIDE DEF p
<1>6. Len(p) \in Nat /\ Len(p) <= Cardinality(DOMAIN T)
  <2>1. PS!ToSet(p) \subseteq DOMAIN T /\ Cardinality(PS!ToSet(p)) = Len(p) /\ Len(p) \in Nat
    BY <1>5 DEF OnThePath, PS!ToSet
  <2> QED
    BY <2>1, TasksAreFinite, FS_Subset
<1>7. Len(p) # NRecs + 1
  BY <1>0, <1>6, TasksAreFinite
<1> QED
  BY <1>1, <1>5, <1>7 DEF p

LEMMA PathIsChain ==
  ASSUME StewardIsGiven, NEW T, DOMAIN T \subseteq PS!Recs, DOMAIN T # {}, PS!Circular(T) = {}
  PROVE  PS!Path(T) \in PS!ChainsOf(T)
<1> DEFINE p == PS!Path(T)
           n == Len(p)
<1>1. OnThePath(T, p)
  BY PathIsComplete
<1> HIDE DEF p
<1>2. /\ p \in Seq(DOMAIN T) /\ n \in Nat /\ n >= 1 /\ Cardinality(PS!ToSet(p)) = n /\ DOMAIN p = 1..n
      /\ p \in [1..n -> DOMAIN T]
  BY <1>1 DEF OnThePath
<1>3. n <= PS!Cardinality(DOMAIN T) /\ PS!Cardinality(DOMAIN T) \in Nat
  <2>1. PS!ToSet(p) \subseteq DOMAIN T
    BY <1>2 DEF PS!ToSet
  <2>2. n <= Cardinality(DOMAIN T) /\ Cardinality(DOMAIN T) \in Nat
    BY <1>2, <2>1, TasksAreFinite, FS_Subset
  <2>3. PS!Cardinality(DOMAIN T) = Cardinality(DOMAIN T)
    BY DEF PS!Cardinality, Cardinality, PS!IsFiniteSet, IsFiniteSet
  <2> QED
    BY <2>2, <2>3
<1> HIDE DEF n
<1>4. n \in 1..PS!Cardinality(DOMAIN T)
  BY <1>2, <1>3
<1>5. p \in UNION {[1..k -> DOMAIN T] : k \in 1..PS!Cardinality(DOMAIN T)}
  BY <1>2, <1>4
<1>6. \A i \in 1..(Len(p) - 1) : p[i] \in T[p[i + 1]].deps
  BY <1>1 DEF OnThePath, OthersOf, PS!Needs
<1>7. ASSUME NEW i \in DOMAIN p, NEW j \in DOMAIN p, p[i] = p[j] PROVE i = j
  <2> DEFINE l == PS!Longest(T)
  <2>1. i \in 1..n /\ j \in 1..n /\ p[i] \in DOMAIN T /\ l[p[i]] \in Nat
    BY <1>2, <1>7, LongestMeasures
  <2>2. i < j => l[p[i]] < l[p[j]]
    BY <1>1, <2>1 DEF OnThePath, n
  <2>3. j < i => l[p[j]] < l[p[i]]
    BY <1>1, <2>1 DEF OnThePath, n
  <2> HIDE DEF l
  <2> QED
    BY <1>2, <1>7, <2>1, <2>2, <2>3
<1> QED
  BY <1>5, <1>6, <1>7 DEF PS!ChainsOf, p

(* The hours of the path are the measure of its last task. *)
LEMMA PathHoursAre ==
  ASSUME StewardIsGiven, NEW T, DOMAIN T \subseteq PS!Recs, DOMAIN T # {}, PS!Circular(T) = {}
  PROVE  PS!HoursIn(PS!Path(T)) = PS!Longest(T)[EndOf(T)]
<1> DEFINE s == PS!Path(T)
           N == Len(s)
           l == PS!Longest(T)
           h == HoursTo(s)
           K == {n \in 0..N : n # 0 => h[n] = l[s[n]]}
<1>1. OnThePath(T, s) /\ OthersOf(T, s[1]) = {}
  BY PathIsComplete
<1>2. l \in [DOMAIN T -> Nat] /\ \A t \in DOMAIN T : Measured(T, l, t)
  BY LongestMeasures
<1> HIDE DEF s
<1>3. /\ s \in Seq(DOMAIN T) /\ N \in Nat /\ N >= 1 /\ s[N] = EndOf(T) /\ s \in Seq(PS!Recs)
      /\ \A i \in 1..N : s[i] \in DOMAIN T /\ s[i] \in PS!Recs
      /\ \A i \in 1..(N - 1) : l[s[i + 1]] = l[s[i]] + Weight(s[i + 1])
  BY <1>1 DEF OnThePath
<1>4. /\ h[0] = 0 /\ (\A i \in 1..N : h[i] = h[i - 1] + Weight(s[i])) /\ (\A i \in 0..N : h[i] \in Nat)
      /\ PS!HoursIn(s) = h[N]
  BY <1>3, HoursStepwise
<1> HIDE DEF l, h, N
<1>5. \A i \in 1..N : Weight(s[i]) \in Nat /\ l[s[i]] \in Nat
  BY <1>2, <1>3, WeightsCount
<1>6. 0 \in K
  BY <1>3
<1>7. ASSUME NEW n \in 1..N, n - 1 \in K PROVE n \in K
  <2>1. CASE n = 1
    <3>1. h[1] = Weight(s[1])
      BY <1>4, <1>5, <2>1
    <3>2. l[s[1]] = Weight(s[1])
      BY <1>1, <1>2, <1>3, <2>1 DEF Measured
    <3> QED
      BY <2>1, <3>1, <3>2
  <2>2. CASE n # 1
    <3>1. n - 1 \in 1..(N - 1) /\ n - 1 \in 0..N /\ (n - 1) + 1 = n /\ n - 1 # 0 /\ n \in 0..N
      BY <1>3, <2>2
    <3>2. h[n - 1] = l[s[n - 1]] /\ h[n] = h[n - 1] + Weight(s[n])
      BY <1>4, <1>7, <3>1
    <3>3. l[s[n]] = l[s[n - 1]] + Weight(s[n])
      BY <1>3, <3>1
    <3> QED
      BY <3>1, <3>2, <3>3
  <2> QED
    BY <2>1, <2>2
<1>8. 0..N \subseteq K
  <2> HIDE DEF K
  <2> QED
    BY <1>3, <1>6, <1>7, AllReached
<1>9. N \in 0..N /\ N # 0
  BY <1>3
<1>10. h[N] = l[s[N]]
  BY <1>8, <1>9
<1> QED
  BY <1>3, <1>4, <1>10 DEF l, s

(* What is concluded from the tasks that were read. *)
LEMMA ConclusionsFromTasks ==
  ASSUME StewardIsGiven, NEW T, DOMAIN T \subseteq PS!Recs, DOMAIN T # {}
  PROVE  /\ PS!Circular(T) # {} <=> \E S \in SUBSET DOMAIN T : OnCircle(T, S)
         /\ \A S \in SUBSET DOMAIN T : OnCircle(T, S) => S \subseteq PS!Circular(T)
         /\ PS!Circular(T) = {} => /\ PS!Path(T) \in PS!ChainsOf(T)
                                   /\ \A s \in PS!ChainsOf(T) : PS!HoursIn(s) <= PS!HoursIn(PS!Path(T))
<1>1. PS!Circular(T) \in SUBSET DOMAIN T
  BY DEF PS!Circular
<1>2. \A S \in SUBSET DOMAIN T : OnCircle(T, S) => S # {}
  BY DEF OnCircle
<1>3. ASSUME PS!Circular(T) = {}, NEW s \in PS!ChainsOf(T) PROVE PS!HoursIn(s) <= PS!HoursIn(PS!Path(T))
  <2> DEFINE l == PS!Longest(T)
             t == s[Len(s)]
  <2>1. Chained(T, s)
    BY ChainsAreChained
  <2>2. t \in DOMAIN T
    <3>1. s \in Seq(DOMAIN T) /\ Len(s) >= 1
      BY <2>1 DEF Chained
    <3> QED
      BY <3>1
  <2>3. PS!HoursIn(s) <= l[t]
    BY <1>3, <2>1, ChainsBounded
  <2>4. l[t] <= PS!PathHours(T) /\ l[EndOf(T)] = PS!PathHours(T) /\ EndOf(T) \in DOMAIN T
    BY <1>3, <2>2, EndIsLongest
  <2>5. PS!HoursIn(PS!Path(T)) = l[EndOf(T)]
    BY <1>3, PathHoursAre
  <2>6. l[t] \in Nat /\ l[EndOf(T)] \in Nat
    BY <1>3, <2>2, <2>4, LongestMeasures
  <2>7. PS!HoursIn(s) \in Nat
    <3>1. s \in Seq(PS!Recs)
      BY <2>1 DEF Chained
    <3>2. Len(s) \in 0..Len(s)
      BY <3>1
    <3> QED
      BY <3>1, <3>2, HoursStepwise
  <2> HIDE DEF l, t
  <2> QED
    BY <2>3, <2>4, <2>5, <2>6, <2>7
<1> QED
  BY <1>1, <1>2, <1>3, CirclesFound, PathIsChain

(* A read for a diagnosis has found a task. *)
ReadInv == reading.for = "ask" => DOMAIN reading.tasks # {}

LEMMA ScopeIsNotEmpty ==
  ASSUME StewardIsGiven, seen \subseteq PS!Recs, seen # {}
  PROVE  DOMAIN PS!Scope # {}
<1>1. seen \in SUBSET Nat
  BY DEF PS!Recs, StewardIsGiven
<1>2. PICK t \in seen : \A u \in seen : t <= u
  BY <1>1, LeastNat
<1>3. {u \in seen : u <= t} = {t}
  <2>1. ASSUME NEW u \in seen, u <= t PROVE u = t
    <3>1. u \in Nat /\ t \in Nat /\ t <= u
      BY <1>1, <1>2
    <3> QED
      BY <2>1, <3>1
  <2>2. t <= t
    BY <1>1
  <2> QED
    BY <2>1, <2>2
<1>4. PS!Cardinality({t}) = 1
  <2>1. Cardinality({t}) = 1
    BY FS_Singleton
  <2> QED
    BY <2>1 DEF PS!Cardinality, Cardinality, PS!IsFiniteSet, IsFiniteSet
<1>5. t \in PS!FirstOf(seen)
  <2>1. 1 <= Limit
    BY DEF StewardIsGiven
  <2> QED
    BY <1>3, <1>4, <2>1 DEF PS!FirstOf
<1> QED
  BY <1>5 DEF PS!Scope

LEMMA ReadStep ==
  ASSUME StewardIsGiven, StewardInv, ReadInv, [PS!NextSteward]_(PS!varsSteward)
  PROVE  ReadInv'
<1>1. ASSUME NEW what \in {"ask", "look", "plan"}, PS!BeginRead(what) PROVE ReadInv'
  <2>1. reading'.tasks = PS!Scope /\ seen # {} /\ seen \subseteq PS!Recs
    BY <1>1 DEF PS!BeginRead, StewardInv, TasksKnown
  <2> QED
    BY <2>1, ScopeIsNotEmpty DEF ReadInv
<1>2. ASSUME reading' = PS!NoRead PROVE ReadInv'
  BY <1>2 DEF ReadInv, PS!NoRead
<1>3. ASSUME UNCHANGED reading PROVE ReadInv'
  BY <1>3 DEF ReadInv
<1>4. \/ \E what \in {"ask", "look", "plan"} : PS!BeginRead(what)
      \/ reading' = PS!NoRead \/ UNCHANGED reading
  BY DEF PS!NextSteward, PS!varsSteward, PS!EndAsk, PS!EndLook, PS!Refuse, PS!Generate, PS!Propose, PS!Edit,
         PS!ChangeScope
<1> QED
  BY <1>1, <1>2, <1>3, <1>4

LEMMA ReadsConclude ==
  ASSUME StewardIsGiven, StewardInv, ReadInv
  PROVE  PS!ConclusionsRight
<1> SUFFICES ASSUME reading.for = "ask" PROVE PS!ConclusionsRight
  BY DEF PS!ConclusionsRight
<1> DEFINE T == reading.tasks
           a == PS!Diagnose(T)
<1>1. DOMAIN T \subseteq PS!Recs /\ DOMAIN T # {}
  BY DEF StewardInv, TasksKnown, Numbered, ReadInv
<1>2. a.circular = PS!Circular(T) /\ a.path = PS!Path(T)
  BY DEF PS!Diagnose
<1> HIDE DEF T, a
<1>3. /\ PS!Circular(T) # {} <=> \E S \in SUBSET DOMAIN T : OnCircle(T, S)
      /\ \A S \in SUBSET DOMAIN T : OnCircle(T, S) => S \subseteq PS!Circular(T)
      /\ PS!Circular(T) = {} => /\ PS!Path(T) \in PS!ChainsOf(T)
                                /\ \A s \in PS!ChainsOf(T) : PS!HoursIn(s) <= PS!HoursIn(PS!Path(T))
  BY <1>1, ConclusionsFromTasks
<1>4. /\ a.circular # {} <=> \E S \in SUBSET DOMAIN T : S # {} /\ \A t \in S : (T[t].deps \cap S) \ {t} # {}
      /\ \A S \in SUBSET DOMAIN T : (S # {} /\ \A t \in S : (T[t].deps \cap S) \ {t} # {}) => S \subseteq a.circular
      /\ a.circular = {} => /\ a.path \in PS!ChainsOf(T)
                            /\ \A s \in PS!ChainsOf(T) : PS!HoursIn(s) <= PS!HoursIn(a.path)
  BY <1>2, <1>3 DEF OnCircle
<1>5. ASSUME NEW U \in {reading.tasks}, NEW c \in {PS!Diagnose(U)}
      PROVE  /\ c.circular # {} <=> \E S \in SUBSET DOMAIN U : S # {} /\ \A t \in S : (U[t].deps \cap S) \ {t} # {}
             /\ \A S \in SUBSET DOMAIN U : (S # {} /\ \A t \in S : (U[t].deps \cap S) \ {t} # {}) => S \subseteq c.circular
             /\ c.circular = {} => /\ c.path \in PS!ChainsOf(U)
                                   /\ \A s \in PS!ChainsOf(U) : PS!HoursIn(s) <= PS!HoursIn(c.path)
  <2>1. U = T /\ c = a
    BY DEF T, a
  <2> QED
    BY <1>4, <2>1
<1> QED
  BY <1>5, Zenon DEF PS!ConclusionsRight

(* For any number of tasks, whatever their dependencies: the diagnosis that  *)
(* the steward makes of the tasks it read (_diagnose, with _topology and     *)
(* _critical_path) reports a circle when and only when there is one, with    *)
(* every task on it; otherwise its path is a chain of dependencies, and no   *)
(* chain takes longer.                                                      *)
THEOREM DiagnosesConcludeRightly ==
  StewardIsGiven => (PS!SpecSteward => []PS!ConclusionsRight)
<1> SUFFICES ASSUME StewardIsGiven PROVE PS!SpecSteward => []PS!ConclusionsRight
  OBVIOUS
<1>1. PS!InitSteward => StewardInv /\ ReadInv
  <2>1. PS!InitSteward => reading.for = "nothing"
    BY DEF PS!InitSteward, PS!NoRead
  <2> QED
    BY <2>1, StewardInit DEF ReadInv
<1>2. StewardInv /\ ReadInv /\ [PS!NextSteward]_(PS!varsSteward) => (StewardInv /\ ReadInv)'
  BY StewardStep, ReadStep
<1>3. StewardInv /\ ReadInv => PS!ConclusionsRight
  BY ReadsConclude
<1> QED
  BY <1>1, <1>2, <1>3, PTL DEF PS!SpecSteward
=============================================================================
