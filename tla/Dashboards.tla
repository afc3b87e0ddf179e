----------------------------- MODULE Dashboards -----------------------------
(* One widget of a dashboard over one source table: its data computed for  *)
(* a user (or, through the public token, as its publisher) under the row   *)
(* permissions of that user, cached in Redis or, while Redis is away, in   *)
(* the process, and invalidated by the writers of the table and the        *)
(* widget. A widget's data stands for the set of rows it aggregates.       *)
EXTENDS Integers, FiniteSets

CONSTANTS
    Rows,            \* record ids of the source table
    CreatedBy,       \* created_by_user_id of each record
    Users,           \* users
    Nobody,          \* no user: the anonymous visitor, no publisher
    Configs,         \* values a widget's filters let pass
    Bad,             \* a legacy value that SQL cannot cast
    Values,          \* cell values, Bad among them
    Ttl,             \* DashboardCacheTTL.WIDGET_DATA in ticks; Redis is avoided for one
    MaxNow,          \* bound on the clock
    MaxWrites        \* bound on the changes of rows, permissions, widget and publication

VARIABLES
    data,            \* value of each record
    policy,          \* mode of the table's row permissions
    perm,            \* effective permission of each user on the source table
    widget,          \* "draft", or the values its filters let pass
    public,          \* Dashboard.is_public
    publisher,       \* Dashboard.published_by_user_id
    publishing,      \* publication changes between their two commits
    redisUp, client, avoid,   \* Redis; the kept connection; _redis_disabled_until
    remote, local,   \* cache entries by key
    now, writes,
    req,             \* the request of each visitor
    pending,         \* committed writes whose invalidation is still to come
    lately,          \* ghost: contents of the table in the last Ttl ticks
    disturbed        \* ghost: an invalidation was missed, raced or met an outage

varsDash == <<data, policy, perm, widget, public, publisher, publishing, redisUp, client, avoid,
              remote, local, now, writes, req, pending, lately, disturbed>>
cacheVars == <<client, avoid, remote, local>>
metaVars == <<widget, public, publisher, publishing>>

Visitors == Users \cup {Nobody}
Draft == {Bad}                      \* no source table selected yet
NoEntry == [rows |-> {}, exp |-> 0]
Idle == [phase |-> "idle", as |-> Nobody, key |-> Draft, scope |-> Rows, own |-> FALSE,
         rows |-> {}, age |-> 0]

InitDash ==
    /\ data \in {[r \in Rows |-> v] : v \in Values \ {Bad}}
    /\ policy \in {"all", "creator"}
    /\ perm \in [Users -> {"manage", "read"}]
    /\ widget \in Configs \cup {Draft}
    /\ public = FALSE /\ publisher = Nobody /\ publishing = {}
    /\ redisUp = TRUE /\ client = FALSE /\ avoid = 0
    /\ remote = [k \in Configs |-> NoEntry] /\ local = remote
    /\ now = 1 /\ writes = 0
    /\ req = [v \in Visitors |-> Idle]
    /\ pending = 0
    /\ lately = {[at |-> now, data |-> data]}
    /\ disturbed = FALSE

-----------------------------------------------------------------------------
(* Row permissions *)

Restricts(u) == policy # "all" /\ perm[u] # "manage"
VisibleTo(u) == IF Restricts(u) THEN {r \in Rows : CreatedBy[r] = u} ELSE Rows

(* The filters of a widget, of a request, or of both. *)
Meets(value, key) == value \in key

(* The rows that pass a filter, with the values that are aggregated. *)
Passing(d, key, scope) == {<<r, d[r]>> : r \in {x \in scope : Meets(d[x], key)}}

(* The same from the rows a user may read, where the database gave up. *)
PassingRecords(u, key) == {<<r, data[r]>> : r \in {x \in VisibleTo(u) : Meets(data[x], key)}}

-----------------------------------------------------------------------------
(* DashboardCache: _get_client, get, set, delete_pattern *)

UsesRemote == client \/ (now >= avoid /\ redisUp)
TriesInVain == ~ client /\ now >= avoid /\ ~ redisUp

Connected ==
    /\ client' = UsesRemote
    /\ avoid' = IF TriesInVain THEN now + 1 ELSE avoid
Disconnected == client' = FALSE /\ avoid' = now + 1

(* An entry is dropped when its time is over. *)
Alive(entry) == entry.exp > now
Found(k) == LET e == (IF UsesRemote THEN remote ELSE local)[k] IN e # NoEntry /\ Alive(e)

Stored(rows) == [rows |-> rows, exp |-> now + Ttl]

(* delete_pattern: a failing Redis is ignored and stays in use. *)
DeleteAll ==
    /\ Connected
    /\ IF UsesRemote
       THEN /\ remote' = IF redisUp THEN [k \in Configs |-> NoEntry] ELSE remote
            /\ UNCHANGED local
       ELSE /\ local' = [k \in Configs |-> NoEntry]
            /\ UNCHANGED remote

(* A request that has read the table and not yet stored what it computed. *)
HoldsOldRows == \E v \in Visitors : req[v].phase = "computed"
Disturbs == disturbed \/ HoldsOldRows \/ ~ redisUp \/ ~ UsesRemote

-----------------------------------------------------------------------------
(* Writers of the source table *)

Write(r, v) ==
    /\ writes < MaxWrites /\ data[r] # v
    /\ data' = [data EXCEPT ![r] = v]
    /\ writes' = writes + 1
    /\ lately' = lately \cup {[at |-> now, data |-> data']}

(* The record mutations of the API commit, then publish_table_update.      *)
WriteRecord(r, v) ==
    /\ Write(r, v)
    /\ pending' = pending + 1
    /\ UNCHANGED <<policy, perm, redisUp, now, req, disturbed, metaVars, cacheVars>>

(* Automations, accepted plans, tool chains and the clipper tell nobody.   *)
WriteQuietly(r, v) ==
    /\ Write(r, v)
    /\ disturbed' = TRUE
    /\ UNCHANGED <<policy, perm, redisUp, now, req, pending, metaVars, cacheVars>>

PublishTableUpdate ==
    /\ pending > 0
    /\ pending' = pending - 1
    /\ DeleteAll
    /\ disturbed' = Disturbs
    /\ UNCHANGED <<data, policy, perm, redisUp, now, writes, req, lately, metaVars>>

(* update_row_permission_policy and the permissions of the workspace.      *)
SetPolicy(m) ==
    /\ policy # m /\ writes < MaxWrites
    /\ policy' = m /\ writes' = writes + 1
    /\ pending' = pending + 1
    /\ UNCHANGED <<data, perm, redisUp, now, req, lately, disturbed, metaVars, cacheVars>>

SetPermission(u, p) ==
    /\ perm[u] # p /\ writes < MaxWrites
    /\ perm' = [perm EXCEPT ![u] = p] /\ writes' = writes + 1
    /\ UNCHANGED <<data, policy, redisUp, now, req, pending, lately, disturbed, metaVars, cacheVars>>

-----------------------------------------------------------------------------
(* validate_widget_candidate: a table and a metric are chosen. *)
Complete(c) == c # Draft

(* update_dashboard_widget: a complete configuration replaces the old one, *)
(* and the cached data of the widget is dropped; the editor must be able   *)
(* to read the table.                                                      *)
UpdateWidget(c) ==
    /\ widget # c /\ writes < MaxWrites /\ \E u \in Users : perm[u] # "none"
    /\ widget' = c /\ writes' = writes + 1
    /\ DeleteAll
    /\ disturbed' = Disturbs
    /\ UNCHANGED <<data, policy, perm, public, publisher, publishing, redisUp, now, req, pending, lately>>

(* A manager of the dashboard publishes (every widget must be complete and *)
(* its table readable) or withdraws: the flag is committed, and after it,  *)
(* in a transaction of its own, the publisher; then every cached widget is *)
(* dropped.                                                                *)
SetPublic(u, on) ==
    /\ publishing = {}
    /\ public # on /\ writes < MaxWrites /\ writes' = writes + 1
    /\ on => Complete(widget) /\ perm[u] # "none"
    /\ public' = on
    /\ publishing' = {[by |-> u, on |-> on]}
    /\ UNCHANGED <<data, policy, perm, widget, publisher, redisUp, now, req, pending, lately, disturbed, cacheVars>>

SetPublisher(p) ==
    /\ p \in publishing
    /\ publishing' = publishing \ {p}
    /\ publisher' = IF p.on THEN p.by ELSE Nobody
    /\ DeleteAll
    /\ disturbed' = Disturbs
    /\ UNCHANGED <<data, policy, perm, widget, public, redisUp, now, writes, req, pending, lately>>

-----------------------------------------------------------------------------
(* A request: whose rows it may use ... *)

Actor(v) == IF v = Nobody THEN publisher ELSE v

(* _public_dashboard_by_token; the public page adds no filters. *)
OpenToAll(f) == public /\ publisher # Nobody /\ f = widget

(* compute_widget_data_with_runtime_filters and public_widget_data: the    *)
(* widget, the permission and the policy are read, and for a restricted    *)
(* user the record ids; filters of the request narrow those of the widget. *)
Begin(v, f) ==
    /\ req[v] = Idle
    /\ Complete(widget) /\ f \subseteq widget
    /\ v = Nobody => OpenToAll(f)
    /\ perm[Actor(v)] # "none"
    /\ req' = [req EXCEPT ![v] = [Idle EXCEPT !.phase = "checked", !.as = Actor(v), !.key = f,
                                              !.scope = VisibleTo(Actor(v)),
                                              !.own = Restricts(Actor(v))]]
    /\ UNCHANGED <<data, policy, perm, redisUp, now, writes, pending, lately, disturbed, metaVars, cacheVars>>

Answered(v, rows) == [req EXCEPT ![v].phase = "done", ![v].rows = rows]

(* ... only data that is the same for everyone comes from the cache (a     *)
(* widget over a relation field, left out here, never does) ...            *)
LooksUp(v) == req[v].phase = "checked" /\ ~ req[v].own

Lookup(v) ==
    /\ LooksUp(v)
    /\ IF UsesRemote /\ ~ redisUp
       THEN Disconnected /\ req' = [req EXCEPT ![v].phase = "missed"]
       ELSE /\ Connected
            /\ req' = IF Found(req[v].key)
                      THEN Answered(v, (IF UsesRemote THEN remote ELSE local)[req[v].key].rows)
                      ELSE [req EXCEPT ![v].phase = "missed"]
    /\ UNCHANGED <<data, policy, perm, redisUp, now, writes, remote, local, pending, lately, disturbed, metaVars>>

(* ... the rest is aggregated by the database ... *)
Compute(v) ==
    /\ req[v].phase = IF req[v].own THEN "checked" ELSE "missed"
    /\ \A r \in req[v].scope : data[r] # Bad
    /\ LET rows == Passing(data, req[v].key, req[v].scope)
       IN  req' = IF req[v].own THEN Answered(v, rows)
                                ELSE [req EXCEPT ![v].phase = "computed", ![v].rows = rows]
    /\ UNCHANGED <<data, policy, perm, redisUp, now, writes, pending, lately, disturbed, metaVars, cacheVars>>

(* ... or, after a value that cannot be cast, from the rows the user may   *)
(* read, which is checked again; the public page shows an error instead.   *)
ComputeFails(v) ==
    /\ req[v].phase = IF req[v].own THEN "checked" ELSE "missed"
    /\ \E r \in req[v].scope : data[r] = Bad
    /\ req' = IF v = Nobody \/ perm[v] = "none"
              THEN [req EXCEPT ![v] = Idle]
              ELSE [req EXCEPT ![v] = [@ EXCEPT !.phase = "done", !.own = Restricts(v),
                                                !.rows = PassingRecords(v, req[v].key)]]
    /\ UNCHANGED <<data, policy, perm, redisUp, now, writes, pending, lately, disturbed, metaVars, cacheVars>>

(* ... and stored; when Redis fails here the process keeps it. *)
Store(v) ==
    /\ req[v].phase = "computed"
    /\ LET k == req[v].key
           fails == UsesRemote /\ ~ redisUp
       IN  /\ IF fails THEN Disconnected ELSE Connected
           /\ remote' = IF UsesRemote /\ redisUp THEN [remote EXCEPT ![k] = Stored(req[v].rows)] ELSE remote
           /\ local' = IF fails \/ ~ UsesRemote THEN [local EXCEPT ![k] = Stored(req[v].rows)] ELSE local
    /\ req' = Answered(v, req[v].rows)
    /\ UNCHANGED <<data, policy, perm, redisUp, now, writes, pending, lately, disturbed, metaVars>>

Leave(v) ==
    /\ req[v].phase = "done"
    /\ req' = [req EXCEPT ![v] = Idle]
    /\ UNCHANGED <<data, policy, perm, redisUp, now, writes, pending, lately, disturbed, metaVars, cacheVars>>

-----------------------------------------------------------------------------

RedisFails ==
    /\ redisUp /\ ~ disturbed
    /\ redisUp' = FALSE /\ disturbed' = TRUE
    /\ UNCHANGED <<data, policy, perm, now, writes, req, pending, lately, metaVars, cacheVars>>

RedisReturns ==
    /\ ~ redisUp
    /\ redisUp' = TRUE
    /\ UNCHANGED <<data, policy, perm, now, writes, req, pending, lately, disturbed, metaVars, cacheVars>>

(* Time passes; a request lasts less than two ticks. *)
Tick ==
    /\ now < MaxNow
    /\ \A v \in Visitors : req[v].phase # "done" /\ req[v].age = 0
    /\ now' = now + 1
    /\ req' = [v \in Visitors |-> IF req[v] = Idle THEN Idle ELSE [req[v] EXCEPT !.age = 1]]
    /\ lately' = {x \in lately : x.at >= now' - Ttl} \cup {[at |-> now', data |-> data]}
    /\ UNCHANGED <<data, policy, perm, redisUp, writes, pending, disturbed, metaVars, cacheVars>>

NextDash ==
    \/ \E r \in Rows, v \in Values : WriteRecord(r, v) \/ WriteQuietly(r, v)
    \/ PublishTableUpdate \/ RedisFails \/ RedisReturns \/ Tick
    \/ \E m \in {"all", "creator"} : SetPolicy(m)
    \/ \E u \in Users : \/ \E p \in {"manage", "read", "none"} : SetPermission(u, p)
                        \/ \E on \in BOOLEAN : SetPublic(u, on)
    \/ \E c \in Configs : UpdateWidget(c)
    \/ \E p \in publishing : SetPublisher(p)
    \/ \E v \in Visitors :
         \/ \E f \in Configs : Begin(v, f)
         \/ Lookup(v) \/ Compute(v) \/ ComputeFails(v) \/ Store(v) \/ Leave(v)

SpecDash == InitDash /\ [][NextDash]_varsDash

-----------------------------------------------------------------------------

TypeOKDash ==
    /\ data \in [Rows -> Values] /\ policy \in {"all", "creator"}
    /\ perm \in [Users -> {"manage", "read", "none"}]
    /\ widget \in Configs \cup {Draft} /\ publisher \in Visitors
    /\ \A v \in Visitors : req[v].as \in Visitors /\ req[v].rows \subseteq Rows \X Values

(* Nobody is shown a number made of rows hidden from them, whatever was    *)
(* cached for others, through which token and after which failure: the     *)
(* answer to a restricted user (the publisher, for the public page) uses   *)
(* that user's records only.                                               *)
HiddenRowsStayHidden ==
    \A v \in Visitors :
        (req[v].phase = "done" /\ req[v].own) => \A x \in req[v].rows : CreatedBy[x[1]] = req[v].as

(* What an unrestricted user is shown is what the filters of the request   *)
(* select from the whole table as it was at most Ttl ticks ago, with any   *)
(* interleaving of writers and requests and with Redis coming and going.   *)
AnswersAreRecent ==
    \A v \in Visitors :
        (req[v].phase = "done" /\ ~ req[v].own) =>
            \E x \in lately : /\ x.at >= now - Ttl
                              /\ req[v].rows = Passing(x.data, req[v].key, Rows)

(* Between writes the cache tells the truth: when every writer has         *)
(* published, no request stored older rows over an invalidation and Redis  *)
(* answered, whatever is cached is what would be computed now.             *)
QuietCacheExact ==
    (~ disturbed /\ pending = 0) =>
        \A k \in Configs : (remote[k] # NoEntry /\ Alive(remote[k])) => remote[k].rows = Passing(data, k, Rows)
=============================================================================
