---------------------------- MODULE RecentTargets ---------------------------
(* The list of what one user opened last (my_work_recent_targets). Several *)
(* tabs record visits at the same time; an import brings the history a     *)
(* browser has kept. Each request reads, writes and prunes in one          *)
(* transaction that does not see the others until they commit.             *)
EXTENDS Integers, FiniteSets

CONSTANTS
    Targets,         \* target keys: tables, dashboards and records
    Times,           \* visitedAt, up to the clock of the server
    Visitors,        \* requests that run at a time
    Retention,       \* RECENT_RETENTION
    MaxVisits        \* bound on the requests of a history

VARIABLES
    visited,         \* the time of each stored target, 0 when it is not stored
    access,          \* the targets that exist and the user may read
    visiting,        \* what each request will write and delete
    visits

varsRecent == <<visited, access, visiting, visits>>

NotVisiting == [puts |-> {}, prunes |-> {}]
Stored == {k \in Targets : visited[k] > 0}

InitRecent ==
    /\ visited = [k \in Targets |-> 0]
    /\ access = Targets
    /\ visiting = [v \in Visitors |-> NotVisiting]
    /\ visits = 0

(* Rights are lost and regained, targets deleted and restored. *)
ChangeAccess(k) ==
    /\ access' = IF k \in access THEN access \ {k} ELSE access \cup {k}
    /\ UNCHANGED <<visited, visiting, visits>>

(* The time a stored target gets: never an earlier one than was read. *)
NewTime(k, at) == IF visited[k] > at THEN visited[k] ELSE at

(* _prune_recent_targets: all but the Retention latest rows go; rows of    *)
(* one time are taken in any order.                                        *)
Prunes(after) ==
    LET rows == {k \in Targets : after[k] > 0}
    IN  {S \in SUBSET rows :
           /\ Cardinality(rows \ S) = (IF Cardinality(rows) < Retention
                                       THEN Cardinality(rows) ELSE Retention)
           /\ \A s \in S, k \in rows \ S : after[s] <= after[k]}

(* The targets the user may read are stored, the others refused. *)
BeginVisits(v, at) ==
    LET keys == DOMAIN at \cap access
        after == [k \in Targets |-> IF k \in keys THEN NewTime(k, at[k]) ELSE visited[k]]
    IN  /\ visiting[v] = NotVisiting /\ visits < MaxVisits /\ keys # {}
        /\ \E stale \in Prunes(after) :
             visiting' = [visiting EXCEPT ![v] =
                [puts |-> {<<k, after[k], visited[k]>> : k \in keys}, prunes |-> stale]]
        /\ visits' = visits + 1
        /\ UNCHANGED <<visited, access>>

UpsertTarget(v, k, t) == BeginVisits(v, [x \in {k} |-> t])
ImportTargets(v, at) == Cardinality(DOMAIN at) > 1 /\ BeginVisits(v, at)

(* A row inserted or deleted meanwhile makes the transaction fail. *)
CommitVisits(v) ==
    LET e == visiting[v]
        put(k) == {p \in e.puts : p[1] = k}
    IN  /\ e # NotVisiting
        /\ \A p \in e.puts : (visited[p[1]] = 0) <=> (p[3] = 0)
        /\ visited' = [k \in Targets |->
              IF k \in e.prunes THEN 0
              ELSE IF put(k) # {} THEN (CHOOSE p \in put(k) : TRUE)[2] ELSE visited[k]]
        /\ visiting' = [visiting EXCEPT ![v] = NotVisiting]
        /\ UNCHANGED <<access, visits>>

FailVisits(v) ==
    /\ visiting[v] # NotVisiting
    /\ visiting' = [visiting EXCEPT ![v] = NotVisiting]
    /\ UNCHANGED <<visited, access, visits>>

(* remove_recent_target *)
RemoveVisit(k) ==
    /\ visited[k] > 0
    /\ visited' = [visited EXCEPT ![k] = 0]
    /\ UNCHANGED <<access, visiting, visits>>

NextRecent ==
    \/ \E k \in Targets : ChangeAccess(k) \/ RemoveVisit(k)
    \/ \E v \in Visitors : CommitVisits(v) \/ FailVisits(v)
    \/ \E v \in Visitors, k \in Targets, t \in Times : UpsertTarget(v, k, t)
    \/ \E v \in Visitors, keys \in SUBSET Targets : \E at \in [keys -> Times] : ImportTargets(v, at)

SpecRecent == InitRecent /\ [][NextRecent]_varsRecent

-----------------------------------------------------------------------------
(* The variables have values of their types. *)
TypeOKRecent ==
    /\ visited \in [Targets -> Times \cup {0}]
    /\ access \subseteq Targets
    /\ \A v \in Visitors : visiting[v].prunes \subseteq Targets

(* The list stays bounded although each request prunes by what it sees: n  *)
(* requests that run at a time leave at most n times the retention.        *)
RecentsBounded == Cardinality(Stored) <= Retention * Cardinality(Visitors)
=============================================================================
