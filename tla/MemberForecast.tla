--------------------------- MODULE MemberForecast ---------------------------
(* The recommendation of assignees: the visible tasks are read, the        *)
(* selected ones go through the branches of _recommend in the order of     *)
(* their deadlines while the load of every member is projected, and the    *)
(* batch is stored; a what-if repeats the computation with other           *)
(* capacities on the tasks as they are then. (Accepting a batch is in      *)
(* PlanBatches.)                                                           *)
EXTENDS Integers, FiniteSets, FiniteSetsExt

CONSTANTS
    NTasks,          \* visible tasks, 1..NTasks in the order of their deadlines
    People,          \* workspace members, in the order of their names
    Gone,            \* an owner without access to the table
    Nobody,
    Hours,           \* p50 hours of each task
    Fit,             \* thousandths a member scores on a task for skills, role, history, dependencies
    Urgent,          \* tasks due within three days
    Capacities,      \* capacities a request may give a member
    MaxChanges       \* bound on the changes by others

VARIABLES
    owners,          \* the member cell of each task
    done,            \* tasks with a status that reads as done
    able,            \* members that can read the table
    ask,             \* the request that is computed
    todo,            \* selected tasks still to be planned
    load,            \* projected_load
    pick,            \* first recommendation of each task
    room,            \* least load at the time a task was recommended, by task
    base,            \* the stored batch: its request and first recommendations
    stage, changes

varsMembers == <<owners, done, able, ask, todo, load, pick, room, base, stage, changes>>

AllTasks == 1..NTasks
NoRequest == [sel |-> {}, keep |-> TRUE, lock |-> [t \in AllTasks |-> Nobody],
              profiled |-> {}, cap |-> [u \in People |-> 0]]

InitMembers ==
    /\ owners \in [AllTasks -> SUBSET (People \cup {Gone})]
    /\ done \in SUBSET AllTasks
    /\ able = People
    /\ ask = NoRequest
    /\ todo = {} /\ load = [u \in People |-> 0]
    /\ pick = [t \in AllTasks |-> Nobody] /\ room = [t \in AllTasks |-> [u \in People |-> 0]]
    /\ base = [ask |-> ask, pick |-> pick]
    /\ stage = "idle" /\ changes = 0

(* _context: open hours of each eligible member over all visible tasks. *)
HoursOf(f, u) == MapThenSumSet(LAMBDA t : Hours[t], {t \in AllTasks \ done : u \in f[t]})
CurrentLoad == [u \in People |-> IF u \in able THEN HoursOf(owners, u) ELSE 0]

(* _context and _eligible_members: profiles, capacities and locks name     *)
(* members that can read the table, and locks selected tasks.              *)
Acceptable(r) ==
    /\ r.sel # {} /\ able # {}
    /\ r.profiled \subseteq able
    /\ \A t \in AllTasks : r.lock[t] # Nobody => t \in r.sel /\ r.lock[t] \in able

StartPlanning(r) ==
    /\ Acceptable(r)
    /\ ask' = r
    /\ todo' = r.sel
    /\ load' = CurrentLoad
    /\ pick' = [t \in AllTasks |-> Nobody]
    /\ UNCHANGED <<owners, done, able, room, changes>>

Preview(r) ==
    /\ stage = "idle"
    /\ StartPlanning(r)
    /\ stage' = "planning"
    /\ UNCHANGED base

(* what_if: the stored request with capacities merged over. *)
WhatIf(u, c) ==
    /\ stage = "stored"
    /\ u \in able
    /\ StartPlanning([base.ask EXCEPT !.cap[u] = c])
    /\ stage' = "comparing"
    /\ UNCHANGED base

-----------------------------------------------------------------------------
Planning == stage \in {"planning", "comparing"} /\ todo # {}
Current == Min(todo)
Locked(t) == ask.lock[t]

(* Any assignee is preserved, one that has lost access too. *)
Kept(t) == ask.keep /\ owners[t] # {}

Continue ==
    /\ todo' = todo \ {Current}
    /\ UNCHANGED <<owners, done, able, ask, base, stage, changes>>

(* Nothing but the batch stays. *)
Settle(b) ==
    /\ base' = b
    /\ ask' = b.ask /\ pick' = b.pick
    /\ todo' = {} /\ load' = [u \in People |-> 0]
    /\ room' = [t \in AllTasks |-> [u \in People |-> 0]]
    /\ UNCHANGED <<owners, done, able, changes>>

(* A lock cannot overwrite an assignee that is to be preserved. *)
Refuse ==
    /\ Planning /\ Kept(Current) /\ Locked(Current) # Nobody /\ Locked(Current) \notin owners[Current]
    /\ stage' = IF stage = "planning" THEN "idle" ELSE "stored"
    /\ Settle(base)

MayPlan == Planning /\ ~ (Kept(Current) /\ Locked(Current) # Nobody /\ Locked(Current) \notin owners[Current])

SkipDone ==
    /\ MayPlan /\ Current \in done
    /\ Continue /\ UNCHANGED <<load, pick, room>>

KeepAssignee ==
    /\ MayPlan /\ Current \notin done /\ Kept(Current)
    /\ Continue /\ UNCHANGED <<load, pick, room>>

(* The previous owners give the task back. *)
Released(t) ==
    [u \in People |-> IF u \in owners[t] \cap able THEN Max({0, load[u] - Hours[t]}) ELSE load[u]]

Assign(t, u, l) ==
    /\ load' = [l EXCEPT ![u] = @ + Hours[t]]
    /\ pick' = [pick EXCEPT ![t] = u]
    /\ room' = [room EXCEPT ![t] = l]

ApplyLock ==
    /\ MayPlan /\ Current \notin done /\ ~ Kept(Current) /\ Locked(Current) # Nobody
    /\ Assign(Current, Locked(Current), Released(Current))
    /\ Continue

(* The score of a member in thousandths: the fit, up to 280 for headroom,  *)
(* less for hours above the capacity and for a deadline under high load.   *)
Score(t, u, l) ==
    LET c == ask.cap[u]
        over == l[u] + Hours[t] - c
        s == Fit[t][u] + Max({0, (280 * (c - l[u])) \div c})
             - (IF over > 0 THEN Min({350, 150 + (200 * over) \div c}) ELSE 0)
             - (IF t \in Urgent /\ 10 * l[u] >= 8 * c THEN 80 ELSE 0)
    IN  Max({0, Min({s, 1000})})

(* scored.sort: by score, then utilisation, then name *)
Better(t, l, u, w) ==
    \/ Score(t, u, l) > Score(t, w, l)
    \/ /\ Score(t, u, l) = Score(t, w, l)
       /\ LET a == (l[u] + Hours[t]) * ask.cap[w]
              b == (l[w] + Hours[t]) * ask.cap[u]
          IN  a < b \/ (a = b /\ u < w)

Recommend ==
    /\ MayPlan /\ Current \notin done /\ ~ Kept(Current) /\ Locked(Current) = Nobody
    /\ LET l == Released(Current)
           top == CHOOSE u \in able : \A w \in able \ {u} : Better(Current, l, u, w)
       IN  Assign(Current, top, l)
    /\ Continue

(* preview stores the batch; what_if compares and stores nothing. *)
Planned ==
    /\ stage = "planning" /\ todo = {}
    /\ stage' = "stored"
    /\ Settle([ask |-> ask, pick |-> pick])

Compared ==
    /\ stage = "comparing" /\ todo = {}
    /\ stage' = "stored"
    /\ Settle(base)

-----------------------------------------------------------------------------
(* What others do between the preview and a what-if. *)
Others(o, d, a) ==
    /\ stage = "stored" /\ changes < MaxChanges
    /\ owners' = o /\ done' = d /\ able' = a
    /\ changes' = changes + 1
    /\ UNCHANGED <<ask, todo, load, pick, room, base, stage>>

Reassigned == \E t \in AllTasks, u \in People : Others([owners EXCEPT ![t] = {u}], done, able)
Finished == \E t \in AllTasks \ done : Others(owners, done \cup {t}, able)
Left == \E u \in able : Others(owners, done, able \ {u})

Requests ==
    {[sel |-> s, keep |-> k, lock |-> [t \in AllTasks |-> IF t = x THEN w ELSE Nobody],
      profiled |-> p, cap |-> [u \in People |-> c]] :
        s \in SUBSET AllTasks, k \in BOOLEAN, x \in {1}, w \in People \cup {Nobody},
        p \in {{}, {Min(People)}}, c \in Capacities}

NextMembers ==
    \/ \E r \in Requests : Preview(r)
    \/ \E u \in People, c \in Capacities : WhatIf(u, c)
    \/ Refuse \/ SkipDone \/ KeepAssignee \/ ApplyLock \/ Recommend \/ Planned \/ Compared
    \/ Reassigned \/ Finished \/ Left

SpecMembers == InitMembers /\ [][NextMembers]_varsMembers

-----------------------------------------------------------------------------

TypeOKMembers ==
    /\ owners \in [AllTasks -> SUBSET (People \cup {Gone})] /\ done \subseteq AllTasks
    /\ able \subseteq People /\ todo \subseteq AllTasks
    /\ pick \in [AllTasks -> People \cup {Nobody}] /\ \A u \in People : load[u] >= 0
    /\ stage \in {"idle", "planning", "comparing", "stored"}

After(t) == IF pick[t] = Nobody THEN owners[t] ELSE {pick[t]}

(* The projected load of every member, and with it the list of overloaded  *)
(* ones, is what the member would really carry once every first            *)
(* recommendation is accepted: tasks given back by their owners, kept,     *)
(* locked, done and not selected all count once.                           *)
LoadsAddUp ==
    (stage \in {"planning", "comparing"} /\ todo = {}) =>
        \A u \in able : load[u] = HoursOf([t \in AllTasks |-> After(t)], u)

(* With preserve_existing_assignees no recommendation replaces somebody,   *)
(* a done task is never given to anyone, and a lock is never overruled.    *)
ManualChoicesKept ==
    \A t \in AllTasks :
        (stage = "planning" /\ t \in ask.sel \ todo) =>
            /\ ask.keep /\ owners[t] # {} => pick[t] = Nobody
            /\ t \in done => pick[t] = Nobody
            /\ (ask.lock[t] # Nobody /\ pick[t] # Nobody) => pick[t] = ask.lock[t]

(* Of two members who fit a task alike and have the same capacity the one  *)
(* with less to do is recommended.                                         *)
LighterFirst ==
    \A t \in AllTasks, w \in able :
        (/\ stage \in {"planning", "comparing"} /\ t \in ask.sel \ todo
         /\ pick[t] # Nobody /\ ask.lock[t] = Nobody
         /\ Fit[t][w] = Fit[t][pick[t]] /\ ask.cap[w] = ask.cap[pick[t]])
            => room[t][pick[t]] <= room[t][w]
=============================================================================
