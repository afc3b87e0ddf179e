-------------------------- MODULE AutomationSources --------------------------
(* Where the events of the automation engine come from: committed record    *)
(* changes, which workers turn into events, and the clock, which workers    *)
(* compare with the next run of every scheduled and due-date rule.          *)
(*                                                                          *)
(* A scan locks the rules that are due (SELECT ... FOR UPDATE) and commits  *)
(* their events and their next runs together; a request that edits a rule   *)
(* reads it without a lock and writes the columns it changed.               *)
EXTENDS Integers, Sequences, FiniteSets

CONSTANTS
    Rules, Records, Workers, Requests,
    Offset,          \* a due-date rule reminds this long before the due time
    Interval,        \* time between two runs of a scheduled rule
    ScanInterval,    \* time between two scans of a due-date rule
    Window,          \* change items one pass of materialization reads
    MaxTime, MaxItems, MaxVersion

VARIABLES
    clock,
    rule,            \* automation_rules
    due,             \* due time of each record, NoTime when it has none
    items,           \* record change items, oldest first
    made,            \* events made of each change item
    events,          \* events of scheduled and due-date rules
    scan,            \* the scan each worker has open
    reading,         \* change items each worker has read to make events of
    edit             \* the rule each request has read and not written

varsSources == <<clock, rule, due, items, made, events, scan, reading, edit>>

NoTime == -1
NoScan == [rules |-> {}, at |-> NoTime]
NoEdit == [op |-> "none"]
NoRule == [state |-> "absent", trigger |-> "manual", enabled |-> FALSE, version |-> 0,
           next |-> NoTime]

InitSources ==
    /\ clock = 0 /\ rule = [r \in Rules |-> NoRule] /\ due = [d \in Records |-> NoTime]
    /\ items = <<>> /\ made = [i \in 1..MaxItems |-> 0] /\ events = {}
    /\ scan = [w \in Workers |-> NoScan] /\ reading = [w \in Workers |-> {}]
    /\ edit = [q \in Requests |-> NoEdit]

(* A scan keeps its rows locked until it commits. *)
Locked(r) == \E w \in Workers : r \in scan[w].rules

Tick ==
    /\ clock < MaxTime /\ clock' = clock + 1
    /\ UNCHANGED <<rule, due, items, made, events, scan, reading, edit>>

(* A record is written or goes to the bin, with a change item. The item of *)
(* a delete holds a JSON null, which is not an SQL NULL.                   *)
WriteRecord(d, t) ==
    /\ Len(items) < MaxItems
    /\ due' = [due EXCEPT ![d] = t]
    /\ items' = Append(items, "write")
    /\ UNCHANGED <<clock, rule, made, events, scan, reading, edit>>
DeleteRecord(d) ==
    /\ Len(items) < MaxItems
    /\ due' = [due EXCEPT ![d] = NoTime]
    /\ items' = Append(items, "delete")
    /\ UNCHANGED <<clock, rule, made, events, scan, reading, edit>>

-----------------------------------------------------------------------------
(* Rules *)

Schedule(trigger, enabled) ==
    CASE ~enabled -> NoTime
      [] enabled /\ trigger = "scheduled" -> clock + Interval
      [] enabled /\ trigger = "due_date" -> clock
CreateRule(r, trigger, enabled) ==
    /\ rule[r].state = "absent"
    /\ rule' = [rule EXCEPT ![r] = [state |-> "live", trigger |-> trigger, enabled |-> enabled,
                                    version |-> 1, next |-> Schedule(trigger, enabled)]]
    /\ UNCHANGED <<clock, due, items, made, events, scan, reading, edit>>

BeginEditRule(q, r, op) ==
    /\ edit[q] = NoEdit /\ rule[r].state = "live"
    /\ op = "update" => rule[r].version < MaxVersion
    /\ edit' = [edit EXCEPT ![q] = [op |-> op, id |-> r, read |-> rule[r]]]
    /\ UNCHANGED <<clock, rule, due, items, made, events, scan, reading>>

(* The columns that differ from what was read are written to the row, when *)
(* no scan has it locked.                                                  *)
WriteChanged(r, read, new) ==
    rule' = [rule EXCEPT ![r] = [c \in DOMAIN @ |-> IF new[c] = read[c] THEN @[c] ELSE new[c]]]
Edited(e) ==
    CASE e.op = "update"  -> [e.read EXCEPT !.version = @ + 1,
                                 !.next = Schedule(e.read.trigger, e.read.enabled)]
      [] e.op = "enable"  -> [e.read EXCEPT !.enabled = TRUE, !.next = Schedule(e.read.trigger, TRUE)]
      [] e.op = "disable" -> [e.read EXCEPT !.enabled = FALSE, !.next = NoTime]
      [] e.op = "delete"  -> [e.read EXCEPT !.enabled = FALSE, !.next = NoTime, !.state = "deleted"]
SaveEditRule(q) ==
    /\ edit[q] # NoEdit /\ ~Locked(edit[q].id)
    /\ WriteChanged(edit[q].id, edit[q].read, Edited(edit[q]))
    /\ edit' = [edit EXCEPT ![q] = NoEdit]
    /\ UNCHANGED <<clock, due, items, made, events, scan, reading>>

-----------------------------------------------------------------------------
(* Scans of the rules that are due *)

DueRules == {r \in Rules : /\ rule[r].state = "live" /\ rule[r].enabled
                           /\ rule[r].next # NoTime /\ rule[r].next <= clock}
(* The query waits while another scan holds one of its rows, and then      *)
(* looks at the rows anew.                                                 *)
BeginScan(w) ==
    /\ scan[w] = NoScan /\ DueRules # {}
    /\ \A r \in DueRules : ~Locked(r)
    /\ scan' = [scan EXCEPT ![w] = [rules |-> DueRules, at |-> clock]]
    /\ UNCHANGED <<clock, rule, due, items, made, events, reading, edit>>

(* The id of an event is computed from what it is about. *)
EventId(r, d, t, at) == <<r, rule[r].version, d, t>>
EventOf(r, d, t, at) ==
    [id |-> EventId(r, d, t, at), rule |-> r, version |-> rule[r].version, record |-> d,
     time |-> t, at |-> at]

(* A scheduled rule has one event for its next run; a due-date rule has    *)
(* one for every record that is due soon and not late.                     *)
Reminds(d, at) == due[d] # NoTime /\ due[d] - Offset <= at /\ at <= due[d]
ScanEvents(r, at) ==
    IF rule[r].trigger = "scheduled" THEN {EventOf(r, NoRule, rule[r].next, at)}
    ELSE {EventOf(r, d, due[d], at) : d \in {x \in Records : Reminds(x, at)}}
AdvanceNextRun(r, at) ==
    at + (IF rule[r].trigger = "scheduled" THEN Interval ELSE ScanInterval)
CommitScan(w) ==
    LET s == scan[w]
        found == UNION {ScanEvents(r, s.at) : r \in s.rules}
    IN  /\ s # NoScan
        /\ events' = events \cup {e \in found : \A x \in events : x.id # e.id}
        /\ rule' = [r \in Rules |-> IF r \in s.rules
                                    THEN [rule[r] EXCEPT !.next = AdvanceNextRun(r, s.at)]
                                    ELSE rule[r]]
        /\ scan' = [scan EXCEPT ![w] = NoScan]
        /\ UNCHANGED <<clock, due, items, made, reading, edit>>

-----------------------------------------------------------------------------
(* Events of committed record changes *)

(* The oldest items without an event: the condition on after_data keeps    *)
(* the items of deletes, which then yield none.                            *)
Unmade == {i \in 1..Len(items) : made[i] = 0}
ReadWindow == {i \in Unmade : Cardinality({j \in Unmade : j <= i}) <= Window}
BeginMaterialize(w) ==
    /\ reading[w] = {} /\ Unmade # {}
    /\ reading' = [reading EXCEPT ![w] = ReadWindow]
    /\ UNCHANGED <<clock, rule, due, items, made, events, scan, edit>>
Queued(w) == {i \in reading[w] : items[i] = "write" /\ made[i] = 0}
CommitMaterialize(w) ==
    /\ reading[w] # {}
    /\ made' = [i \in 1..MaxItems |-> made[i] + (IF i \in Queued(w) THEN 1 ELSE 0)]
    /\ reading' = [reading EXCEPT ![w] = {}]
    /\ UNCHANGED <<clock, rule, due, items, events, scan, edit>>

(* A worker stops: its open transactions leave nothing. *)
StopWorker(w) ==
    /\ scan[w] # NoScan \/ reading[w] # {}
    /\ scan' = [scan EXCEPT ![w] = NoScan]
    /\ reading' = [reading EXCEPT ![w] = {}]
    /\ UNCHANGED <<clock, rule, due, items, made, events, edit>>

NextSources ==
    \/ Tick
    \/ \E d \in Records : DeleteRecord(d) \/ \E t \in NoTime..MaxTime : WriteRecord(d, t)
    \/ \E r \in Rules, trigger \in {"scheduled", "due_date"}, on \in BOOLEAN : CreateRule(r, trigger, on)
    \/ \E q \in Requests : \/ SaveEditRule(q)
                           \/ \E r \in Rules, op \in {"update", "enable", "disable", "delete"} :
                                BeginEditRule(q, r, op)
    \/ \E w \in Workers : \/ BeginScan(w) \/ CommitScan(w)
                          \/ BeginMaterialize(w) \/ CommitMaterialize(w) \/ StopWorker(w)

SpecSources == InitSources /\ [][NextSources]_varsSources
(* The worker loop comes around again and again. *)
FairSources ==
    SpecSources /\ \A w \in Workers : /\ WF_varsSources(BeginMaterialize(w))
                                      /\ SF_varsSources(CommitMaterialize(w))

-----------------------------------------------------------------------------
(* The variables have values of their types. *)
TypeOKSources ==
    /\ clock \in 0..MaxTime /\ due \in [Records -> NoTime..MaxTime]
    /\ \A r \in Rules : rule[r].version \in 0..MaxVersion /\ rule[r].enabled \in BOOLEAN
    /\ \A w \in Workers : scan[w].rules \subseteq Rules /\ reading[w] \subseteq 1..MaxItems

(* However workers overlap, stop and scan again, each run of a rule's      *)
(* version and each due time of a record is announced once and in time,    *)
(* and each record change makes one event at most.                         *)
AnnouncedOnce ==
    /\ \A e, f \in events :
         (/\ e.rule = f.rule /\ e.version = f.version /\ e.record = f.record
          /\ e.time = f.time) => e = f
    /\ \A e \in events : e.record # NoRule => e.at \in e.time - Offset .. e.time
    /\ \A i \in 1..MaxItems : made[i] <= 1

(* A rule that is deleted or switched off, however that overlaps a scan,   *)
(* has no new event afterwards.                                            *)
OffRulesSilentStep ==
    \A e \in events' \ events : rule[e.rule].state = "live" /\ rule[e.rule].enabled
OffRulesSilent == [][OffRulesSilentStep]_varsSources

(* Every committed change that leaves a record with data becomes an event. *)
ChangesBecomeEvents ==
    \A i \in 1..MaxItems : [](i <= Len(items) /\ items[i] = "write" => <>(made[i] = 1))
=============================================================================
