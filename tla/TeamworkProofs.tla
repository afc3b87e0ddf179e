--------------------------- MODULE TeamworkProofs ---------------------------
(***************************************************************************)
(* Proofs about what people and workers do at the same time: the producers  *)
(* of automation events, the comments, the source inbox, the notifications, *)
(* the recent targets and the tool chains. Each section is about one        *)
(* specification, for all values of its constants; they share no variable.  *)
(***************************************************************************)
EXTENDS AutomationSources, FiniteSetTheorems, WellFoundedInduction, TLAPS

-----------------------------------------------------------------------------
(* AutomationSources: the events and their ids.                            *)

Times == MaxTime \in Nat /\ MaxItems \in Nat /\ Offset \in Nat

SourceTypes ==
    /\ clock \in Nat
    /\ due \in [Records -> Int]
    /\ made \in [1..MaxItems -> {0, 1}]
    /\ DOMAIN rule = Rules /\ rule = [r \in Rules |-> rule[r]]
    /\ DOMAIN scan = Workers /\ scan = [w \in Workers |-> scan[w]]
    /\ \A w \in Workers : scan[w].at \in Int

(* The id of an event is what it is about, and an id is used once. *)
IdsTellAll ==
    /\ \A e \in events : e.id = <<e.rule, e.version, e.record, e.time>>
    /\ \A e, f \in events : e.id = f.id => e = f
    /\ \A e \in events : e.record # NoRule => e.at \in e.time - Offset .. e.time

(* A rule that a scan has locked stays as the scan found it. *)
ScannedRulesOn ==
    \A w \in Workers : \A r \in scan[w].rules :
      r \in Rules /\ rule[r].state = "live" /\ rule[r].enabled

SourcesInv == SourceTypes /\ IdsTellAll /\ ScannedRulesOn

(* The events of one scan. *)
LEMMA ScannedEvents ==
  ASSUME Times, SourcesInv, NEW w \in Workers, NEW r \in scan[w].rules,
         NEW e \in ScanEvents(r, scan[w].at)
  PROVE  /\ e = EventOf(r, e.id[3], e.id[4], scan[w].at) /\ e.id[1] = r
         /\ e.id = <<e.rule, e.version, e.record, e.time>> /\ e.rule = r
         /\ e.record # NoRule => e.at \in e.time - Offset .. e.time
<1> DEFINE at == scan[w].at
<1>1. at \in Int
  BY DEF SourcesInv, SourceTypes
<1>2. CASE e = EventOf(r, NoRule, rule[r].next, at)
  <2>1. e.id = <<r, rule[r].version, NoRule, rule[r].next>>
    BY <1>2 DEF EventOf, EventId
  <2>2. e.id[1] = r /\ e.id[3] = NoRule /\ e.id[4] = rule[r].next
    BY <2>1
  <2> QED
    BY <1>2, <2>1, <2>2 DEF EventOf
<1>3. ASSUME NEW d \in Records, Reminds(d, at), e = EventOf(r, d, due[d], at)
      PROVE  /\ e = EventOf(r, e.id[3], e.id[4], at) /\ e.id[1] = r
             /\ e.id = <<e.rule, e.version, e.record, e.time>> /\ e.rule = r
             /\ e.at \in e.time - Offset .. e.time
  <2>1. due[d] \in Int /\ due[d] - Offset <= at /\ at <= due[d]
    BY <1>3 DEF Reminds, SourcesInv, SourceTypes
  <2>2. e.time = due[d] /\ e.at = at
    BY <1>3 DEF EventOf
  <2>3. e.at \in e.time - Offset .. e.time
    BY <1>1, <2>1, <2>2 DEF Times
  <2>4. e.id = <<r, rule[r].version, d, due[d]>>
    BY <1>3 DEF EventOf, EventId
  <2>5. e.id[1] = r /\ e.id[3] = d /\ e.id[4] = due[d]
    BY <2>4
  <2> QED
    BY <1>3, <2>3, <2>4, <2>5 DEF EventOf
<1> QED
  BY <1>2, <1>3 DEF ScanEvents

LEMMA SourcesInit == Times /\ InitSources => SourcesInv
BY DEF Times, InitSources, SourcesInv, SourceTypes, IdsTellAll, ScannedRulesOn, NoScan, NoTime

LEMMA CommitScanKeeps ==
  ASSUME Times, SourcesInv, NEW w \in Workers, CommitScan(w)
  PROVE  SourcesInv' /\ OffRulesSilentStep
<1> DEFINE found == UNION {ScanEvents(r, scan[w].at) : r \in scan[w].rules}
           next(r) == AdvanceNextRun(r, scan[w].at)
<1>1. /\ events' = events \cup {e \in found : \A x \in events : x.id # e.id}
      /\ rule' = [r \in Rules |-> IF r \in scan[w].rules
                                  THEN [rule[r] EXCEPT !.next = next(r)] ELSE rule[r]]
      /\ scan' = [scan EXCEPT ![w] = NoScan]
      /\ UNCHANGED <<clock, due, items, made, reading, edit>>
  BY DEF CommitScan
<1>2. \A e \in events' \ events : \E r \in scan[w].rules :
        /\ e = EventOf(r, e.id[3], e.id[4], scan[w].at) /\ e.id[1] = r
        /\ e.id = <<e.rule, e.version, e.record, e.time>> /\ e.rule = r
        /\ e.record # NoRule => e.at \in e.time - Offset .. e.time
  BY <1>1, ScannedEvents
<1>3. \A e \in events', f \in events' \ events : e.id = f.id => e = f
  <2> SUFFICES ASSUME NEW e \in events', NEW f \in events' \ events, e.id = f.id
               PROVE  e = f
    OBVIOUS
  <2>1. CASE e \in events
    BY <1>1, <2>1
  <2>2. CASE e \notin events
    <3>1. PICK r \in scan[w].rules : e = EventOf(r, e.id[3], e.id[4], scan[w].at) /\ e.id[1] = r
      BY <1>2, <2>2
    <3>2. PICK s \in scan[w].rules : f = EventOf(s, f.id[3], f.id[4], scan[w].at) /\ f.id[1] = s
      BY <1>2
    <3> QED
      BY <3>1, <3>2
  <2> QED
    BY <2>1, <2>2
<1>4. IdsTellAll'
  <2>2. \A e \in events' : /\ e.id = <<e.rule, e.version, e.record, e.time>>
                           /\ e.record # NoRule => e.at \in e.time - Offset .. e.time
    BY <1>2 DEF SourcesInv, IdsTellAll
  <2>3. \A e, f \in events' : e.id = f.id => e = f
    BY <1>3 DEF SourcesInv, IdsTellAll
  <2> QED
    BY <2>2, <2>3 DEF IdsTellAll
<1>5. SourceTypes'
  <2>1. DOMAIN rule' = Rules /\ rule' = [r \in Rules |-> rule'[r]]
    <3> HIDE DEF next
    <3> QED
      BY <1>1
  <2>2. /\ DOMAIN scan' = Workers /\ scan' = [v \in Workers |-> scan'[v]]
        /\ \A v \in Workers : scan'[v] = NoScan \/ scan'[v] = scan[v]
    BY <1>1 DEF SourcesInv, SourceTypes
  <2>3. \A v \in Workers : scan'[v].at \in Int
    BY <2>2 DEF SourcesInv, SourceTypes, NoScan, NoTime
  <2> QED
    BY <1>1, <2>1, <2>2, <2>3 DEF SourcesInv, SourceTypes
<1>6. ScannedRulesOn'
  <2>1. \A r \in Rules : rule'[r].state = rule[r].state /\ rule'[r].enabled = rule[r].enabled
    <3> HIDE DEF next
    <3> QED
      BY <1>1
  <2>2. \A v \in Workers : scan'[v].rules \subseteq scan[v].rules
    BY <1>1 DEF NoScan, SourcesInv, SourceTypes
  <2> QED
    BY <2>1, <2>2 DEF SourcesInv, ScannedRulesOn
<1>7. OffRulesSilentStep
  BY <1>2 DEF OffRulesSilentStep, SourcesInv, ScannedRulesOn
<1> QED
  BY <1>4, <1>5, <1>6, <1>7 DEF SourcesInv

(* A step that makes no event, and leaves the rules that are locked alone. *)
LEMMA QuietSources ==
  ASSUME SourcesInv, SourceTypes', events' = events,
         \A w \in Workers : scan'[w].rules \subseteq scan[w].rules \cup DueRules,
         \A r \in Rules : rule'[r] = rule[r] \/
           \A w \in Workers : r \notin scan[w].rules \cup DueRules
  PROVE  SourcesInv' /\ OffRulesSilentStep
<1>1. IdsTellAll'
  BY DEF SourcesInv, IdsTellAll
<1>2. \A w \in Workers : \A r \in scan'[w].rules :
        r \in Rules /\ rule[r].state = "live" /\ rule[r].enabled /\ rule'[r] = rule[r]
  BY DEF SourcesInv, ScannedRulesOn, DueRules
<1>3. ScannedRulesOn'
  BY <1>2 DEF ScannedRulesOn
<1> QED
  BY <1>1, <1>3 DEF SourcesInv, OffRulesSilentStep

LEMMA SourcesStep ==
  ASSUME Times, SourcesInv, [NextSources]_varsSources
  PROVE  SourcesInv' /\ OffRulesSilentStep
<1> USE DEF SourcesInv, SourceTypes
<1>1. CASE Tick
  BY <1>1, QuietSources DEF Tick
<1>2. ASSUME NEW d \in Records, NEW t \in NoTime..MaxTime, WriteRecord(d, t)
      PROVE  SourcesInv' /\ OffRulesSilentStep
  <2>1. due' \in [Records -> Int]
    BY <1>2 DEF WriteRecord, NoTime, Times
  <2> QED
    BY <1>2, <2>1, QuietSources DEF WriteRecord
<1>3. ASSUME NEW d \in Records, DeleteRecord(d)
      PROVE  SourcesInv' /\ OffRulesSilentStep
  <2>1. due' \in [Records -> Int]
    BY <1>3 DEF DeleteRecord, NoTime
  <2> QED
    BY <1>3, <2>1, QuietSources DEF DeleteRecord
<1>4. ASSUME NEW r \in Rules, NEW trigger \in {"scheduled", "due_date"}, NEW on \in BOOLEAN,
             CreateRule(r, trigger, on)
      PROVE  SourcesInv' /\ OffRulesSilentStep
  <2> DEFINE new == [state |-> "live", trigger |-> trigger, enabled |-> on, version |-> 1,
                     next |-> Schedule(trigger, on)]
  <2>1. /\ rule[r].state = "absent" /\ rule' = [rule EXCEPT ![r] = new]
        /\ UNCHANGED <<clock, due, made, events, scan>>
    BY <1>4 DEF CreateRule
  <2>2. \A w \in Workers : r \notin scan[w].rules \cup DueRules
    BY <2>1 DEF ScannedRulesOn, DueRules
  <2> HIDE DEF new
  <2>3. /\ \A s \in Rules \ {r} : rule'[s] = rule[s]
        /\ DOMAIN rule' = Rules /\ rule' = [s \in Rules |-> rule'[s]]
    BY <2>1
  <2> QED
    BY <2>1, <2>2, <2>3, QuietSources
<1>5. ASSUME NEW q \in Requests, SaveEditRule(q)
      PROVE  SourcesInv' /\ OffRulesSilentStep
  <2> DEFINE r == edit[q].id
             new == [c \in DOMAIN rule[r] |-> IF Edited(edit[q])[c] = edit[q].read[c]
                                              THEN rule[r][c] ELSE Edited(edit[q])[c]]
  <2>1. /\ \A w \in Workers : r \notin scan[w].rules
        /\ UNCHANGED <<clock, due, made, events, scan>>
        /\ r \in Rules => rule' = [rule EXCEPT ![r] = new]
        /\ r \notin Rules => rule' = rule
    BY <1>5 DEF SaveEditRule, Locked, WriteChanged
  <2> HIDE DEF new, r
  <2>2. /\ \A s \in Rules : s # r => rule'[s] = rule[s]
        /\ DOMAIN rule' = Rules /\ rule' = [s \in Rules |-> rule'[s]]
    BY <2>1
  <2>3. ScannedRulesOn'
    <3>1. \A w \in Workers : \A s \in scan[w].rules :
            s \in Rules /\ rule[s].state = "live" /\ rule[s].enabled /\ s # r
      BY <2>1 DEF ScannedRulesOn
    <3>2. \A w \in Workers : \A s \in scan'[w].rules :
            s \in Rules /\ rule[s].state = "live" /\ rule[s].enabled /\ rule'[s] = rule[s]
      BY <2>1, <2>2, <3>1
    <3> HIDE DEF SourcesInv, SourceTypes
    <3> QED
      BY <3>2 DEF ScannedRulesOn
  <2>4. IdsTellAll' /\ OffRulesSilentStep
    BY <2>1 DEF IdsTellAll, OffRulesSilentStep
  <2> QED
    BY <2>1, <2>2, <2>3, <2>4
<1>6. ASSUME NEW q \in Requests, NEW r \in Rules, NEW op, BeginEditRule(q, r, op)
      PROVE  SourcesInv' /\ OffRulesSilentStep
  BY <1>6, QuietSources DEF BeginEditRule
<1>7. ASSUME NEW w \in Workers, BeginScan(w)
      PROVE  SourcesInv' /\ OffRulesSilentStep
  <2>1. /\ UNCHANGED <<clock, due, made, events, rule>>
        /\ scan' = [scan EXCEPT ![w] = [rules |-> DueRules, at |-> clock]]
    BY <1>7 DEF BeginScan
  <2>2. /\ DOMAIN scan' = Workers /\ scan' = [v \in Workers |-> scan'[v]]
        /\ \A v \in Workers : scan'[v] = scan[v] \/ scan'[v] = [rules |-> DueRules, at |-> clock]
    BY <2>1
  <2>3. \A v \in Workers : scan'[v].at \in Int /\ scan'[v].rules \subseteq scan[v].rules \cup DueRules
    BY <2>2
  <2> QED
    BY <2>1, <2>2, <2>3, QuietSources
<1>8. ASSUME NEW w \in Workers, CommitScan(w)
      PROVE  SourcesInv' /\ OffRulesSilentStep
  BY <1>8, CommitScanKeeps
<1>9. ASSUME NEW w \in Workers, BeginMaterialize(w)
      PROVE  SourcesInv' /\ OffRulesSilentStep
  BY <1>9, QuietSources DEF BeginMaterialize
<1>10. ASSUME NEW w \in Workers, CommitMaterialize(w)
       PROVE  SourcesInv' /\ OffRulesSilentStep
  <2>1. made' \in [1..MaxItems -> {0, 1}]
    BY <1>10 DEF CommitMaterialize, Queued
  <2> QED
    BY <1>10, <2>1, QuietSources DEF CommitMaterialize
<1>11. ASSUME NEW w \in Workers, StopWorker(w)
       PROVE  SourcesInv' /\ OffRulesSilentStep
  <2>1. /\ DOMAIN scan' = Workers /\ scan' = [v \in Workers |-> scan'[v]]
        /\ \A v \in Workers : scan'[v] = scan[v] \/ scan'[v] = NoScan
    BY <1>11 DEF StopWorker
  <2>2. \A v \in Workers : scan'[v].at \in Int /\ scan'[v].rules \subseteq scan[v].rules
    BY <2>1 DEF NoScan, NoTime
  <2> QED
    BY <1>11, <2>1, <2>2, QuietSources DEF StopWorker
<1>12. CASE UNCHANGED varsSources
  BY <1>12, QuietSources DEF varsSources
<1> QED
  BY <1>1, <1>2, <1>3, <1>4, <1>5, <1>6, <1>7, <1>8, <1>9, <1>10, <1>11, <1>12 DEF NextSources

LEMMA SourcesSafe ==
  ASSUME SourcesInv
  PROVE  AnnouncedOnce
<1>1. ASSUME NEW e \in events, NEW f \in events,
             e.rule = f.rule, e.version = f.version, e.record = f.record, e.time = f.time
      PROVE  e = f
  <2>1. e.id = <<e.rule, e.version, e.record, e.time>>
    BY DEF SourcesInv, IdsTellAll
  <2>2. f.id = <<e.rule, e.version, e.record, e.time>>
    BY <1>1 DEF SourcesInv, IdsTellAll
  <2> QED
    BY <2>1, <2>2 DEF SourcesInv, IdsTellAll
<1>2. \A i \in 1..MaxItems : made[i] <= 1
  BY DEF SourcesInv, SourceTypes
<1> QED
  BY <1>1, <1>2 DEF AnnouncedOnce, SourcesInv, IdsTellAll

(* Each run of a rule's version and each due time of a record is announced  *)
(* once and in time, and a record change makes one event at most, however   *)
(* workers scan, materialise and stop (scheduler.py: the id of an event is   *)
(* computed from what it is about; events.py).                               *)
THEOREM EachAnnouncedOnce ==
  ASSUME Times
  PROVE  SpecSources => []AnnouncedOnce
<1>1. InitSources => SourcesInv
  BY SourcesInit
<1>2. SourcesInv /\ [NextSources]_varsSources => SourcesInv'
  BY SourcesStep
<1>3. SourcesInv => AnnouncedOnce
  BY SourcesSafe
<1> QED
  BY <1>1, <1>2, <1>3, PTL DEF SpecSources

(* A rule that is switched off or deleted has no new event afterwards,      *)
(* however its edit overlaps a scan: a scan's rules stay on while it has    *)
(* them locked (scheduler.py, set_automation_enabled, delete_automation).   *)
THEOREM OffMeansSilent ==
  ASSUME Times
  PROVE  SpecSources => OffRulesSilent
<1>1. InitSources => SourcesInv
  BY SourcesInit
<1>2. SourcesInv /\ [NextSources]_varsSources => SourcesInv' /\ OffRulesSilentStep
  BY SourcesStep
<1> QED
  BY <1>1, <1>2, PTL DEF SpecSources, OffRulesSilent

(* Types: every value stays within the bounds, and a row keeps its columns.  *)
VersionsStart == MaxVersion \in Nat \ {0}
Columns == {"state", "trigger", "enabled", "version", "next"}
RuleTyped(x) ==
    /\ DOMAIN x = Columns /\ x = [c \in Columns |-> x[c]]
    /\ x.version \in 0..MaxVersion /\ x.enabled \in BOOLEAN
SourcesTyped ==
    /\ clock \in 0..MaxTime /\ due \in [Records -> NoTime..MaxTime]
    /\ DOMAIN rule = Rules /\ \A r \in Rules : RuleTyped(rule[r])
    /\ items \in Seq({"write", "delete"}) /\ Len(items) <= MaxItems
    /\ reading \in [Workers -> SUBSET (1..MaxItems)]
    /\ DOMAIN edit = Requests
    /\ \A q \in Requests : edit[q] # NoEdit =>
         /\ RuleTyped(edit[q].read) /\ edit[q].id \in Rules
         /\ edit[q].op \in {"update", "enable", "disable", "delete"}
         /\ edit[q].op = "update" => edit[q].read.version < MaxVersion

LEMMA SourcesTypedSafe == SourcesInv /\ SourcesTyped => TypeOKSources
  BY DEF SourcesInv, SourcesTyped, RuleTyped, ScannedRulesOn, TypeOKSources

LEMMA SourcesTypedInit == Times /\ VersionsStart /\ InitSources => SourcesTyped
<1> SUFFICES ASSUME Times, VersionsStart, InitSources PROVE SourcesTyped
  OBVIOUS
<1>1. RuleTyped(NoRule)
  BY DEF RuleTyped, NoRule, Columns, VersionsStart
<1> QED
  BY <1>1 DEF Times, VersionsStart, InitSources, SourcesTyped, NoTime

LEMMA EditedTyped ==
  ASSUME VersionsStart, NEW e, RuleTyped(e.read),
         e.op \in {"update", "enable", "disable", "delete"},
         e.op = "update" => e.read.version < MaxVersion
  PROVE  Edited(e).version \in 0..MaxVersion /\ Edited(e).enabled \in BOOLEAN
<1> DEFINE old == e.read
<1>0. /\ DOMAIN old = Columns /\ old.version \in 0..MaxVersion /\ old.enabled \in BOOLEAN
      /\ old = [c \in Columns |-> old[c]]
  BY DEF RuleTyped
<1>1. ASSUME NEW n, NEW v, NEW on, NEW s
      PROVE  /\ [old EXCEPT !.version = v, !.next = n].version = v
             /\ [old EXCEPT !.version = v, !.next = n].enabled = old.enabled
             /\ [old EXCEPT !.enabled = on, !.next = n].version = old.version
             /\ [old EXCEPT !.enabled = on, !.next = n].enabled = on
             /\ [old EXCEPT !.enabled = on, !.next = n, !.state = s].version = old.version
             /\ [old EXCEPT !.enabled = on, !.next = n, !.state = s].enabled = on
  BY <1>0 DEF Columns
<1>2. CASE e.op = "update"
  <2>1. Edited(e) = [old EXCEPT !.version = old.version + 1, !.next = Schedule(old.trigger, old.enabled)]
    BY <1>2 DEF Edited
  <2>2. old.version + 1 \in 0..MaxVersion
    BY <1>0, <1>2 DEF VersionsStart
  <2> QED
    BY <1>0, <1>1, <2>1, <2>2
<1>3. CASE e.op = "enable"
  <2>1. Edited(e) = [old EXCEPT !.enabled = TRUE, !.next = Schedule(old.trigger, TRUE)]
    BY <1>3 DEF Edited
  <2> QED
    BY <1>0, <1>1, <2>1
<1>4. CASE e.op = "disable"
  <2>1. Edited(e) = [old EXCEPT !.enabled = FALSE, !.next = NoTime]
    BY <1>4 DEF Edited
  <2> QED
    BY <1>0, <1>1, <2>1
<1>5. CASE e.op = "delete"
  <2>1. Edited(e) = [old EXCEPT !.enabled = FALSE, !.next = NoTime, !.state = "deleted"]
    BY <1>5 DEF Edited
  <2> QED
    BY <1>0, <1>1, <2>1
<1> QED
  BY <1>2, <1>3, <1>4, <1>5

LEMMA SourcesTypedStep ==
  ASSUME Times, VersionsStart, SourcesInv, SourcesTyped, [NextSources]_varsSources
  PROVE  SourcesTyped'
<1> USE DEF SourcesTyped
<1>1. CASE Tick
  BY <1>1 DEF Tick, Times
<1>2. ASSUME NEW d \in Records, NEW t \in NoTime..MaxTime, WriteRecord(d, t)
      PROVE  SourcesTyped'
  <2>1. items' \in Seq({"write", "delete"}) /\ Len(items') <= MaxItems
    BY <1>2 DEF WriteRecord, Times
  <2>2. due' \in [Records -> NoTime..MaxTime]
    BY <1>2 DEF WriteRecord
  <2> QED
    BY <1>2, <2>1, <2>2 DEF WriteRecord
<1>3. ASSUME NEW d \in Records, DeleteRecord(d)
      PROVE  SourcesTyped'
  <2>1. items' \in Seq({"write", "delete"}) /\ Len(items') <= MaxItems
    BY <1>3 DEF DeleteRecord, Times
  <2>2. due' \in [Records -> NoTime..MaxTime]
    BY <1>3 DEF DeleteRecord, NoTime, Times
  <2> QED
    BY <1>3, <2>1, <2>2 DEF DeleteRecord
<1>4. ASSUME NEW r \in Rules, NEW trigger, NEW on \in BOOLEAN, CreateRule(r, trigger, on)
      PROVE  SourcesTyped'
  <2> DEFINE new == [state |-> "live", trigger |-> trigger, enabled |-> on,
                     version |-> 1, next |-> Schedule(trigger, on)]
  <2>1. RuleTyped(new)
    BY DEF RuleTyped, Columns, VersionsStart
  <2>2. rule' = [rule EXCEPT ![r] = new]
    BY <1>4 DEF CreateRule
  <2> HIDE DEF new
  <2>3. DOMAIN rule' = Rules /\ \A s \in Rules : RuleTyped(rule'[s])
    BY <2>1, <2>2
  <2> QED
    BY <1>4, <2>3 DEF CreateRule
<1>5. ASSUME NEW q \in Requests, SaveEditRule(q)
      PROVE  SourcesTyped'
  <2> DEFINE r == edit[q].id
             new == Edited(edit[q])
             read == edit[q].read
  <2>1. edit[q] # NoEdit /\ r \in Rules /\ RuleTyped(rule[r])
    BY <1>5 DEF SaveEditRule
  <2>2. new.version \in 0..MaxVersion /\ new.enabled \in BOOLEAN
    BY <2>1, EditedTyped
  <2> DEFINE row == [c \in DOMAIN rule[r] |-> IF new[c] = read[c] THEN rule[r][c] ELSE new[c]]
  <2>3. rule' = [rule EXCEPT ![r] = row]
    BY <1>5 DEF SaveEditRule, WriteChanged
  <2> HIDE DEF new, read
  <2>4. RuleTyped(row)
    BY <2>1, <2>2 DEF RuleTyped, Columns
  <2> HIDE DEF row, r
  <2>5. DOMAIN rule' = Rules /\ \A s \in Rules : RuleTyped(rule'[s])
    BY <2>1, <2>3, <2>4
  <2>6. edit' = [edit EXCEPT ![q] = NoEdit]
    BY <1>5 DEF SaveEditRule
  <2> QED
    BY <1>5, <2>5, <2>6 DEF SaveEditRule
<1>6. ASSUME NEW q \in Requests, NEW r \in Rules, NEW op \in {"update", "enable", "disable", "delete"},
             BeginEditRule(q, r, op)
      PROVE  SourcesTyped'
  <2> DEFINE new == [op |-> op, id |-> r, read |-> rule[r]]
  <2>1. RuleTyped(new.read) /\ new.id \in Rules /\ new.op = op /\ new.read = rule[r]
    OBVIOUS
  <2>2. edit' = [edit EXCEPT ![q] = new] /\ (op = "update" => rule[r].version < MaxVersion)
    BY <1>6 DEF BeginEditRule
  <2> HIDE DEF new
  <2>3. \A p \in Requests : edit'[p] = IF p = q THEN new ELSE edit[p]
    BY <2>2
  <2>4. UNCHANGED <<clock, rule, due, items, made, events, scan, reading>> /\ DOMAIN edit' = Requests
    BY <1>6, <2>2 DEF BeginEditRule
  <2> QED
    BY <2>1, <2>2, <2>3, <2>4
<1>7. ASSUME NEW w \in Workers, CommitScan(w)
      PROVE  SourcesTyped'
  <2>1. DOMAIN rule' = Rules
    BY <1>7 DEF CommitScan
  <2>2. ASSUME NEW r \in Rules
        PROVE  RuleTyped(rule'[r])
    <3>1. RuleTyped(rule[r])
      OBVIOUS
    <3>2. PICK n : rule'[r] = rule[r] \/ rule'[r] = [rule[r] EXCEPT !.next = n]
      BY <1>7 DEF CommitScan
    <3> QED
      BY <3>1, <3>2 DEF RuleTyped, Columns
  <2>3. UNCHANGED <<clock, due, items, made, reading, edit>>
    BY <1>7 DEF CommitScan
  <2> QED
    BY <2>1, <2>2, <2>3
<1>8. ASSUME NEW w \in Workers, BeginMaterialize(w)
      PROVE  SourcesTyped'
  <2>1. ReadWindow \subseteq 1..MaxItems
    BY DEF ReadWindow, Unmade, Times
  <2> QED
    BY <1>8, <2>1 DEF BeginMaterialize
<1>9. ASSUME NEW w \in Workers, BeginScan(w) \/ CommitMaterialize(w) \/ StopWorker(w)
      PROVE  SourcesTyped'
  BY <1>9 DEF BeginScan, CommitMaterialize, StopWorker
<1>10. CASE UNCHANGED varsSources
  BY <1>10 DEF varsSources
<1> QED
  BY <1>1, <1>2, <1>3, <1>4, <1>5, <1>6, <1>7, <1>8, <1>9, <1>10 DEF NextSources

-----------------------------------------------------------------------------
(* Comments: what a request has read, and the threads it writes into.      *)

CONSTANTS CommentIds, CommentedRecords, Authors, NoComment, ClientKeys, NoKey, Writers, MaxLog, ActivityBatch,
          ActivityCap
VARIABLES comment, told, activity, writing
C == INSTANCE Comments WITH Records <- CommentedRecords

CommentRows ==
    {C!Free} \cup
    [state : {"live", "deleted"}, by : Authors, record : CommentedRecords,
     parent : CommentIds \cup {NoComment}, key : ClientKeys \cup {NoKey}, rev : Int,
     mentions : SUBSET Authors]

CommentRequests ==
    {C!IdleWriter}
    \cup [op : {"create"}, by : Authors, record : CommentedRecords, parent : CommentIds \cup {NoComment},
          mentions : SUBSET Authors, key : ClientKeys \cup {NoKey}]
    \cup [op : {"update"}, by : Authors, id : CommentIds, read : CommentRows,
          mentions : SUBSET Authors]
    \cup [op : {"delete"}, by : Authors, id : CommentIds, read : CommentRows]

(* A reply that is being written has the parent the code demands, and an    *)
(* edit is of a comment that exists.                                       *)
Sound(e) ==
    /\ e.op = "create" /\ e.parent # NoComment =>
         /\ e.parent \in C!Used
         /\ comment[e.parent].parent = NoComment /\ comment[e.parent].record = e.record
    /\ e.op \in {"update", "delete"} => e.id \in C!Used /\ e.read \in CommentRows \ {C!Free}

CommentsInv ==
    /\ comment \in [CommentIds -> CommentRows]
    /\ writing \in [Writers -> CommentRequests]
    /\ \A w \in Writers : Sound(writing[w])
    /\ C!ThreadsAreSound

(* What every step does to the rows: none goes, and who wrote it and where  *)
(* stays.                                                                  *)
RowsKept ==
    \A c \in CommentIds : comment[c] # C!Free =>
      /\ comment'[c] # C!Free /\ comment'[c].by = comment[c].by /\ comment'[c].key = comment[c].key
      /\ comment'[c].record = comment[c].record /\ comment'[c].parent = comment[c].parent
      /\ comment[c].state = "deleted" => comment'[c].state = "deleted"

(* ... and all that an edit or a deletion does besides. *)
NoNewRows ==
    /\ comment' \in [CommentIds -> CommentRows] /\ RowsKept
    /\ \A c \in CommentIds : comment[c] = C!Free => comment'[c] = C!Free
    /\ \A n \in told' : n \in told \/ n[1] \in C!Used

LEMMA CommentKinds ==
  /\ \A x \in CommentRows : x.state = "free" <=> x = C!Free
  /\ \A x \in CommentRows : x # C!Free =>
       x \in [state : {"live", "deleted"}, by : Authors, record : CommentedRecords,
              parent : CommentIds \cup {NoComment}, key : ClientKeys \cup {NoKey}, rev : Int,
              mentions : SUBSET Authors]
BY DEF CommentRows, C!Free

LEMMA CommentRequestKinds ==
  ASSUME NEW e \in CommentRequests
  PROVE  /\ e.op = "idle" <=> e = C!IdleWriter
         /\ e.op = "create" => e \in [op : {"create"}, by : Authors, record : CommentedRecords,
               parent : CommentIds \cup {NoComment}, mentions : SUBSET Authors,
               key : ClientKeys \cup {NoKey}]
         /\ e.op = "update" => e \in [op : {"update"}, by : Authors, id : CommentIds,
               read : CommentRows, mentions : SUBSET Authors]
         /\ e.op = "delete" => e \in [op : {"delete"}, by : Authors, id : CommentIds,
               read : CommentRows]
BY DEF CommentRequests, C!IdleWriter

LEMMA SaveUpdateKeeps ==
  ASSUME CommentsInv, NEW w \in Writers, C!SaveUpdate(w)
  PROVE  NoNewRows
<1> DEFINE e == writing[w]
<1>1. e \in [op : {"update"}, by : Authors, id : CommentIds, read : CommentRows, mentions : SUBSET Authors]
  BY CommentRequestKinds DEF CommentsInv, C!SaveUpdate
<1>2. e.id \in C!Used /\ e.read \in CommentRows /\ e.read # C!Free
  BY <1>1 DEF CommentsInv, Sound
<1>3. comment[e.id] # C!Free /\ comment[e.id] \in CommentRows
  BY <1>2, CommentKinds DEF CommentsInv, C!Used
<1> DEFINE row == comment[e.id]
           rev == e.read.rev + 1
           kept == (row.mentions \ (e.read.mentions \ e.mentions)) \cup C!Added(e)
           new == [row EXCEPT !.rev = rev, !.mentions = kept]
<1>4. comment' = [comment EXCEPT ![e.id] = new]
  BY DEF C!SaveUpdate, CommentsInv
<1>5. rev \in Int /\ kept \in SUBSET Authors
  BY <1>1, <1>2, <1>3, CommentKinds DEF C!Added
<1>6. told' = told \cup C!MentionNotices(e.id, C!Added(e), e.by)
  BY DEF C!SaveUpdate
<1>7. /\ row \in [state : {"live", "deleted"}, by : Authors, record : CommentedRecords,
              parent : CommentIds \cup {NoComment}, key : ClientKeys \cup {NoKey}, rev : Int,
              mentions : SUBSET Authors]
  BY <1>3, CommentKinds
<1> HIDE DEF rev, kept, row
<1>8. /\ new \in CommentRows /\ new # C!Free /\ new.by = row.by /\ new.key = row.key
      /\ new.record = row.record /\ new.parent = row.parent /\ new.state = row.state
  BY <1>5, <1>7 DEF CommentRows, C!Free
<1> HIDE DEF new
<1>9. /\ \A c \in CommentIds : c # e.id => comment'[c] = comment[c]
      /\ comment'[e.id] = new
  BY <1>2, <1>4 DEF CommentsInv, C!Used
<1>10. comment' \in [CommentIds -> CommentRows]
  BY <1>4, <1>8 DEF CommentsInv
<1>11. RowsKept
  BY <1>8, <1>9 DEF RowsKept, row
<1>12. \A n \in told' : n \in told \/ n[1] = e.id
  BY <1>6 DEF C!MentionNotices
<1> QED
  BY <1>2, <1>3, <1>9, <1>10, <1>11, <1>12 DEF NoNewRows

LEMMA SaveDeleteKeeps ==
  ASSUME CommentsInv, NEW w \in Writers, C!SaveDelete(w)
  PROVE  NoNewRows
<1> DEFINE e == writing[w]
<1>1. e \in [op : {"delete"}, by : Authors, id : CommentIds, read : CommentRows]
  BY CommentRequestKinds DEF CommentsInv, C!SaveDelete
<1>2. e.id \in C!Used /\ e.read \in CommentRows /\ e.read # C!Free
  BY <1>1 DEF CommentsInv, Sound
<1>3. comment[e.id] # C!Free /\ comment[e.id] \in CommentRows
  BY <1>2, CommentKinds DEF CommentsInv, C!Used
<1> DEFINE row == comment[e.id]
           rev == e.read.rev + 1
           new == [row EXCEPT !.state = "deleted", !.rev = rev, !.mentions = {}]
<1>4. comment' = [comment EXCEPT ![e.id] = new] /\ told' = told
  BY DEF C!SaveDelete, CommentsInv
<1>5. rev \in Int
  BY <1>2, CommentKinds
<1>7. /\ row \in [state : {"live", "deleted"}, by : Authors, record : CommentedRecords,
              parent : CommentIds \cup {NoComment}, key : ClientKeys \cup {NoKey}, rev : Int,
              mentions : SUBSET Authors]
  BY <1>3, CommentKinds
<1> HIDE DEF rev, row
<1>8. /\ new \in CommentRows /\ new # C!Free /\ new.by = row.by /\ new.key = row.key
      /\ new.record = row.record /\ new.parent = row.parent /\ new.state = "deleted"
  BY <1>5, <1>7 DEF CommentRows, C!Free
<1> HIDE DEF new
<1>9. /\ \A c \in CommentIds : c # e.id => comment'[c] = comment[c]
      /\ comment'[e.id] = new
  BY <1>2, <1>4 DEF CommentsInv, C!Used
<1>10. comment' \in [CommentIds -> CommentRows]
  BY <1>4, <1>8 DEF CommentsInv
<1>11. RowsKept
  BY <1>8, <1>9 DEF RowsKept, row
<1> QED
  BY <1>3, <1>4, <1>9, <1>10, <1>11 DEF NoNewRows

(* A new row, with the key and the parent that were checked. *)
LEMMA InsertKeeps ==
  ASSUME CommentsInv, NEW w \in Writers, NEW c \in CommentIds, C!InsertComment(w, c)
  PROVE  /\ comment' \in [CommentIds -> CommentRows] /\ RowsKept
         /\ comment[c] = C!Free /\ comment'[c] # C!Free
         /\ \A d \in CommentIds : d # c => comment'[d] = comment[d]
         /\ comment'[c].by = writing[w].by /\ comment'[c].key = writing[w].key
         /\ comment'[c].record = writing[w].record /\ comment'[c].parent = writing[w].parent
         /\ writing[w].op = "create" /\ ~C!KeyUsed(writing[w].by, writing[w].key)
         /\ \A n \in told' : n \in told \/ n[1] = c
<1> DEFINE e == writing[w]
           new == [state |-> "live", by |-> e.by, record |-> e.record, parent |-> e.parent,
                   key |-> e.key, rev |-> 1, mentions |-> e.mentions]
<1>1. e \in [op : {"create"}, by : Authors, record : CommentedRecords,
             parent : CommentIds \cup {NoComment}, mentions : SUBSET Authors,
             key : ClientKeys \cup {NoKey}]
  BY CommentRequestKinds DEF CommentsInv, C!InsertComment
<1>2. comment' = [comment EXCEPT ![c] = new] /\ ~C!KeyUsed(e.by, e.key)
  BY DEF C!InsertComment
<1>3. told' = told \cup C!MentionNotices(c, e.mentions, e.by) \cup C!ReplyNotices(c, e)
  BY DEF C!InsertComment
<1>4. comment[c] = C!Free
  BY CommentKinds DEF C!InsertComment, CommentsInv
<1>5. /\ new \in CommentRows /\ new # C!Free /\ new.by = e.by /\ new.key = e.key
      /\ new.record = e.record /\ new.parent = e.parent
  BY <1>1 DEF CommentRows, C!Free
<1> HIDE DEF new
<1>6. /\ \A d \in CommentIds : d # c => comment'[d] = comment[d]
      /\ comment'[c] = new
  BY <1>2 DEF CommentsInv
<1>7. comment' \in [CommentIds -> CommentRows]
  BY <1>2, <1>5 DEF CommentsInv
<1>8. \A n \in told' : n \in told \/ n[1] = c
  BY <1>3 DEF C!MentionNotices, C!ReplyNotices
<1>9. RowsKept
  BY <1>4, <1>6 DEF RowsKept
<1> QED
  BY <1>1, <1>2, <1>4, <1>5, <1>6, <1>7, <1>8, <1>9

(* What is true of the requests in progress stays true of them. *)
LEMMA SoundStays ==
  ASSUME comment \in [CommentIds -> CommentRows], comment' \in [CommentIds -> CommentRows], RowsKept
  PROVE  \A e : Sound(e) => Sound(e)'
<1>1. \A c \in C!Used : c \in C!Used'
  BY CommentKinds DEF RowsKept, C!Used
<1>2. \A c \in C!Used : comment'[c].parent = comment[c].parent /\ comment'[c].record = comment[c].record
  BY CommentKinds DEF RowsKept, C!Used
<1> QED
  BY <1>1, <1>2 DEF Sound

LEMMA WriterEnds ==
  ASSUME CommentsInv, comment' \in [CommentIds -> CommentRows], RowsKept,
         NEW w \in Writers, C!Ends(w)
  PROVE  writing' \in [Writers -> CommentRequests] /\ \A v \in Writers : Sound(writing[v])'
<1>1. /\ writing' \in [Writers -> CommentRequests]
      /\ \A v \in Writers : writing'[v] = writing[v] \/ writing'[v] = C!IdleWriter
  BY DEF CommentsInv, C!Ends, CommentRequests
<1>2. \A e : Sound(e) => Sound(e)'
  BY SoundStays DEF CommentsInv
<1>3. ASSUME NEW v \in Writers
      PROVE  Sound(writing[v])'
  <2>1. Sound(writing[v])
    BY DEF CommentsInv
  <2>2. CASE writing'[v] = writing[v]
    BY <1>2, <2>1, <2>2 DEF Sound
  <2>3. CASE writing'[v] = C!IdleWriter
    BY <2>3 DEF Sound, C!IdleWriter
  <2> QED
    BY <1>1, <2>2, <2>3
<1> QED
  BY <1>1, <1>3

LEMMA EditsKeep ==
  ASSUME CommentsInv, NEW w \in Writers, C!SaveUpdate(w) \/ C!SaveDelete(w)
  PROVE  CommentsInv' /\ C!DeletedForGoodStep
<1>1. NoNewRows /\ C!Ends(w)
  BY SaveUpdateKeeps, SaveDeleteKeeps DEF C!SaveUpdate, C!SaveDelete
<1>2. \A c \in CommentIds : c \in C!Used' <=> c \in C!Used
  BY <1>1, CommentKinds DEF NoNewRows, RowsKept, C!Used, CommentsInv
<1>3. C!ThreadsAreSound'
  <2>1. \A c \in C!Used : /\ comment'[c].by = comment[c].by /\ comment'[c].key = comment[c].key
                          /\ comment'[c].record = comment[c].record
                          /\ comment'[c].parent = comment[c].parent
    BY <1>1, CommentKinds DEF NoNewRows, RowsKept, C!Used
  <2>2. C!Used' = C!Used
    BY <1>2 DEF C!Used
  <2>3. \A n \in told' : n \in told \/ n[1] \in C!Used
    BY <1>1 DEF NoNewRows
  <2> QED
    BY <2>1, <2>2, <2>3 DEF CommentsInv, C!ThreadsAreSound
<1>4. C!DeletedForGoodStep
  BY <1>1, CommentKinds DEF NoNewRows, RowsKept, C!DeletedForGoodStep, C!Used, CommentsInv
<1> QED
  BY <1>1, <1>3, <1>4, WriterEnds DEF NoNewRows, CommentsInv

LEMMA CreateKeeps ==
  ASSUME CommentsInv, NEW w \in Writers, NEW c \in CommentIds, C!InsertComment(w, c)
  PROVE  CommentsInv' /\ C!DeletedForGoodStep
<1> DEFINE e == writing[w]
<1>1. /\ comment' \in [CommentIds -> CommentRows] /\ RowsKept
      /\ comment[c] = C!Free /\ comment'[c] # C!Free
      /\ \A d \in CommentIds : d # c => comment'[d] = comment[d]
      /\ comment'[c].by = e.by /\ comment'[c].key = e.key
      /\ comment'[c].record = e.record /\ comment'[c].parent = e.parent
      /\ e.op = "create" /\ ~C!KeyUsed(e.by, e.key)
      /\ \A n \in told' : n \in told \/ n[1] = c
  BY InsertKeeps
<1>2. C!Used' = C!Used \cup {c} /\ c \notin C!Used
  BY <1>1, CommentKinds DEF C!Used, CommentsInv
<1>3. Sound(e)
  BY DEF CommentsInv
<1>4. C!ThreadsAreSound'
  <2>1. \A d \in C!Used : comment'[d] = comment[d]
    BY <1>1, <1>2 DEF C!Used
  <2>2. \A d \in C!Used : ~(comment[d].by = e.by /\ comment[d].key = e.key /\ e.key # NoKey)
    BY <1>1 DEF C!KeyUsed
  <2>3. \A d, f \in C!Used' : (/\ comment'[d].key = comment'[f].key /\ comment'[d].key # NoKey
                               /\ comment'[d].by = comment'[f].by) => d = f
    BY <1>1, <1>2, <2>1, <2>2 DEF CommentsInv, C!ThreadsAreSound
  <2>4. ASSUME NEW d \in C!Used', comment'[d].parent # NoComment
        PROVE  /\ comment'[d].parent \in C!Used'
               /\ comment'[comment'[d].parent].parent = NoComment
               /\ comment'[comment'[d].parent].record = comment'[d].record
    <3>1. CASE d \in C!Used
      <4>1. comment[d].parent # NoComment /\ comment'[d] = comment[d]
        BY <2>1, <2>4, <3>1
      <4>2. /\ comment[d].parent \in C!Used
            /\ comment[comment[d].parent].parent = NoComment
            /\ comment[comment[d].parent].record = comment[d].record
        BY <3>1, <4>1 DEF CommentsInv, C!ThreadsAreSound
      <4> QED
        BY <1>2, <2>1, <4>1, <4>2
    <3>2. CASE d = c
      <4>1. e.parent \in C!Used /\ comment[e.parent].parent = NoComment
            /\ comment[e.parent].record = e.record
        BY <1>1, <1>3, <2>4, <3>2 DEF Sound
      <4> QED
        BY <1>1, <1>2, <2>1, <3>2, <4>1
    <3> QED
      BY <1>2, <3>1, <3>2
  <2>5. \A n \in told' : n[1] \in C!Used'
    BY <1>1, <1>2 DEF CommentsInv, C!ThreadsAreSound
  <2> QED
    BY <2>3, <2>4, <2>5 DEF C!ThreadsAreSound
<1>5. C!DeletedForGoodStep
  BY <1>1, CommentKinds DEF RowsKept, C!DeletedForGoodStep, C!Used, CommentsInv
<1>6. C!Ends(w)
  BY DEF C!InsertComment
<1> QED
  BY <1>1, <1>4, <1>5, <1>6, WriterEnds DEF CommentsInv

(* The other steps change no row. *)
LEMMA BeginKeeps ==
  ASSUME CommentsInv, NEW w \in Writers, NEW e \in CommentRequests, Sound(e),
         C!BeginWriting(w, e)
  PROVE  CommentsInv'
<1>1. comment' = comment /\ told' = told /\ writing' = [writing EXCEPT ![w] = e]
  BY DEF C!BeginWriting
<1>2. writing' \in [Writers -> CommentRequests] /\ \A v \in Writers : Sound(writing'[v])
  BY <1>1 DEF CommentsInv
<1>3. \A v \in Writers : Sound(writing[v])'
  BY <1>1, <1>2 DEF Sound, C!Used
<1>4. C!ThreadsAreSound'
  BY <1>1 DEF CommentsInv, C!ThreadsAreSound, C!Used
<1> QED
  BY <1>1, <1>2, <1>3, <1>4 DEF CommentsInv

LEMMA CommentsInit == C!InitComments => CommentsInv
BY DEF C!InitComments, CommentsInv, CommentRows, CommentRequests, Sound, C!IdleWriter, C!Free,
       C!ThreadsAreSound, C!Used

LEMMA CommentsStep ==
  ASSUME CommentsInv, [C!NextComments]_(C!varsComments)
  PROVE  CommentsInv' /\ C!DeletedForGoodStep
<1>0. ASSUME comment' = comment, told' = told,
             writing' = writing \/ \E w \in Writers : C!Ends(w)
      PROVE  CommentsInv' /\ C!DeletedForGoodStep
  <2>1. RowsKept /\ comment' \in [CommentIds -> CommentRows]
    BY <1>0 DEF RowsKept, CommentsInv
  <2>2. C!ThreadsAreSound' /\ C!DeletedForGoodStep
    BY <1>0 DEF CommentsInv, C!ThreadsAreSound, C!Used, C!DeletedForGoodStep
  <2>3. writing' \in [Writers -> CommentRequests] /\ \A v \in Writers : Sound(writing[v])'
    <3>1. CASE writing' = writing
      BY <1>0, <3>1 DEF CommentsInv, Sound, C!Used
    <3> QED
      BY <1>0, <2>1, <3>1, WriterEnds
  <2> QED
    BY <2>1, <2>2, <2>3 DEF CommentsInv
<1>1. ASSUME NEW r \in CommentedRecords, C!ChangeRecord(r)
      PROVE  CommentsInv' /\ C!DeletedForGoodStep
  BY <1>0, <1>1 DEF C!ChangeRecord
<1>2. ASSUME NEW w \in Writers, NEW e \in CommentRequests, Sound(e), C!BeginWriting(w, e)
      PROVE  CommentsInv' /\ C!DeletedForGoodStep
  BY <1>2, BeginKeeps DEF C!BeginWriting, C!DeletedForGoodStep
<1>3. ASSUME NEW w \in Writers, NEW a \in Authors, NEW m \in SUBSET Authors, NEW r \in CommentedRecords,
             NEW p \in CommentIds \cup {NoComment}, NEW k \in ClientKeys \cup {NoKey},
             C!BeginCreate(w, a, r, p, m, k)
      PROVE  CommentsInv' /\ C!DeletedForGoodStep
  <2> DEFINE e == [op |-> "create", by |-> a, record |-> r, parent |-> p, mentions |-> m, key |-> k]
  <2>1. C!BeginWriting(w, e) /\ C!ParentAllowed(p, r) /\ p \in C!Used \cup {NoComment}
    BY <1>3 DEF C!BeginCreate
  <2>2. e \in CommentRequests
    BY DEF CommentRequests
  <2>3. Sound(e)
    BY <2>1 DEF C!ParentAllowed, Sound
  <2> HIDE DEF e
  <2> QED
    BY <1>2, <2>1, <2>2, <2>3
<1>4. ASSUME NEW w \in Writers, NEW a \in Authors, NEW m \in SUBSET Authors, NEW c \in CommentIds,
             C!BeginUpdate(w, a, c, m)
      PROVE  CommentsInv' /\ C!DeletedForGoodStep
  <2> DEFINE e == [op |-> "update", by |-> a, id |-> c, read |-> comment[c], mentions |-> m]
  <2>1. C!BeginWriting(w, e) /\ comment[c].state = "live" /\ comment[c] \in CommentRows
    BY <1>4 DEF C!BeginUpdate, C!Live, CommentsInv
  <2>2. e \in CommentRequests /\ Sound(e)
    BY <2>1 DEF CommentRequests, Sound, C!Used, C!Free
  <2> QED
    BY <2>1, <2>2, BeginKeeps DEF C!BeginWriting, C!DeletedForGoodStep
<1>5. ASSUME NEW w \in Writers, NEW a \in Authors, NEW c \in CommentIds, C!BeginDelete(w, a, c)
      PROVE  CommentsInv' /\ C!DeletedForGoodStep
  <2> DEFINE e == [op |-> "delete", by |-> a, id |-> c, read |-> comment[c]]
  <2>1. C!BeginWriting(w, e) /\ comment[c].state = "live" /\ comment[c] \in CommentRows
    BY <1>5 DEF C!BeginDelete, C!Live, CommentsInv
  <2>2. e \in CommentRequests /\ Sound(e)
    BY <2>1 DEF CommentRequests, Sound, C!Used, C!Free
  <2> QED
    BY <2>1, <2>2, BeginKeeps DEF C!BeginWriting, C!DeletedForGoodStep
<1>6. ASSUME NEW w \in Writers, C!SaveUpdate(w) \/ C!SaveDelete(w) \/ C!GiveUp(w)
      PROVE  CommentsInv' /\ C!DeletedForGoodStep
  BY <1>0, <1>6, EditsKeep DEF C!GiveUp
<1>7. ASSUME NEW w \in Writers, NEW c \in CommentIds, C!InsertComment(w, c)
      PROVE  CommentsInv' /\ C!DeletedForGoodStep
  BY <1>7, CreateKeeps
<1>8. CASE UNCHANGED C!varsComments
  BY <1>0, <1>8 DEF C!varsComments
<1> QED
  BY <1>1, <1>3, <1>4, <1>5, <1>6, <1>7, <1>8 DEF C!NextComments

(* Whatever requests overlap, stop or are repeated, a client key makes one   *)
(* comment, replies stay one level deep on the record of their parent, and  *)
(* nobody is told of a comment that does not exist (createRecordComment,    *)
(* updateRecordComment, deleteRecordComment).                               *)
THEOREM ThreadsStaySound == C!SpecComments => []C!ThreadsAreSound
<1>1. C!InitComments => CommentsInv
  BY CommentsInit
<1>2. CommentsInv /\ [C!NextComments]_(C!varsComments) => CommentsInv'
  BY CommentsStep
<1>3. CommentsInv => C!ThreadsAreSound
  BY DEF CommentsInv
<1> QED
  BY <1>1, <1>2, <1>3, PTL DEF C!SpecComments

(* A deleted comment stays deleted, although an edit that had read it while  *)
(* it was live may be written after the deletion: it writes only the        *)
(* columns it changes (updateRecordComment).                                *)
THEOREM DeletedCommentsStay == C!SpecComments => C!DeletedForGood
<1>1. C!InitComments => CommentsInv
  BY CommentsInit
<1>2. CommentsInv /\ [C!NextComments]_(C!varsComments) => CommentsInv' /\ C!DeletedForGoodStep
  BY CommentsStep
<1> QED
  BY <1>1, <1>2, PTL DEF C!SpecComments, C!DeletedForGood

(* Types: what ThreadsAreSound leaves open is who is told and of what.      *)
NoticesTyped == told \subseteq CommentIds \X Authors \X {"mention", "reply"}

LEMMA CommentTypes == CommentsInv /\ NoticesTyped => C!TypeOKComments
<1> SUFFICES ASSUME CommentsInv, NoticesTyped PROVE C!TypeOKComments
  OBVIOUS
<1>1. \A c \in CommentIds : comment[c].state \in {"free", "live", "deleted"}
  BY CommentKinds DEF CommentsInv, C!Free
<1>2. \A w \in Writers : writing[w].op \in {"idle", "create", "update", "delete"}
  BY DEF CommentsInv, CommentRequests, C!IdleWriter
<1> QED
  BY <1>1, <1>2 DEF NoticesTyped, C!TypeOKComments

LEMMA NoticesKept ==
  ASSUME CommentsInv, NoticesTyped, [C!NextComments]_(C!varsComments)
  PROVE  NoticesTyped'
<1>1. ASSUME NEW w \in Writers, C!SaveUpdate(w)
      PROVE  NoticesTyped'
  <2>1. writing[w] \in [op : {"update"}, by : Authors, id : CommentIds, read : CommentRows,
                        mentions : SUBSET Authors]
    BY <1>1, CommentRequestKinds DEF CommentsInv, C!SaveUpdate
  <2>2. C!MentionNotices(writing[w].id, C!Added(writing[w]), writing[w].by)
          \subseteq CommentIds \X Authors \X {"mention", "reply"}
    BY <2>1 DEF C!MentionNotices, C!Added
  <2> QED
    BY <1>1, <2>2 DEF C!SaveUpdate, NoticesTyped
<1>2. ASSUME NEW w \in Writers, NEW c \in CommentIds, C!InsertComment(w, c)
      PROVE  NoticesTyped'
  <2> DEFINE e == writing[w]
  <2>1. e \in [op : {"create"}, by : Authors, record : CommentedRecords,
               parent : CommentIds \cup {NoComment}, mentions : SUBSET Authors,
               key : ClientKeys \cup {NoKey}]
    BY <1>2, CommentRequestKinds DEF CommentsInv, C!InsertComment
  <2>2. C!MentionNotices(c, e.mentions, e.by) \subseteq CommentIds \X Authors \X {"mention", "reply"}
    BY <2>1 DEF C!MentionNotices
  <2>3. C!ReplyNotices(c, e) \subseteq CommentIds \X Authors \X {"mention", "reply"}
    <3>1. CASE e.parent = NoComment
      BY <3>1 DEF C!ReplyNotices
    <3>2. CASE e.parent # NoComment
      <4>1. Sound(e) /\ e.op = "create"
        BY <2>1 DEF CommentsInv
      <4>2. e.parent \in C!Used
        BY <3>2, <4>1 DEF Sound
      <4>3. comment[e.parent] \in CommentRows /\ comment[e.parent] # C!Free /\ e.parent \in CommentIds
        BY <4>2 DEF CommentsInv, C!Used, C!Free
      <4>4. comment[e.parent].by \in Authors
        BY <4>3, CommentKinds
      <4> QED
        BY <4>4 DEF C!ReplyNotices
    <3> QED
      BY <3>1, <3>2
  <2> QED
    BY <1>2, <2>2, <2>3 DEF C!InsertComment, NoticesTyped
<1>3. told' = told => NoticesTyped'
  BY DEF NoticesTyped
<1>4. UNCHANGED C!varsComments => told' = told
  BY DEF C!varsComments
<1> QED
  BY <1>1, <1>2, <1>3, <1>4 DEF C!NextComments, C!ChangeRecord, C!BeginCreate, C!BeginUpdate,
     C!BeginDelete, C!BeginWriting, C!SaveDelete, C!GiveUp

(* The history is a list of change items. *)
ActivityListed ==
    activity \in Seq([record : CommentedRecords, of : CommentIds \cup {NoComment},
                      op : {"record", "create", "update", "delete"}])

LEMMA CommentsListedInit == C!InitComments => NoticesTyped /\ ActivityListed
<1> SUFFICES ASSUME C!InitComments PROVE NoticesTyped /\ ActivityListed
  OBVIOUS
<1>1. told = {} /\ activity = <<>>
  BY DEF C!InitComments
<1> QED
  BY <1>1 DEF NoticesTyped, ActivityListed

LEMMA ActivityKept ==
  ASSUME CommentsInv, ActivityListed, [C!NextComments]_(C!varsComments)
  PROVE  ActivityListed'
<1>1. ASSUME NEW r \in CommentedRecords, C!ChangeRecord(r)
      PROVE  ActivityListed'
  BY <1>1 DEF C!ChangeRecord, ActivityListed
<1>2. ASSUME NEW c \in CommentIds, NEW op \in {"create", "update", "delete"}, C!Log(c, op),
             comment'[c].record \in CommentedRecords
      PROVE  ActivityListed'
  BY <1>2 DEF C!Log, ActivityListed
<1>3. ASSUME NEW w \in Writers, C!SaveUpdate(w)
      PROVE  ActivityListed'
  <2> DEFINE id == writing[w].id
  <2>1. id \in CommentIds /\ comment[id] # C!Free
    BY <1>3, CommentRequestKinds, CommentKinds DEF CommentsInv, C!SaveUpdate, Sound, C!Used, C!Free
  <2>2. comment[id].record \in CommentedRecords
    BY <2>1, CommentKinds DEF CommentsInv
  <2>3. comment'[id].record = comment[id].record
    BY <1>3, <2>1, SaveUpdateKeeps DEF NoNewRows, RowsKept
  <2>4. C!Log(id, "update")
    BY <1>3 DEF C!SaveUpdate
  <2> QED
    BY <1>2, <2>1, <2>2, <2>3, <2>4
<1>4. ASSUME NEW w \in Writers, C!SaveDelete(w)
      PROVE  ActivityListed'
  <2> DEFINE id == writing[w].id
  <2>1. id \in CommentIds /\ comment[id] # C!Free
    BY <1>4, CommentRequestKinds, CommentKinds DEF CommentsInv, C!SaveDelete, Sound, C!Used, C!Free
  <2>2. comment[id].record \in CommentedRecords
    BY <2>1, CommentKinds DEF CommentsInv
  <2>3. comment'[id].record = comment[id].record
    BY <1>4, <2>1, <2>2 DEF C!SaveDelete, CommentsInv
  <2>4. C!Log(id, "delete")
    BY <1>4 DEF C!SaveDelete
  <2> QED
    BY <1>2, <2>1, <2>2, <2>3, <2>4
<1>5. ASSUME NEW w \in Writers, NEW c \in CommentIds, C!InsertComment(w, c)
      PROVE  ActivityListed'
  <2>1. writing[w].record \in CommentedRecords
    BY <1>5, CommentRequestKinds DEF CommentsInv, C!InsertComment
  <2>2. comment'[c].record = writing[w].record
    BY <1>5 DEF C!InsertComment, CommentsInv
  <2>3. C!Log(c, "create")
    BY <1>5 DEF C!InsertComment
  <2> QED
    BY <1>2, <2>1, <2>2, <2>3
<1>6. activity' = activity => ActivityListed'
  BY DEF ActivityListed
<1>7. UNCHANGED C!varsComments => activity' = activity
  BY DEF C!varsComments
<1> QED
  BY <1>1, <1>3, <1>4, <1>5, <1>6, <1>7 DEF C!NextComments, C!BeginCreate, C!BeginUpdate,
     C!BeginDelete, C!BeginWriting, C!GiveUp

(* Induction: a set of numbers that is not empty has a least one. *)
LEMMA LeastNat ==
  ASSUME NEW T \in SUBSET Nat, T # {}
  PROVE  \E n \in T : \A m \in T : n <= m
<1>1. PICK n \in T : \A m \in T : ~ (<<m, n>> \in OpToRel(<, Nat))
  BY WFMin, NatLessThanWellFounded
<1>2. ASSUME NEW m \in T PROVE n <= m
  <2>1. OpToRel(<, Nat) = {p \in Nat \X Nat : p[1] < p[2]}
    BY DEF OpToRel
  <2>2. ~ (<<m, n>> \in {p \in Nat \X Nat : p[1] < p[2]})
    BY <1>1, <2>1
  <2> QED
    BY <2>2
<1> QED
  BY <1>2

(* The pages that begin at the places up to last: each shows page, and what *)
(* begins at its stop when there is more.                                  *)
Paging(f, last, page, more, stop) ==
    /\ f = [o \in 0..last |-> f[o]]
    /\ \A o \in 0..last : f[o] = page[o] \o (IF o \in more THEN f[stop[o]] ELSE <<>>)

StopsLater(last, more, stop) == \A o \in 0..last : o \in more => stop[o] \in o + 1 .. last

(* The pages are a function of the place where they begin: each is written   *)
(* in terms of a later one, so that there is such a function.               *)
LEMMA PagesExist ==
  ASSUME NEW last \in Nat, NEW page, NEW more, NEW stop, StopsLater(last, more, stop)
  PROVE  \E f : Paging(f, last, page, more, stop)
<1>0. \A o \in 0..last : o \in more => stop[o] \in o + 1 .. last
  BY DEF StopsLater
<1> DEFINE Next(f, o) == page[o] \o (IF o \in more THEN f[stop[o]] ELSE <<>>)
           Upto(n) == \E f : \A o \in 0..last : o > last - n => f[o] = Next(f, o)
           T == {n \in 0..last + 1 : ~ Upto(n)}
<1>1. ASSUME NEW n \in 1..last + 1, Upto(n - 1)
      PROVE  Upto(n)
  <2>1. PICK f : \A o \in 0..last : o > last - (n - 1) => f[o] = Next(f, o)
    BY <1>1
  <2> DEFINE k == last - n + 1
             g == [o \in 0..last |-> IF o = k THEN Next(f, k) ELSE f[o]]
  <2>2. k \in 0..last /\ \A o \in 0..last : o > last - n <=> o = k \/ o > last - (n - 1)
    OBVIOUS
  <2>3. ASSUME NEW o \in 0..last, o > last - n
        PROVE  g[o] = Next(g, o)
    <3>1. o \in more => stop[o] \in 0..last /\ stop[o] # k
      BY <1>0, <2>2, <2>3
    <3>2. Next(g, o) = Next(f, o)
      BY <3>1
    <3>3. CASE o = k
      BY <3>2, <3>3
    <3>4. CASE o # k
      <4> HIDE DEF Next, k
      <4>1. f[o] = Next(f, o)
        BY <2>1, <2>2, <2>3, <3>4
      <4>2. g[o] = f[o]
        BY <3>4
      <4> QED
        BY <3>2, <4>1, <4>2
    <3> QED
      BY <3>3, <3>4
  <2> HIDE DEF g, Next
  <2> QED
    BY <2>3
<1>2. Upto(0)
  <2> HIDE DEF Next
  <2>1. \A o \in 0..last : ~ (o > last - 0)
    OBVIOUS
  <2> QED
    BY <2>1
<1> HIDE DEF Upto
<1>3. ASSUME T # {} PROVE FALSE
  <2>1. T \subseteq Nat
    OBVIOUS
  <2>2. PICK n \in T : \A m \in T : n <= m
    BY <1>3, <2>1, LeastNat
  <2>3. n \in 1..last + 1
    BY <1>2
  <2>4. n - 1 \in 0..last + 1 /\ n - 1 \notin T
    BY <2>2, <2>3
  <2> QED
    BY <1>1, <2>3, <2>4
<1>4. Upto(last + 1)
  BY <1>3
<1>5. PICK f : \A o \in 0..last : f[o] = Next(f, o)
  <2> HIDE DEF Next
  <2>1. PICK f : \A o \in 0..last : o > last - (last + 1) => f[o] = Next(f, o)
    BY <1>4 DEF Upto
  <2>2. \A o \in 0..last : o > last - (last + 1)
    OBVIOUS
  <2> QED
    BY <2>1, <2>2
<1> DEFINE g == [o \in 0..last |-> f[o]]
<1>6. ASSUME NEW o \in 0..last
      PROVE  Next(g, o) = Next(f, o)
  <2>1. o \in more => stop[o] \in 0..last
    BY <1>0
  <2> QED
    BY <2>1
<1>7. g = [o \in 0..last |-> g[o]] /\ \A o \in 0..last : g[o] = Next(g, o)
  <2> HIDE DEF Next
  <2> QED
    BY <1>5, <1>6
<1> HIDE DEF g
<1>8. Paging(g, last, page, more, stop)
  BY <1>7 DEF Paging
<1> QED
  BY <1>8

(* A page ends at a later place, unless it is the last one. *)
LEMMA PagesMoveOn ==
  ASSUME NEW rs, NEW limit, NEW offset \in 0..Len(C!Newest), Len(C!Newest) \in Nat
  PROVE  /\ C!Stop(rs, offset, limit) \in offset .. Len(C!Newest)
         /\ C!HasMore(rs, offset, limit) => C!Stop(rs, offset, limit) > offset
         /\ ~ C!HasMore(rs, offset, limit) => C!Stop(rs, offset, limit) = Len(C!Newest)
<1> DEFINE last == Len(C!Newest)
           full == {i \in offset + 1 .. last : C!PageFull(rs, offset, limit, i)}
           stop == C!Stop(rs, offset, limit)
<1>1. stop = IF full = {} THEN last ELSE CHOOSE i \in full : \A j \in full : i <= j
  BY DEF C!Stop
<1>2. C!HasMore(rs, offset, limit) => stop > offset
  BY DEF C!HasMore
<1>3. stop > offset /\ C!PageFull(rs, offset, limit, stop) /\ stop < last => C!HasMore(rs, offset, limit)
  BY DEF C!HasMore
<1>4. CASE full = {}
  BY <1>1, <1>2, <1>4
<1>5. CASE full # {}
  <2>1. full \subseteq Nat
    OBVIOUS
  <2>2. \E i \in full : \A j \in full : i <= j
    BY <1>5, <2>1, LeastNat
  <2>3. stop \in full
    BY <1>1, <1>5, <2>2
  <2>4. stop \in offset + 1 .. last /\ C!PageFull(rs, offset, limit, stop)
    BY <2>3
  <2>5. stop > offset /\ (stop < last \/ stop = last)
    BY <2>4
  <2>6. stop < last => C!HasMore(rs, offset, limit)
    BY <1>3, <2>4, <2>5
  <2> HIDE DEF stop
  <2> QED
    BY <1>2, <2>4, <2>5, <2>6 DEF stop
<1> QED
  BY <1>4, <1>5

(* What the pages from a place on show. *)
ShowsFrom(rs, offset, s) ==
    /\ s \in Seq(SUBSET (offset + 1 .. Len(C!Newest)))
    /\ \A j \in offset + 1 .. Len(C!Newest) :
         C!ShownAt(rs, j) <=> \E i \in 1..Len(s) : j \in s[i]
    /\ \A i, k \in 1..Len(s) : i < k => \A x \in s[i], y \in s[k] : x < y

LEMMA OnePageMore ==
  ASSUME NEW rs, NEW offset \in Nat, NEW stop \in Nat, offset <= stop, stop <= Len(C!Newest),
         Len(C!Newest) \in Nat, NEW s,
         ShowsFrom(rs, stop, s) \/ (s = <<>> /\ stop = Len(C!Newest))
  PROVE  ShowsFrom(rs, offset, <<C!Shown(rs, offset, stop)>> \o s)
<1> DEFINE last == Len(C!Newest)
           page == C!Shown(rs, offset, stop)
           t == <<page>> \o s
<1>1. page = {j \in offset + 1 .. stop : C!ShownAt(rs, j)}
  BY DEF C!Shown
<1>2. /\ s \in Seq(SUBSET (stop + 1 .. last))
      /\ \A j \in stop + 1 .. last : C!ShownAt(rs, j) <=> \E i \in 1..Len(s) : j \in s[i]
      /\ \A i, k \in 1..Len(s) : i < k => \A x \in s[i], y \in s[k] : x < y
  <2>1. CASE ShowsFrom(rs, stop, s)
    BY <2>1 DEF ShowsFrom
  <2>2. CASE s = <<>> /\ stop = last
    <3>1. Len(s) = 0 /\ stop + 1 .. last = {}
      BY <2>2
    <3> QED
      BY <2>2, <3>1
  <2> QED
    BY <2>1, <2>2
<1> HIDE DEF page, last
<1>3. page \subseteq offset + 1 .. stop /\ page \subseteq offset + 1 .. last
  BY <1>1 DEF last
<1>4. s \in Seq(SUBSET (offset + 1 .. last))
  <2>1. \A i \in 1..Len(s) : s[i] \in SUBSET (stop + 1 .. last)
    BY <1>2
  <2>2. (stop + 1 .. last) \subseteq (offset + 1 .. last)
    BY DEF last
  <2>3. \A i \in 1..Len(s) : s[i] \in SUBSET (offset + 1 .. last)
    BY <2>1, <2>2
  <2> QED
    BY <1>2, <2>3
<1>5. /\ t \in Seq(SUBSET (offset + 1 .. last)) /\ Len(t) = Len(s) + 1
      /\ t[1] = page /\ \A i \in 1..Len(s) : t[i + 1] = s[i]
  BY <1>3, <1>4
<1>6. \A i \in 1..Len(t) : i = 1 \/ (i - 1 \in 1..Len(s) /\ t[i] = s[i - 1])
  BY <1>4, <1>5
<1> HIDE DEF t
<1>7. ASSUME NEW j \in offset + 1 .. last
      PROVE  C!ShownAt(rs, j) <=> \E i \in 1..Len(t) : j \in t[i]
  <2>1. CASE j <= stop
    <3>1. \A i \in 1..Len(s) : j \notin s[i]
      BY <1>2, <2>1
    <3>2. j \in offset + 1 .. stop
      BY <2>1, <1>7 DEF last
    <3>3. C!ShownAt(rs, j) <=> j \in t[1]
      BY <1>1, <1>5, <3>2
    <3>4. 1 \in 1..Len(t)
      BY <1>4, <1>5
    <3> QED
      BY <1>6, <3>1, <3>3, <3>4
  <2>2. CASE j > stop
    <3>1. j \in stop + 1 .. last
      BY <2>2, <1>7 DEF last
    <3>2. j \notin t[1]
      BY <1>3, <1>5, <2>2
    <3>3. C!ShownAt(rs, j) <=> \E i \in 1..Len(s) : j \in s[i]
      BY <1>2, <3>1
    <3>4. \A i \in 1..Len(s) : i + 1 \in 1..Len(t)
      BY <1>4, <1>5
    <3> QED
      BY <1>5, <1>6, <3>2, <3>3, <3>4
  <2> QED
    BY <2>1, <2>2, <1>7 DEF last
<1>8. ASSUME NEW i \in 1..Len(t), NEW k \in 1..Len(t), i < k, NEW x \in t[i], NEW y \in t[k]
      PROVE  x < y
  <2>1. k # 1 /\ k - 1 \in 1..Len(s) /\ y \in s[k - 1]
    BY <1>6, <1>8, <1>4, <1>5
  <2>2. CASE i = 1
    <3>1. y \in stop + 1 .. last
      BY <1>2, <2>1
    <3>2. x \in offset + 1 .. stop
      BY <1>3, <1>5, <1>8, <2>2
    <3> QED
      BY <3>1, <3>2 DEF last
  <2>3. CASE i # 1
    <3>1. i - 1 \in 1..Len(s) /\ x \in s[i - 1] /\ i - 1 < k - 1
      BY <1>6, <1>8, <2>3, <1>4, <1>5
    <3>2. \A a \in s[i - 1], b \in s[k - 1] : a < b
      BY <1>2, <2>1, <3>1
    <3> QED
      BY <2>1, <3>1, <3>2
  <2> QED
    BY <2>2, <2>3
<1> QED
  BY <1>5, <1>7, <1>8 DEF ShowsFrom, t, last, page

(* The pages of a scan show everything that is to be shown, once, in order. *)
LEMMA PagesShowAll ==
  ASSUME NEW rs, NEW limit, Len(C!Newest) \in Nat
  PROVE  C!OnceInOrder(rs, C!AllPages(rs, limit))
<1> DEFINE last == Len(C!Newest)
           stop == [o \in 0..last |-> C!Stop(rs, o, limit)]
           more == {o \in 0..last : C!HasMore(rs, o, limit)}
           page == [o \in 0..last |-> <<C!Shown(rs, o, C!Stop(rs, o, limit))>>]
           pages == CHOOSE p : p = [offset \in 0..last |->
                      <<C!Shown(rs, offset, C!Stop(rs, offset, limit))>>
                        \o (IF C!HasMore(rs, offset, limit) THEN p[C!Stop(rs, offset, limit)] ELSE <<>>)]
<1>1. StopsLater(last, more, stop)
  <2>1. ASSUME NEW o \in 0..last, C!HasMore(rs, o, limit)
        PROVE  C!Stop(rs, o, limit) \in o + 1 .. last
    BY <2>1, PagesMoveOn
  <2> QED
    BY <2>1 DEF StopsLater
<1>2. last \in Nat
  OBVIOUS
<1>3. \E f : Paging(f, last, page, more, stop)
  <2> HIDE DEF last, page, more, stop, pages
  <2> QED
    BY <1>1, <1>2, PagesExist
<1>34. \E f : f = [offset \in 0..last |->
                    <<C!Shown(rs, offset, C!Stop(rs, offset, limit))>>
                      \o (IF C!HasMore(rs, offset, limit) THEN f[C!Stop(rs, offset, limit)] ELSE <<>>)]
  <2>1. PICK f : Paging(f, last, page, more, stop)
    BY <1>3
  <2>3. /\ f = [o \in 0..last |-> f[o]]
        /\ \A o \in 0..last : f[o] = page[o] \o (IF o \in more THEN f[stop[o]] ELSE <<>>)
    BY <2>1 DEF Paging
  <2>2. ASSUME NEW o \in 0..last
        PROVE  f[o] = <<C!Shown(rs, o, C!Stop(rs, o, limit))>>
                        \o (IF C!HasMore(rs, o, limit) THEN f[C!Stop(rs, o, limit)] ELSE <<>>)
    BY <2>3
  <2> QED
    BY <2>2, <2>3
<1>4. pages = [offset \in 0..last |->
                 <<C!Shown(rs, offset, C!Stop(rs, offset, limit))>>
                   \o (IF C!HasMore(rs, offset, limit) THEN pages[C!Stop(rs, offset, limit)] ELSE <<>>)]
  BY <1>34
<1>5. C!AllPages(rs, limit) = pages[0]
  BY DEF C!AllPages
<1> HIDE DEF pages
<1> DEFINE T == {n \in 0..last : ~ ShowsFrom(rs, last - n, pages[last - n])}
<1>6. ASSUME T # {} PROVE FALSE
  <2>1. T \subseteq Nat
    OBVIOUS
  <2>2. PICK n \in T : \A m \in T : n <= m
    BY <1>6, <2>1, LeastNat
  <2> DEFINE o == last - n
             at == C!Stop(rs, o, limit)
             rest == IF C!HasMore(rs, o, limit) THEN pages[at] ELSE <<>>
  <2>3. o \in 0..last /\ ~ ShowsFrom(rs, o, pages[o])
    BY <2>2
  <2>4. /\ at \in o..last
        /\ C!HasMore(rs, o, limit) => at > o
        /\ ~ C!HasMore(rs, o, limit) => at = last
    BY <2>3, PagesMoveOn
  <2>5. pages[o] = <<C!Shown(rs, o, at)>> \o rest
    BY <1>4, <2>3
  <2>6. ShowsFrom(rs, at, rest) \/ (rest = <<>> /\ at = last)
    <3>1. CASE C!HasMore(rs, o, limit)
      <4> HIDE DEF at
      <4>1. last - at \in 0..last /\ last - at < n /\ last - (last - at) = at
        BY <2>2, <2>3, <2>4, <3>1
      <4>2. last - at \notin T
        BY <2>2, <4>1
      <4>3. ShowsFrom(rs, at, pages[at])
        BY <4>1, <4>2
      <4> QED
        BY <3>1, <4>3
    <3>2. CASE ~ C!HasMore(rs, o, limit)
      BY <2>4, <3>2
    <3> QED
      BY <3>1, <3>2
  <2> HIDE DEF rest, at
  <2>7. ShowsFrom(rs, o, <<C!Shown(rs, o, at)>> \o rest)
    <3> HIDE DEF o
    <3> QED
      BY <2>3, <2>4, <2>6, OnePageMore
  <2> QED
    BY <2>3, <2>5, <2>7
<1>7. ShowsFrom(rs, 0, pages[0])
  <2>1. last \in 0..last /\ last \notin T /\ last - last = 0
    BY <1>6
  <2> QED
    BY <2>1
<1> DEFINE s == pages[0]
<1>8. DOMAIN s = 1..Len(s) /\ C!ToSet(s) = {s[i] : i \in DOMAIN s}
  BY <1>7 DEF ShowsFrom, C!ToSet
<1>9. \A i \in 1..Len(s) : s[i] \subseteq 1..last
  BY <1>7 DEF ShowsFrom
<1>10. UNION C!ToSet(s) = {j \in 1..last : C!ShownAt(rs, j)}
  BY <1>7, <1>8, <1>9 DEF ShowsFrom
<1> QED
  BY <1>5, <1>7, <1>8, <1>10 DEF ShowsFrom, C!OnceInOrder

LEMMA PagesComplete == ActivityListed => C!ActivityPagesComplete
<1> SUFFICES ASSUME ActivityListed PROVE C!ActivityPagesComplete
  OBVIOUS
<1>1. Len(C!Newest) \in Nat
  <2>1. Len(activity) \in Nat
    BY DEF ActivityListed
  <2>2. C!Newest = [i \in 1..Len(activity) |-> activity[(Len(activity) - i) + 1]]
    BY DEF C!Newest, C!Reverse
  <2> QED
    BY <2>1, <2>2
<1>2. \A rs, limit : C!OnceInOrder(rs, C!AllPages(rs, limit))
  BY <1>1, PagesShowAll
<1> QED
  BY <1>2 DEF C!ActivityPagesComplete, C!ListRecordActivity, C!ActivitySection

(* Paging through the activity shows every change once, newest first, for   *)
(* every number of changes and every page, batch and cap size               *)
(* (list_record_activity, the activity section of My Work).                 *)
THEOREM PagesShowEveryChange == C!SpecComments => []C!ActivityPagesComplete
<1>1. C!InitComments => CommentsInv /\ ActivityListed
  BY CommentsInit, CommentsListedInit
<1>2. CommentsInv /\ ActivityListed /\ [C!NextComments]_(C!varsComments) => (CommentsInv /\ ActivityListed)'
  BY CommentsStep, ActivityKept
<1>3. ActivityListed => C!ActivityPagesComplete
  BY PagesComplete
<1> QED
  BY <1>1, <1>2, <1>3, PTL DEF C!SpecComments

-----------------------------------------------------------------------------
(* SourceInbox: captured sources, clips, and the tasks made of them.       *)

CONSTANTS ItemIds, Sources, Contents, Tables, NoTable, ClipKeys, MaxRequests
VARIABLES item, task, receipt, work, overwritten, requests
I == INSTANCE SourceInbox

(* The items of the inbox and the keys of the clipper are different things. *)
KeysAreNoItems == ItemIds \cap ClipKeys = {}

ItemRows ==
    {I!NoItem} \cup
    [src : Sources, content : Contents, status : I!MutableStatuses \cup {"duplicate", "converted"},
     target : Tables \cup {NoTable}, record : Nat]

InboxRequests ==
    {I!Waiting}
    \cup [op : {"ingest"}, src : Sources, content : Contents, status : {"pending", "duplicate"}]
    \cup [op : {"preview", "convert"}, id : ItemIds, table : Tables]
    \cup [op : {"status"}, ids : SUBSET ItemIds, to : I!MutableStatuses]
    \cup [op : {"clip"}, key : ClipKeys, table : Tables]

InboxTypes ==
    /\ item \in [ItemIds -> ItemRows]
    /\ work \in [Workers -> InboxRequests]
    /\ receipt \in [ClipKeys -> [task : Nat]]
    /\ IsFiniteSet(task)
    /\ \A x \in task : x.id \in Nat \ {0} /\ x.from \in ItemIds \cup ClipKeys

(* An item is locked by one conversion, which has it as it was when it was   *)
(* locked; other requests know items that exist.                           *)
ConvertsOwnTheirItems ==
    /\ \A w \in Workers : work[w].op \in {"preview", "convert"} => item[work[w].id] # I!NoItem
    /\ \A w \in Workers : work[w].op = "status" => \A i \in work[w].ids : item[i] # I!NoItem
    /\ \A w \in Workers : work[w].op = "convert" => item[work[w].id].status # "converted"
    /\ \A v, w \in Workers : work[v].op = "convert" /\ work[w].op = "convert"
                             /\ work[v].id = work[w].id => v = w

(* What was made of an item or a key is what its row says, except where a    *)
(* status change hid it.                                                    *)
MadeOnce ==
    /\ \A s \in Sources : \A i, j \in I!ItemOf(s) : i = j
    /\ \A i \in ItemIds : item[i].status = "converted" =>
         \E x \in task : x.id = item[i].record /\ x.from = i
    /\ \A x \in task : x.from \in ItemIds \ overwritten => item[x.from].status = "converted"
    /\ \A x, y \in task : x.from = y.from /\ x.from \in ItemIds \ overwritten => x = y
    /\ \A k \in ClipKeys : receipt[k].task # 0 => \E x \in task : x.from = k /\ x.id = receipt[k].task
    /\ \A x \in task : x.from \in ClipKeys => x.id = receipt[x.from].task

InboxInv == InboxTypes /\ ConvertsOwnTheirItems /\ MadeOnce

LEMMA InboxInit == I!InitInbox => InboxInv
<1> SUFFICES ASSUME I!InitInbox PROVE InboxInv
  OBVIOUS
<1>1. IsFiniteSet({})
  BY FS_EmptySet
<1>2. InboxTypes
  BY <1>1 DEF I!InitInbox, InboxTypes, ItemRows, InboxRequests, I!NoReceipt
<1>3. ConvertsOwnTheirItems
  BY DEF I!InitInbox, ConvertsOwnTheirItems, I!Waiting
<1>4. MadeOnce
  BY DEF I!InitInbox, MadeOnce, I!NoItem, I!NoReceipt, I!ItemOf, I!Items
<1> QED
  BY <1>2, <1>3, <1>4 DEF InboxInv

LEMMA InboxKinds ==
  /\ \A x \in ItemRows : x.status = "none" <=> x = I!NoItem
  /\ \A x \in ItemRows : x # I!NoItem =>
       x \in [src : Sources, content : Contents,
              status : I!MutableStatuses \cup {"duplicate", "converted"},
              target : Tables \cup {NoTable}, record : Nat]
BY DEF ItemRows, I!NoItem, I!MutableStatuses

LEMMA InboxRequestKinds ==
  ASSUME NEW e \in InboxRequests
  PROVE  /\ e.op = "none" <=> e = I!Waiting
         /\ e.op = "ingest" => e \in [op : {"ingest"}, src : Sources, content : Contents,
                                      status : {"pending", "duplicate"}]
         /\ e.op \in {"preview", "convert"} =>
              e \in [op : {"preview", "convert"}, id : ItemIds, table : Tables]
         /\ e.op = "status" => e \in [op : {"status"}, ids : SUBSET ItemIds, to : I!MutableStatuses]
         /\ e.op = "clip" => e \in [op : {"clip"}, key : ClipKeys, table : Tables]
BY DEF InboxRequests, I!Waiting

LEMMA AtMostOne ==
  ASSUME NEW S, \A x, y \in S : x = y
  PROVE  Cardinality(S) <= 1
<1>1. Cardinality({}) = 0
  BY FS_EmptySet
<1>2. ASSUME NEW x \in S
      PROVE  Cardinality(S) <= 1
  <2>1. S = {x}
    BY <1>2
  <2>2. Cardinality({x}) = 1
    BY FS_Singleton
  <2> QED
    BY <2>1, <2>2
<1> QED
  BY <1>1, <1>2

(* The cardinality of the instance is that of the library. *)
LEMMA SameCardinality == \A S : I!Cardinality(S) = Cardinality(S)
BY DEF I!Cardinality, Cardinality

LEMMA InboxCaptures ==
  ASSUME KeysAreNoItems, InboxInv
  PROVE  I!CapturedOnce
<1> USE DEF InboxInv, InboxTypes, MadeOnce
<1>1. ASSUME NEW s \in Sources
      PROVE  Cardinality(I!ItemOf(s)) <= 1
  <2>1. \A i, j \in I!ItemOf(s) : i = j
    OBVIOUS
  <2> QED
    BY <2>1, AtMostOne
<1>2. ASSUME NEW i \in ItemIds \ overwritten
      PROVE  Cardinality({x \in task : x.from = i}) <= 1
  <2>1. \A x, y \in {z \in task : z.from = i} : x = y
    OBVIOUS
  <2> HIDE DEF InboxInv
  <2> QED
    BY <2>1, AtMostOne
<1>3. ASSUME NEW k \in ClipKeys
      PROVE  {x.id : x \in {y \in task : y.from = k}} = {receipt[k].task} \ {0}
  <2>1. \A y \in task : y.from = k => y.id = receipt[k].task /\ y.id # 0
    OBVIOUS
  <2>2. receipt[k].task # 0 => \E y \in task : y.from = k /\ y.id = receipt[k].task
    OBVIOUS
  <2> HIDE DEF InboxInv, InboxTypes, MadeOnce
  <2>3. ASSUME NEW n
        PROVE  n \in {x.id : x \in {y \in task : y.from = k}} <=> n \in {receipt[k].task} \ {0}
    BY <2>1, <2>2
  <2> QED
    BY <2>3
<1>4. ASSUME NEW i \in I!Items, item[i].status = "converted"
      PROVE  \E x \in task : x.id = item[i].record /\ x.from = i
  BY <1>4 DEF I!Items
<1> HIDE DEF InboxInv, InboxTypes, MadeOnce
<1> QED
  BY <1>1, <1>2, <1>3, <1>4, SameCardinality DEF I!CapturedOnce

(* A request that starts has read items that exist. *)
LEMMA StartKeepsInbox ==
  ASSUME InboxInv, NEW w \in Workers, NEW e \in InboxRequests, I!Starts(w, e),
         e.op \in {"preview", "convert"} => item[e.id] # I!NoItem,
         e.op = "status" => \A i \in e.ids : item[i] # I!NoItem,
         e.op = "convert" => e.id \notin I!LockedItems /\ item[e.id].status # "converted"
  PROVE  InboxInv'
<1>1. /\ work' = [work EXCEPT ![w] = e] /\ work[w] = I!Waiting
      /\ item' = item /\ task' = task /\ receipt' = receipt /\ overwritten' = overwritten
  BY DEF I!Starts
<1>2. work' \in [Workers -> InboxRequests] /\ work'[w] = e /\ \A v \in Workers : v # w => work'[v] = work[v]
  BY <1>1 DEF InboxInv, InboxTypes
<1>3. InboxTypes'
  BY <1>1, <1>2 DEF InboxInv, InboxTypes
<1>4. e.op = "convert" => \A v \in Workers : work[v].op = "convert" => work[v].id # e.id
  BY DEF I!LockedItems
<1>5. ConvertsOwnTheirItems'
  BY <1>1, <1>2, <1>4 DEF InboxInv, ConvertsOwnTheirItems
<1>6. MadeOnce'
  BY <1>1 DEF InboxInv, MadeOnce, I!ItemOf, I!Items
<1> QED
  BY <1>3, <1>5, <1>6 DEF InboxInv

(* What a commit does to the requests. *)
LEMMA EndKeepsInbox ==
  ASSUME InboxInv, NEW w \in Workers, I!Ends(w),
         \A i \in ItemIds : item[i] # I!NoItem => item'[i] # I!NoItem,
         \A i \in ItemIds : item'[i].status = "converted" =>
            item[i].status = "converted" \/ (work[w].op = "convert" /\ work[w].id = i)
  PROVE  ConvertsOwnTheirItems' /\ work' \in [Workers -> InboxRequests]
<1>1. work' \in [Workers -> InboxRequests]
  BY DEF I!Ends, InboxInv, InboxTypes, InboxRequests
<1>2. \A v \in Workers : v # w => work'[v] = work[v]
  BY DEF I!Ends, InboxInv, InboxTypes
<1>3. work'[w].op = "none"
  BY DEF I!Ends, InboxInv, InboxTypes, I!Waiting
<1>4. \A v \in Workers : v # w => work'[v].op = work[v].op /\ work'[v] = work[v]
  BY <1>2
<1>5. \A v \in Workers : /\ work[v].op \in {"preview", "convert"} => work[v].id \in ItemIds
                         /\ work[v].op = "status" => work[v].ids \subseteq ItemIds
  BY InboxRequestKinds DEF InboxInv, InboxTypes
<1> QED
  BY <1>1, <1>2, <1>3, <1>5 DEF InboxInv, ConvertsOwnTheirItems

(* ... when it makes no task. *)
LEMMA IngestKeeps ==
  ASSUME InboxInv, NEW w \in Workers, NEW i \in ItemIds, I!CommitIngest(w, i)
  PROVE  InboxInv'
<1> DEFINE e == work[w]
           new == I!Ingested(e)
<1>1. e \in [op : {"ingest"}, src : Sources, content : Contents, status : {"pending", "duplicate"}]
  BY InboxRequestKinds DEF InboxInv, InboxTypes, I!CommitIngest
<1>2. /\ item' = [item EXCEPT ![i] = new] /\ item[i] = I!NoItem /\ I!ItemOf(e.src) = {}
      /\ I!Ends(w) /\ task' = task /\ receipt' = receipt /\ overwritten' = overwritten
  BY DEF I!CommitIngest
<1>3. new \in ItemRows /\ new # I!NoItem /\ new.status # "converted" /\ new.src = e.src
  BY <1>1 DEF I!Ingested, ItemRows, I!MutableStatuses, I!NoItem
<1> HIDE DEF new
<1>4. item'[i] = new /\ \A j \in ItemIds : j # i => item'[j] = item[j]
  BY <1>2 DEF InboxInv, InboxTypes
<1>5. ConvertsOwnTheirItems' /\ work' \in [Workers -> InboxRequests]
  <2>1. \A j \in ItemIds : item[j] # I!NoItem => item'[j] # I!NoItem
    BY <1>3, <1>4
  <2>2. \A j \in ItemIds : item'[j].status = "converted" => item[j].status = "converted"
    BY <1>3, <1>4
  <2> QED
    BY <1>2, <2>1, <2>2, EndKeepsInbox
<1>6. InboxTypes'
  BY <1>2, <1>3, <1>5 DEF InboxInv, InboxTypes
<1>7. item[i].status = "none"
  BY <1>2 DEF I!NoItem
<1>8. MadeOnce'
  <2>1. \A s \in Sources : \A j, k \in I!ItemOf(s)' : j = k
    BY <1>1, <1>2, <1>3, <1>4 DEF InboxInv, MadeOnce, I!ItemOf, I!Items
  <2> QED
    BY <1>2, <1>3, <1>4, <1>7, <2>1 DEF InboxInv, InboxTypes, MadeOnce
<1> QED
  BY <1>5, <1>6, <1>8 DEF InboxInv

LEMMA PreviewKeeps ==
  ASSUME InboxInv, NEW w \in Workers, I!CommitPreview(w)
  PROVE  InboxInv'
<1> DEFINE e == work[w]
           row == item[e.id]
           new == [row EXCEPT !.target = e.table]
<1>1. e \in [op : {"preview", "convert"}, id : ItemIds, table : Tables]
  BY InboxRequestKinds DEF InboxInv, InboxTypes, I!CommitPreview
<1>2. /\ item' = [item EXCEPT ![e.id] = new] /\ I!Ends(w)
      /\ task' = task /\ receipt' = receipt /\ overwritten' = overwritten
  BY DEF I!CommitPreview
<1>3. row # I!NoItem /\ row \in ItemRows
  BY <1>1 DEF InboxInv, InboxTypes, ConvertsOwnTheirItems, I!CommitPreview
<1>4. row \in [src : Sources, content : Contents,
               status : I!MutableStatuses \cup {"duplicate", "converted"},
               target : Tables \cup {NoTable}, record : Nat]
  BY <1>3, InboxKinds
<1> HIDE DEF row
<1>5. /\ new \in ItemRows /\ new # I!NoItem /\ new.status = row.status /\ new.src = row.src
      /\ new.record = row.record
  BY <1>1, <1>4 DEF ItemRows, I!MutableStatuses, I!NoItem
<1> HIDE DEF new
<1>6. item'[e.id] = new /\ \A j \in ItemIds : j # e.id => item'[j] = item[j]
  BY <1>1, <1>2 DEF InboxInv, InboxTypes
<1> USE DEF row
<1>7. \A j \in ItemIds : /\ item'[j].status = item[j].status /\ item'[j].record = item[j].record
                         /\ item[j] # I!NoItem <=> item'[j] # I!NoItem
                         /\ item'[j].src = item[j].src
  BY <1>3, <1>5, <1>6
<1>8. ConvertsOwnTheirItems' /\ work' \in [Workers -> InboxRequests]
  BY <1>2, <1>7, EndKeepsInbox
<1>9. InboxTypes'
  BY <1>2, <1>5, <1>8 DEF InboxInv, InboxTypes
<1>10. MadeOnce'
  BY <1>2, <1>7 DEF InboxInv, InboxTypes, MadeOnce, I!ItemOf, I!Items
<1> QED
  BY <1>8, <1>9, <1>10 DEF InboxInv

LEMMA StatusKeeps ==
  ASSUME InboxInv, NEW w \in Workers, I!CommitUpdateStatus(w)
  PROVE  InboxInv'
<1> DEFINE e == work[w]
<1>1. e \in [op : {"status"}, ids : SUBSET ItemIds, to : I!MutableStatuses]
  BY InboxRequestKinds DEF InboxInv, InboxTypes, I!CommitUpdateStatus
<1>2. /\ item' = [i \in ItemIds |-> IF i \in e.ids THEN [item[i] EXCEPT !.status = e.to] ELSE item[i]]
      /\ I!Ends(w) /\ task' = task /\ receipt' = receipt
      /\ overwritten' = overwritten \cup {i \in e.ids : item[i].status = "converted"}
  BY DEF I!CommitUpdateStatus
<1>3. ASSUME NEW i \in e.ids
      PROVE  /\ item'[i] \in ItemRows /\ item'[i] # I!NoItem /\ item'[i].status # "converted"
             /\ item'[i].src = item[i].src /\ item[i] # I!NoItem
  <2> DEFINE row == item[i]
  <2>1. row # I!NoItem /\ row \in ItemRows
    BY <1>1 DEF InboxInv, InboxTypes, ConvertsOwnTheirItems
  <2>2. row \in [src : Sources, content : Contents,
                 status : I!MutableStatuses \cup {"duplicate", "converted"},
                 target : Tables \cup {NoTable}, record : Nat]
    BY <2>1, InboxKinds
  <2>3. item'[i] = [row EXCEPT !.status = e.to]
    BY <1>1, <1>2
  <2> HIDE DEF row
  <2>4. item'[i] \in ItemRows /\ item'[i] # I!NoItem /\ item'[i].status # "converted"
        /\ item'[i].src = row.src
    BY <1>1, <2>2, <2>3 DEF ItemRows, I!MutableStatuses, I!NoItem
  <2> QED
    BY <2>1, <2>4 DEF row
<1>4. \A i \in ItemIds \ e.ids : item'[i] = item[i]
  BY <1>2
<1>5. /\ item' \in [ItemIds -> ItemRows]
      /\ \A i \in ItemIds : /\ item[i] # I!NoItem <=> item'[i] # I!NoItem
                            /\ item'[i].src = item[i].src
                            /\ item'[i].status = "converted" => i \notin e.ids /\ item'[i] = item[i]
                            /\ i \notin overwritten' /\ item[i].status = "converted" =>
                                 item'[i] = item[i]
      /\ overwritten \subseteq overwritten'
  <2>1. item' = [i \in ItemIds |-> item'[i]]
    BY <1>2
  <2>2. \A i \in ItemIds : item'[i] \in ItemRows
    BY <1>3, <1>4 DEF InboxInv, InboxTypes
  <2> QED
    BY <1>2, <1>3, <1>4, <2>1, <2>2
<1>6. ConvertsOwnTheirItems' /\ work' \in [Workers -> InboxRequests]
  BY <1>2, <1>5, EndKeepsInbox
<1>7. InboxTypes'
  BY <1>2, <1>5, <1>6 DEF InboxInv, InboxTypes
<1>8. MadeOnce'
  <2>1. \A s \in Sources : \A i, j \in I!ItemOf(s)' : i = j
    BY <1>5 DEF InboxInv, MadeOnce, I!ItemOf, I!Items
  <2>2. \A x \in task : x.from \in ItemIds \ overwritten' => item'[x.from].status = "converted"
    BY <1>5 DEF InboxInv, MadeOnce
  <2> QED
    BY <1>2, <1>5, <2>1, <2>2 DEF InboxInv, MadeOnce
<1> QED
  BY <1>6, <1>7, <1>8 DEF InboxInv

(* A new task has an id that no other task has. *)
LEMMA TaskIsNew ==
  ASSUME IsFiniteSet(task), NEW from, NEW to, task' = task \cup {I!NewTask(from, to)}
  PROVE  /\ IsFiniteSet(task') /\ I!NewTask(from, to).id \in Nat \ {0}
         /\ I!NewTask(from, to).from = from
<1>1. Cardinality(task) \in Nat
  BY FS_CardinalityType
<1>2. IsFiniteSet(task \cup {I!NewTask(from, to)})
  BY FS_AddElement
<1> QED
  BY <1>1, <1>2, SameCardinality DEF I!NewTask

LEMMA ConvertKeeps ==
  ASSUME KeysAreNoItems, InboxInv, NEW w \in Workers, I!CommitConvert(w)
  PROVE  InboxInv'
<1> DEFINE e == work[w]
           newTask == I!NewTask(e.id, e.table)
           row == item[e.id]
           new == [row EXCEPT !.status = "converted", !.target = e.table, !.record = newTask.id]
<1>1. e \in [op : {"preview", "convert"}, id : ItemIds, table : Tables] /\ e.op = "convert"
  BY InboxRequestKinds DEF InboxInv, InboxTypes, I!CommitConvert
<1>2. /\ item' = [item EXCEPT ![e.id] = new] /\ I!Ends(w)
      /\ task' = task \cup {newTask} /\ receipt' = receipt /\ overwritten' = overwritten
  BY DEF I!CommitConvert
<1>3. row # I!NoItem /\ row \in ItemRows /\ row.status # "converted"
  BY <1>1 DEF InboxInv, InboxTypes, ConvertsOwnTheirItems
<1>4. row \in [src : Sources, content : Contents,
               status : I!MutableStatuses \cup {"duplicate", "converted"},
               target : Tables \cup {NoTable}, record : Nat]
  BY <1>3, InboxKinds
<1>5. IsFiniteSet(task') /\ newTask.id \in Nat \ {0} /\ newTask.from = e.id
  BY <1>2, TaskIsNew DEF InboxInv, InboxTypes
<1> HIDE DEF row, newTask
<1>6. /\ new \in ItemRows /\ new # I!NoItem /\ new.status = "converted" /\ new.src = row.src
      /\ new.record = newTask.id
  BY <1>1, <1>4, <1>5 DEF ItemRows, I!MutableStatuses, I!NoItem
<1> HIDE DEF new
<1>7. item'[e.id] = new /\ \A j \in ItemIds : j # e.id => item'[j] = item[j]
  BY <1>1, <1>2 DEF InboxInv, InboxTypes
<1>8. \A j \in ItemIds : /\ item[j] # I!NoItem <=> item'[j] # I!NoItem
                         /\ item'[j].src = item[j].src
  BY <1>3, <1>6, <1>7 DEF row
<1>9. ConvertsOwnTheirItems' /\ work' \in [Workers -> InboxRequests]
  <2>1. \A j \in ItemIds : item'[j].status = "converted" =>
          item[j].status = "converted" \/ (work[w].op = "convert" /\ work[w].id = j)
    BY <1>1, <1>7
  <2> QED
    BY <1>2, <1>8, <2>1, EndKeepsInbox
<1>10. InboxTypes'
  BY <1>1, <1>2, <1>5, <1>6, <1>9 DEF InboxInv, InboxTypes
<1>11. \A x \in task : x.from \in ItemIds \ overwritten => x.from # e.id
  BY <1>3 DEF InboxInv, MadeOnce, row
<1>12. MadeOnce'
  <2> USE DEF InboxInv, MadeOnce
  <2>1. \A s \in Sources : \A i, j \in I!ItemOf(s)' : i = j
    BY <1>8 DEF I!ItemOf, I!Items
  <2>2. \A i \in ItemIds : item'[i].status = "converted" =>
          \E x \in task' : x.id = item'[i].record /\ x.from = i
    BY <1>2, <1>5, <1>6, <1>7
  <2>3. \A x \in task' : x.from \in ItemIds \ overwritten => item'[x.from].status = "converted"
    BY <1>2, <1>5, <1>6, <1>7, <1>11
  <2>4. \A x, y \in task' : x.from = y.from /\ x.from \in ItemIds \ overwritten => x = y
    BY <1>2, <1>5, <1>11
  <2>5. e.id \notin ClipKeys
    BY <1>1 DEF KeysAreNoItems
  <2>6. /\ \A k \in ClipKeys : receipt[k].task # 0 => \E x \in task' : x.from = k /\ x.id = receipt[k].task
        /\ \A x \in task' : x.from \in ClipKeys => x.id = receipt[x.from].task
    BY <1>2, <1>5, <2>5
  <2> QED
    BY <1>2, <2>1, <2>2, <2>3, <2>4, <2>6
<1> QED
  BY <1>9, <1>10, <1>12 DEF InboxInv

LEMMA ClipKeeps ==
  ASSUME KeysAreNoItems, InboxInv, NEW w \in Workers, I!CommitClip(w)
  PROVE  InboxInv'
<1> DEFINE e == work[w]
           newTask == I!NewTask(e.key, e.table)
<1>1. e \in [op : {"clip"}, key : ClipKeys, table : Tables]
  BY InboxRequestKinds DEF InboxInv, InboxTypes, I!CommitClip
<1>2. /\ receipt' = [receipt EXCEPT ![e.key].task = newTask.id] /\ receipt[e.key] = I!NoReceipt
      /\ I!Ends(w) /\ task' = task \cup {newTask} /\ item' = item /\ overwritten' = overwritten
  BY DEF I!CommitClip
<1>3. IsFiniteSet(task') /\ newTask.id \in Nat \ {0} /\ newTask.from = e.key
  BY <1>2, TaskIsNew DEF InboxInv, InboxTypes
<1> HIDE DEF newTask
<1>4. /\ receipt' \in [ClipKeys -> [task : Nat]] /\ receipt[e.key].task = 0
      /\ receipt'[e.key].task = newTask.id /\ \A k \in ClipKeys : k # e.key => receipt'[k] = receipt[k]
  BY <1>1, <1>2, <1>3 DEF InboxInv, InboxTypes, I!NoReceipt
<1>5. ConvertsOwnTheirItems' /\ work' \in [Workers -> InboxRequests]
  BY <1>2, EndKeepsInbox
<1>6. InboxTypes'
  BY <1>1, <1>2, <1>3, <1>4, <1>5 DEF InboxInv, InboxTypes
<1>7. \A x \in task : x.from # e.key
  BY <1>1, <1>4 DEF InboxInv, InboxTypes, MadeOnce
<1>8. MadeOnce'
  <2> USE DEF InboxInv, MadeOnce
  <2>1. \A s \in Sources : \A i, j \in I!ItemOf(s)' : i = j
    BY <1>2 DEF I!ItemOf, I!Items
  <2>2. e.key \notin ItemIds
    BY <1>1 DEF KeysAreNoItems
  <2>3. \A i \in ItemIds : item[i].status = "converted" =>
          \E x \in task' : x.id = item[i].record /\ x.from = i
    BY <1>2
  <2>4. /\ \A x \in task' : x.from \in ItemIds \ overwritten => item[x.from].status = "converted"
        /\ \A x, y \in task' : x.from = y.from /\ x.from \in ItemIds \ overwritten => x = y
    BY <1>2, <1>3, <2>2
  <2>5. /\ \A k \in ClipKeys : receipt'[k].task # 0 =>
             \E x \in task' : x.from = k /\ x.id = receipt'[k].task
        /\ \A x \in task' : x.from \in ClipKeys => x.id = receipt'[x.from].task
    BY <1>2, <1>3, <1>4, <1>7
  <2> QED
    BY <1>2, <2>1, <2>3, <2>4, <2>5
<1> QED
  BY <1>5, <1>6, <1>8 DEF InboxInv

LEMMA InboxStep ==
  ASSUME KeysAreNoItems, InboxInv, [I!NextInbox]_(I!varsInbox)
  PROVE  InboxInv'
<1>1. ASSUME NEW w \in Workers, NEW s \in Sources, NEW c \in Contents, I!BeginIngest(w, s, c)
      PROVE  InboxInv'
  <2> DEFINE e == [op |-> "ingest", src |-> s, content |-> c,
                   status |-> IF \E i \in I!Items : item[i].content = c THEN "duplicate" ELSE "pending"]
  <2>1. I!Starts(w, e)
    BY <1>1 DEF I!BeginIngest
  <2>2. e \in InboxRequests /\ e.op = "ingest"
    BY DEF InboxRequests
  <2> HIDE DEF e
  <2> QED
    BY <2>1, <2>2, StartKeepsInbox
<1>2. ASSUME NEW w \in Workers, NEW i \in ItemIds, NEW t \in Tables, I!BeginPreview(w, i, t)
      PROVE  InboxInv'
  <2> DEFINE e == [op |-> "preview", id |-> i, table |-> t]
  <2>1. I!Starts(w, e) /\ item[i] # I!NoItem
    BY <1>2 DEF I!BeginPreview, I!Items
  <2>2. e \in InboxRequests /\ e.op = "preview" /\ e.id = i
    BY DEF InboxRequests
  <2> HIDE DEF e
  <2> QED
    BY <2>1, <2>2, StartKeepsInbox
<1>3. ASSUME NEW w \in Workers, NEW i \in ItemIds, NEW t \in Tables, I!BeginConvert(w, i, t)
      PROVE  InboxInv'
  <2> DEFINE e == [op |-> "convert", id |-> i, table |-> t]
  <2>1. /\ I!Starts(w, e) /\ item[i] # I!NoItem /\ i \notin I!LockedItems
        /\ item[i].status # "converted"
    BY <1>3 DEF I!BeginConvert, I!Items
  <2>2. e \in InboxRequests /\ e.op = "convert" /\ e.id = i
    BY DEF InboxRequests
  <2> HIDE DEF e
  <2> QED
    BY <2>1, <2>2, StartKeepsInbox
<1>4. ASSUME NEW w \in Workers, NEW S \in SUBSET ItemIds, NEW st \in I!MutableStatuses,
             I!BeginUpdateStatus(w, S, st)
      PROVE  InboxInv'
  <2> DEFINE e == [op |-> "status", ids |-> {i \in S : item[i].status # st}, to |-> st]
  <2>1. I!Starts(w, e) /\ \A i \in S : item[i] # I!NoItem
    BY <1>4 DEF I!BeginUpdateStatus, I!Items
  <2>2. e \in InboxRequests /\ e.op = "status" /\ e.ids \subseteq S
    BY DEF InboxRequests
  <2> HIDE DEF e
  <2> QED
    BY <2>1, <2>2, StartKeepsInbox
<1>5. ASSUME NEW w \in Workers, NEW k \in ClipKeys, NEW t \in Tables, I!BeginClip(w, k, t)
      PROVE  InboxInv'
  <2> DEFINE e == [op |-> "clip", key |-> k, table |-> t]
  <2>1. I!Starts(w, e)
    BY <1>5 DEF I!BeginClip
  <2>2. e \in InboxRequests /\ e.op = "clip"
    BY DEF InboxRequests
  <2> HIDE DEF e
  <2> QED
    BY <2>1, <2>2, StartKeepsInbox
<1>6. ASSUME NEW w \in Workers, I!FailRequest(w)
      PROVE  InboxInv'
  <2>1. I!Ends(w) /\ item' = item /\ task' = task /\ receipt' = receipt /\ overwritten' = overwritten
    BY <1>6 DEF I!FailRequest
  <2>2. ConvertsOwnTheirItems' /\ work' \in [Workers -> InboxRequests]
    BY <2>1, EndKeepsInbox
  <2> QED
    BY <2>1, <2>2 DEF InboxInv, InboxTypes, MadeOnce, I!ItemOf, I!Items
<1>7. CASE UNCHANGED I!varsInbox
  BY <1>7 DEF I!varsInbox, InboxInv, InboxTypes, ConvertsOwnTheirItems, MadeOnce, I!ItemOf, I!Items
<1> QED
  BY <1>1, <1>2, <1>3, <1>4, <1>5, <1>6, <1>7, IngestKeeps, PreviewKeeps, ConvertKeeps,
     StatusKeeps, ClipKeeps DEF I!NextInbox

(* However requests overlap, are repeated or fail, a source is in the inbox  *)
(* once, and an item or a clipper key makes one task, which its row names,  *)
(* unless a status change that had read the item before overwrote its       *)
(* conversion (source_inbox.py, clipper.py).                                *)
THEOREM SourcesCapturedOnce ==
  ASSUME KeysAreNoItems
  PROVE  I!SpecInbox => []I!CapturedOnce
<1>1. I!InitInbox => InboxInv
  BY InboxInit
<1>2. InboxInv /\ [I!NextInbox]_(I!varsInbox) => InboxInv'
  BY InboxStep
<1>3. InboxInv => I!CapturedOnce
  BY InboxCaptures
<1> QED
  BY <1>1, <1>2, <1>3, PTL DEF I!SpecInbox

(* Types: every task is in a table. *)
TasksPlaced == \A x \in task : x.table \in Tables

LEMMA InboxTyped == InboxInv /\ TasksPlaced => I!TypeOKInbox
<1> SUFFICES ASSUME InboxInv, TasksPlaced PROVE I!TypeOKInbox
  OBVIOUS
<1>1. \A i \in ItemIds : item[i].status \in I!MutableStatuses \cup {"none", "duplicate", "converted"}
  BY DEF InboxInv, InboxTypes, ItemRows, I!NoItem
<1>2. \A w \in Workers : work[w].op \in {"none", "ingest", "preview", "convert", "status", "clip"}
  BY DEF InboxInv, InboxTypes, InboxRequests, I!Waiting
<1> QED
  BY <1>1, <1>2 DEF InboxInv, InboxTypes, TasksPlaced, I!TypeOKInbox

LEMMA TasksStayPlaced ==
  ASSUME InboxInv, TasksPlaced, [I!NextInbox]_(I!varsInbox)
  PROVE  TasksPlaced'
<1>1. ASSUME NEW w \in Workers, I!CommitConvert(w) \/ I!CommitClip(w)
      PROVE  TasksPlaced'
  <2>1. work[w].table \in Tables
    BY <1>1, InboxRequestKinds DEF InboxInv, InboxTypes, I!CommitConvert, I!CommitClip
  <2>2. \A from : I!NewTask(from, work[w].table).table = work[w].table
    BY DEF I!NewTask
  <2>3. \E from : task' = task \cup {I!NewTask(from, work[w].table)}
    BY <1>1 DEF I!CommitConvert, I!CommitClip
  <2> QED
    BY <2>1, <2>2, <2>3 DEF TasksPlaced
<1>2. task' = task => TasksPlaced'
  BY DEF TasksPlaced
<1>3. UNCHANGED I!varsInbox => task' = task
  BY DEF I!varsInbox
<1> QED
  BY <1>1, <1>2, <1>3 DEF I!NextInbox, I!BeginIngest, I!BeginPreview, I!BeginConvert, I!BeginUpdateStatus,
     I!BeginClip, I!Starts, I!CommitIngest, I!CommitPreview, I!CommitUpdateStatus, I!FailRequest

-----------------------------------------------------------------------------
(* NotificationStream: the pages of a repair, and the rows it has staged.    *)

CONSTANTS Users, Nobody, MaxChanges, RepairBatch, ScanWindow, MaxConnects
VARIABLES changes, note, stream, woken, connects
N == INSTANCE NotificationStream

(* The bounds of a history and the size of a page are numbers. *)
PagesAreCounted == MaxChanges \in Nat /\ RepairBatch \in Nat

ChangeRows == [by : Users, to : Users \cup {Nobody}, status : {"applied", "undone"}]
NoteTypes ==
    /\ changes \in Seq(ChangeRows) /\ Len(changes) <= MaxChanges
    /\ note \in [Users -> [1..MaxChanges -> {"none", "unread", "read"}]]
    /\ stream \in [Users -> [at : {"offline", "repair", "sync", "snapshot", "listening"},
                             offset : Nat, staged : SUBSET Nat, from : Nat, disturbed : BOOLEAN]]
    /\ woken \in [Users -> BOOLEAN]

(* What is staged tells the user of a change there is. *)
StagedTells == \A u \in Users : \A i \in stream[u].staged : i \in 1..Len(changes) /\ N!Tells(i, u)

(* The replay has staged what it passed: the changes that tell the user among *)
(* those of a place up to the offset. The places shift only when one is undone. *)
PassedAreStaged ==
    \A u \in Users : stream[u].at = "repair" /\ ~stream[u].disturbed =>
        /\ stream[u].offset <= Cardinality(N!Applied)
        /\ \A i \in N!Applied : N!Rank(i) <= stream[u].offset /\ N!Tells(i, u) => i \in stream[u].staged
FromKnown == \A u \in Users : stream[u].from <= Len(changes)

NoteInv == NoteTypes /\ StagedTells /\ PassedAreStaged /\ FromKnown /\ N!RepairMissesNothing

LEMMA NoteCardinality == \A S : N!Cardinality(S) = Cardinality(S)
  BY DEF N!Cardinality, Cardinality

(* The changes that stand are finitely many, and each has a place of its own *)
(* among them; a later one has a later place.                                *)
LEMMA AppliedFinite ==
  ASSUME NoteTypes
  PROVE  /\ IsFiniteSet(N!Applied) /\ Cardinality(N!Applied) \in Nat
         /\ N!Applied \subseteq 1..Len(changes)
<1>1. Len(changes) \in Nat /\ DOMAIN changes = 1..Len(changes)
  BY DEF NoteTypes
<1>2. IsFiniteSet(1..Len(changes))
  BY <1>1, FS_Interval
<1>3. N!Applied \subseteq 1..Len(changes)
  BY <1>1 DEF N!Applied
<1> QED
  BY <1>2, <1>3, FS_Subset, FS_CardinalityType

LEMMA RankInjective ==
  ASSUME NoteTypes
  PROVE  /\ \A i \in N!Applied : N!Rank(i) \in 1..Cardinality(N!Applied)
         /\ \A i, j \in N!Applied : i < j => N!Rank(i) < N!Rank(j)
<1>1. IsFiniteSet(N!Applied) /\ N!Applied \subseteq Nat
  BY AppliedFinite
<1> DEFINE upTo(i) == {j \in N!Applied : j <= i}
<1>2. \A i : N!Rank(i) = Cardinality(upTo(i))
  BY NoteCardinality DEF N!Rank
<1>3. \A i : upTo(i) \subseteq N!Applied
  OBVIOUS
<1>4. \A i : IsFiniteSet(upTo(i)) /\ Cardinality(upTo(i)) \in Nat /\ Cardinality(upTo(i)) <= Cardinality(N!Applied)
  BY <1>1, <1>3, FS_Subset, FS_CardinalityType
<1>5. ASSUME NEW i \in N!Applied
      PROVE  N!Rank(i) \in 1..Cardinality(N!Applied)
  <2>1. i \in upTo(i)
    BY <1>1
  <2>2. Cardinality(upTo(i)) # 0
    BY <2>1, <1>4, FS_EmptySet
  <2> QED
    BY <2>2, <1>2, <1>4, <1>1, FS_CardinalityType
<1>6. ASSUME NEW i \in N!Applied, NEW j \in N!Applied, i < j
      PROVE  N!Rank(i) < N!Rank(j)
  <2>0. i \in Nat /\ j \in Nat /\ \A k \in N!Applied : k \in Nat
    BY <1>1
  <2>a. \A k \in N!Applied : k <= i => k <= j
    BY <1>6, <2>0
  <2>b. j <= j /\ ~(j <= i)
    BY <1>6, <2>0
  <2>1. upTo(i) \subseteq upTo(j) /\ j \in upTo(j) /\ j \notin upTo(i)
    BY <2>a, <2>b
  <2>2. upTo(i) # upTo(j)
    BY <2>1
  <2>3. Cardinality(upTo(i)) <= Cardinality(upTo(j)) /\ (Cardinality(upTo(i)) = Cardinality(upTo(j)) => upTo(i) = upTo(j))
    BY <2>1, <1>4, FS_Subset
  <2> HIDE DEF upTo
  <2> QED
    BY <2>2, <2>3, <1>4, <1>2
<1> QED
  BY <1>5, <1>6

(* Places are given without gaps. *)
LEMMA RankOnto ==
  ASSUME NoteTypes, NEW n \in 1..Cardinality(N!Applied)
  PROVE  \E i \in N!Applied : N!Rank(i) = n
<1> DEFINE count == Cardinality(N!Applied)
           f == [i \in N!Applied |-> N!Rank(i)]
<1>1. count \in Nat /\ IsFiniteSet(N!Applied) /\ N!Applied \subseteq Nat
  BY AppliedFinite
<1>2. IsFiniteSet(1..count) /\ Cardinality(1..count) = count
  BY <1>1, FS_Interval
<1>3. f \in [N!Applied -> 1..count]
  BY RankInjective
<1>4. \A i, j \in N!Applied : f[i] = f[j] => i = j
  <2> SUFFICES ASSUME NEW i \in N!Applied, NEW j \in N!Applied, i # j
               PROVE  f[i] # f[j]
    OBVIOUS
  <2>0. f[i] = N!Rank(i) /\ f[j] = N!Rank(j) /\ f[i] \in 1..count /\ f[j] \in 1..count
    BY <1>3
  <2>1. i < j \/ j < i
    BY <1>1
  <2>2. N!Rank(i) < N!Rank(j) \/ N!Rank(j) < N!Rank(i)
    BY <2>1, RankInjective
  <2> HIDE DEF f, count
  <2> QED
    BY <2>0, <2>2, <1>1
<1>5. f \in Injection(N!Applied, 1..count)
  BY <1>3, <1>4 DEF Injection, IsInjective
<1>6. f \in Surjection(N!Applied, 1..count)
  BY <1>5, <1>2, FS_Injection
<1> QED
  BY <1>6 DEF Surjection

(* A page has one row per place, and is full while there are places left. *)
LEMMA PageCounts ==
  ASSUME NoteTypes, PagesAreCounted, NEW offset \in Nat
  PROVE  LET rows == N!PageFrom(offset)
             count == Cardinality(N!Applied)
         IN  /\ IsFiniteSet(rows) /\ Cardinality(rows) \in Nat
             /\ Cardinality(rows) <= RepairBatch
             /\ offset <= count => offset + Cardinality(rows) <= count
             /\ offset + RepairBatch <= count => Cardinality(rows) = RepairBatch
<1> DEFINE rows == N!PageFrom(offset)
           count == Cardinality(N!Applied)
           f == [i \in rows |-> N!Rank(i)]
           places == offset + 1 .. offset + RepairBatch
           left == offset + 1 .. count
<1>1. count \in Nat /\ IsFiniteSet(N!Applied) /\ N!Applied \subseteq Nat
  BY AppliedFinite
<1>2. rows \subseteq N!Applied /\ (\A i \in rows : N!Rank(i) \in places)
  BY DEF N!PageFrom
<1>3. IsFiniteSet(rows) /\ Cardinality(rows) \in Nat
  BY <1>1, <1>2, FS_Subset, FS_CardinalityType
<1>4. \A i, j \in rows : f[i] = f[j] => i = j
  <2> SUFFICES ASSUME NEW i \in rows, NEW j \in rows, i # j
               PROVE  f[i] # f[j]
    OBVIOUS
  <2>0. i \in N!Applied /\ j \in N!Applied
    BY <1>2
  <2>a. i \in Nat /\ j \in Nat
    BY <2>0, <1>1
  <2>1. i \in N!Applied /\ j \in N!Applied /\ (i < j \/ j < i)
    BY <2>0, <2>a
  <2>2. N!Rank(i) < N!Rank(j) \/ N!Rank(j) < N!Rank(i)
    BY <2>1, RankInjective
  <2>3. N!Rank(i) \in Nat /\ N!Rank(j) \in Nat
    BY <2>1, RankInjective, <1>1
  <2>4. N!Rank(i) # N!Rank(j)
    BY <2>2, <2>3
  <2> QED
    BY <2>4
<1>5. IsFiniteSet(places) /\ Cardinality(places) = RepairBatch
  <2>1. offset + 1 \in Int /\ offset + RepairBatch \in Int /\ RepairBatch \in Nat
    BY DEF PagesAreCounted
  <2>2. IsFiniteSet(places) /\ Cardinality(places) = IF offset + 1 > offset + RepairBatch THEN 0 ELSE offset + RepairBatch - (offset + 1) + 1
    BY <2>1, FS_Interval
  <2> HIDE DEF places
  <2> QED
    BY <2>1, <2>2
<1>6. f \in [rows -> places] /\ f \in Injection(rows, places)
  BY <1>2, <1>4 DEF Injection, IsInjective
<1>7. Cardinality(rows) <= RepairBatch
  BY <1>5, <1>6, FS_Injection
<1>8. ASSUME offset <= count PROVE offset + Cardinality(rows) <= count
  <2>1. ASSUME NEW i \in rows PROVE N!Rank(i) \in left
    <3>1. i \in N!Applied /\ N!Rank(i) \in places
      BY <1>2
    <3>2. N!Rank(i) \in 1..count
      BY <3>1, RankInjective
    <3> HIDE DEF count, rows
    <3> QED
      BY <3>1, <3>2, <1>1 DEF PagesAreCounted
  <2>2. f \in Injection(rows, left)
    BY <2>1, <1>4 DEF Injection, IsInjective
  <2>3. IsFiniteSet(left) /\ Cardinality(left) = IF offset + 1 > count THEN 0 ELSE count - (offset + 1) + 1
    <3>1. offset + 1 \in Int /\ count \in Int
      BY <1>1
    <3> QED
      BY <3>1, FS_Interval
  <2>4. Cardinality(rows) <= Cardinality(left)
    BY <2>2, <2>3, FS_Injection
  <2> HIDE DEF left, rows, count
  <2> QED
    BY <2>3, <2>4, <1>8, <1>1, <1>3
<1>9. ASSUME offset + RepairBatch <= count PROVE Cardinality(rows) = RepairBatch
  <2>1. ASSUME NEW n \in places PROVE \E i \in rows : f[i] = n
    <3>1. n \in 1..count
      BY <1>1, <1>9 DEF PagesAreCounted
    <3>2. PICK i \in N!Applied : N!Rank(i) = n
      BY <3>1, RankOnto
    <3> QED
      BY <3>2 DEF N!PageFrom
  <2>2. f \in Surjection(rows, places)
    BY <2>1, <1>6 DEF Surjection
  <2> QED
    BY <2>2, <1>5, <1>6, FS_Injection
<1> QED
  BY <1>3, <1>7, <1>8, <1>9

LEMMA NoteInit == PagesAreCounted /\ N!InitStream => NoteInv
<1> SUFFICES ASSUME PagesAreCounted, N!InitStream PROVE NoteInv
  OBVIOUS
<1>1. changes = <<>> /\ \A u \in Users : stream[u] = N!Offline
  BY DEF N!InitStream
<1>2. NoteTypes
  <2>1. stream \in [Users -> [at : {"offline", "repair", "sync", "snapshot", "listening"},
                             offset : Nat, staged : SUBSET Nat, from : Nat, disturbed : BOOLEAN]]
    BY DEF N!InitStream, N!Offline
  <2>2. changes \in Seq(ChangeRows) /\ Len(changes) <= MaxChanges
    BY <1>1 DEF PagesAreCounted
  <2> QED
    BY <2>1, <2>2 DEF N!InitStream, NoteTypes
<1>3. StagedTells /\ PassedAreStaged /\ FromKnown /\ N!RepairMissesNothing
  BY <1>1 DEF N!Offline, StagedTells, PassedAreStaged, FromKnown, N!RepairMissesNothing
<1> QED
  BY <1>2, <1>3 DEF NoteInv

(* A notification, once made, stays, is not unread again, and tells of a     *)
(* change made by somebody else: what each step does to the notifications.   *)
NotesForward ==
    \A u \in Users, i \in 1..MaxChanges :
      /\ note[u][i] = "read" => note'[u][i] = "read"
      /\ note[u][i] = "unread" => note'[u][i] # "none"
      /\ note[u][i] = "none" /\ note'[u][i] # "none" => note'[u][i] = "unread" /\ N!Tells(i, u)
NotesMove == note' \in [Users -> [1..MaxChanges -> {"none", "unread", "read"}]] /\ NotesForward

(* Staging keys that tell the user moves the notifications forward. *)
LEMMA Staged ==
  ASSUME NoteTypes, NEW u \in Users, NEW keys, \A i \in keys : N!Tells(i, u)
  PROVE  LET after == N!StageNotification(u, keys)
         IN  /\ after \in [1..MaxChanges -> {"none", "unread", "read"}]
             /\ \A i \in 1..MaxChanges :
                  /\ note[u][i] = "read" => after[i] = "read"
                  /\ note[u][i] = "unread" => after[i] # "none"
                  /\ note[u][i] = "none" /\ after[i] # "none" => after[i] = "unread" /\ N!Tells(i, u)
                  /\ i \in keys => after[i] # "none"
<1> DEFINE after == N!StageNotification(u, keys)
<1>1. \A i \in 1..MaxChanges : note[u][i] \in {"none", "unread", "read"}
  BY DEF NoteTypes
<1>2. after = [i \in 1..MaxChanges |-> IF i \in keys /\ note[u][i] = "none" THEN "unread" ELSE note[u][i]]
  BY DEF N!StageNotification
<1>3. after \in [1..MaxChanges -> {"none", "unread", "read"}]
  BY <1>1, <1>2
<1>4. \A i \in 1..MaxChanges : after[i] = IF i \in keys /\ note[u][i] = "none" THEN "unread" ELSE note[u][i]
  BY <1>2
<1> HIDE DEF after
<1>5. ASSUME NEW i \in 1..MaxChanges
      PROVE  /\ note[u][i] = "read" => after[i] = "read"
             /\ note[u][i] = "unread" => after[i] # "none"
             /\ note[u][i] = "none" /\ after[i] # "none" => after[i] = "unread" /\ N!Tells(i, u)
             /\ i \in keys => after[i] # "none"
  BY <1>1, <1>4
<1> QED
  BY <1>3, <1>5 DEF after

LEMMA SyncMovesForward ==
  ASSUME NoteTypes, N!SyncTable
  PROVE  NotesMove
<1> DEFINE keys(u) == {i \in N!Recent : N!Tells(i, u)}
<1>1. note' = [u \in Users |-> N!StageNotification(u, keys(u))]
  BY DEF N!SyncTable
<1>2. \A u \in Users : \A i \in keys(u) : N!Tells(i, u)
  OBVIOUS
<1>3. \A u \in Users : note'[u] = N!StageNotification(u, keys(u))
  BY <1>1
<1> HIDE DEF keys
<1>4. ASSUME NEW u \in Users
      PROVE  /\ N!StageNotification(u, keys(u)) \in [1..MaxChanges -> {"none", "unread", "read"}]
             /\ \A i \in 1..MaxChanges :
                  /\ note[u][i] = "read" => N!StageNotification(u, keys(u))[i] = "read"
                  /\ note[u][i] = "unread" => N!StageNotification(u, keys(u))[i] # "none"
                  /\ note[u][i] = "none" /\ N!StageNotification(u, keys(u))[i] # "none"
                       => N!StageNotification(u, keys(u))[i] = "unread" /\ N!Tells(i, u)
  BY <1>2, Staged
<1>5. note' \in [Users -> [1..MaxChanges -> {"none", "unread", "read"}]]
  BY <1>1, <1>4
<1> QED
  BY <1>3, <1>4, <1>5 DEF NotesMove, NotesForward

(* What the steps that write no record keep. *)
LEMMA SamePlaces ==
  ASSUME UNCHANGED changes
  PROVE  /\ N!Applied' = N!Applied /\ Cardinality(N!Applied)' = Cardinality(N!Applied)
         /\ \A i : N!Rank(i)' = N!Rank(i)
         /\ \A i, u : N!Tells(i, u)' = N!Tells(i, u)
BY DEF N!Applied, N!Rank, N!Tells

(* A user whose stream stays where it is misses nothing when the            *)
(* notifications move forward and the changes stay.                         *)
Missing(u) ==
    stream[u].at \in {"sync", "snapshot", "listening"} /\ ~stream[u].disturbed =>
        \A i \in 1..stream[u].from : changes[i].status = "applied" /\ N!Tells(i, u) => note[u][i] # "none"
LEMMA MissingNothing == N!RepairMissesNothing <=> \A u \in Users : Missing(u)
  BY DEF N!RepairMissesNothing, Missing

LEMMA NotesAdvance ==
  ASSUME PagesAreCounted, NoteInv, UNCHANGED changes, NotesMove, NEW u \in Users, Missing(u),
         \/ stream'[u] = stream[u]
         \/ /\ stream[u].at \in {"sync", "snapshot", "listening"}
            /\ stream'[u] = [stream[u] EXCEPT !.at = stream'[u].at]
  PROVE  Missing(u)'
<1>1. /\ stream'[u].disturbed = stream[u].disturbed /\ stream'[u].from = stream[u].from
      /\ stream'[u].at \in {"sync", "snapshot", "listening"} => stream[u].at \in {"sync", "snapshot", "listening"}
  BY DEF NoteInv, NoteTypes
<1>2. stream[u].from \in Nat /\ stream[u].from <= MaxChanges
  BY DEF NoteInv, FromKnown, NoteTypes, PagesAreCounted
<1>3. \A i \in 1..stream[u].from : i \in 1..MaxChanges
  BY <1>2 DEF PagesAreCounted
<1>b. note \in [Users -> [1..MaxChanges -> {"none", "unread", "read"}]]
  BY DEF NoteInv, NoteTypes
<1>a. \A i \in 1..MaxChanges : note[u][i] \in {"none", "unread", "read"}
  BY <1>b
<1>4. \A i \in 1..MaxChanges : note[u][i] # "none" => note'[u][i] # "none"
  BY <1>a DEF NotesMove, NotesForward
<1>5. \A i : N!Tells(i, u)' = N!Tells(i, u)
  BY SamePlaces
<1> QED
  BY <1>1, <1>3, <1>4, <1>5 DEF Missing

LEMMA NotesStay == NoteTypes /\ UNCHANGED note => NotesMove
<1> SUFFICES ASSUME NoteTypes, UNCHANGED note PROVE NotesMove
  OBVIOUS
<1>1. note' \in [Users -> [1..MaxChanges -> {"none", "unread", "read"}]]
  BY DEF NoteTypes
<1>2. NotesForward
  BY DEF NotesForward
<1> QED
  BY <1>1, <1>2 DEF NotesMove

(* A stream that keeps its place, goes on after its replay, or ends. *)
StreamRows == [at : {"offline", "repair", "sync", "snapshot", "listening"},
               offset : Nat, staged : SUBSET Nat, from : Nat, disturbed : BOOLEAN]
GoesOn(u) ==
    \/ stream'[u] = stream[u]
    \/ /\ stream[u].at \in {"sync", "snapshot", "listening"}
       /\ stream'[u].at \in {"snapshot", "listening"}
       /\ stream'[u] = [stream[u] EXCEPT !.at = stream'[u].at]
    \/ stream'[u] = N!Offline

LEMMA StreamsGoOn ==
  ASSUME PagesAreCounted, NoteInv, UNCHANGED changes, NotesMove, woken' \in [Users -> BOOLEAN],
         stream' \in [Users -> StreamRows], \A u \in Users : GoesOn(u)
  PROVE  NoteInv'
<1>1. NoteTypes'
  BY DEF NoteInv, NoteTypes, NotesMove, StreamRows
<1>2. ASSUME NEW u \in Users
      PROVE  /\ \A i \in stream'[u].staged : i \in 1..Len(changes)' /\ N!Tells(i, u)'
             /\ stream'[u].at = "repair" /\ ~stream'[u].disturbed =>
                  /\ stream'[u].offset <= Cardinality(N!Applied)'
                  /\ \A i \in N!Applied' : N!Rank(i)' <= stream'[u].offset /\ N!Tells(i, u)' => i \in stream'[u].staged
             /\ stream'[u].from <= Len(changes')
             /\ Missing(u)'
  <2>0. stream[u] \in StreamRows /\ Len(changes) \in Nat
    BY DEF NoteInv, NoteTypes, StreamRows
  <2>1. CASE stream'[u] = stream[u]
    <3>1. Missing(u)'
      BY <2>1, NotesAdvance, MissingNothing DEF NoteInv
    <3> QED
      BY <2>1, <3>1, SamePlaces DEF NoteInv, StagedTells, PassedAreStaged, FromKnown
  <2>2. CASE /\ stream[u].at \in {"sync", "snapshot", "listening"} /\ stream'[u].at \in {"snapshot", "listening"}
             /\ stream'[u] = [stream[u] EXCEPT !.at = stream'[u].at]
    <3>1. Missing(u)'
      BY <2>2, NotesAdvance, MissingNothing DEF NoteInv
    <3>2. stream'[u].staged = stream[u].staged /\ stream'[u].from = stream[u].from
      BY <2>0, <2>2 DEF StreamRows
    <3>3. stream'[u].at # "repair"
      BY <2>2
    <3> QED
      BY <3>1, <3>2, <3>3, SamePlaces DEF NoteInv, StagedTells, FromKnown
  <2>3. CASE stream'[u] = N!Offline
    <3>1. stream'[u].at = "offline" /\ stream'[u].staged = {} /\ stream'[u].from = 0
      BY <2>3 DEF N!Offline
    <3> QED
      BY <3>1, <2>0 DEF Missing
  <2> QED
    BY <2>1, <2>2, <2>3 DEF GoesOn
<1>3. StagedTells' /\ PassedAreStaged' /\ FromKnown'
  BY <1>2 DEF StagedTells, PassedAreStaged, FromKnown
<1>4. N!RepairMissesNothing'
  BY <1>2 DEF N!RepairMissesNothing, Missing
<1> QED
  BY <1>1, <1>3, <1>4 DEF NoteInv

LEMMA StreamReads ==
  ASSUME PagesAreCounted, NoteInv, NEW u \in Users,
         N!SyncOnConnect(u) \/ N!Subscribe(u) \/ N!HearTable(u) \/ N!Disconnect(u)
  PROVE  NoteInv' /\ NotesForward
<1>1. UNCHANGED changes
  BY DEF N!SyncOnConnect, N!Subscribe, N!HearTable, N!Disconnect
<1>2. NotesMove
  <2>1. CASE N!SyncOnConnect(u) \/ N!HearTable(u)
    BY <2>1, SyncMovesForward DEF N!SyncOnConnect, N!HearTable, NoteInv
  <2>2. CASE N!Subscribe(u) \/ N!Disconnect(u)
    BY <2>2, NotesStay DEF N!Subscribe, N!Disconnect, NoteInv
  <2> QED
    BY <2>1, <2>2
<1>3. woken' \in [Users -> BOOLEAN]
  BY DEF N!SyncOnConnect, N!Subscribe, N!HearTable, N!Disconnect, NoteInv, NoteTypes
<1>4. stream \in [Users -> StreamRows]
  BY DEF NoteInv, NoteTypes, StreamRows
<1>5. stream' \in [Users -> StreamRows] /\ \A v \in Users : GoesOn(v)
  <2>1. CASE N!SyncOnConnect(u) \/ N!Subscribe(u)
    <3>1. PICK p \in {"snapshot", "listening"} :
             stream' = [stream EXCEPT ![u].at = p] /\ stream[u].at \in {"sync", "snapshot"}
      BY <2>1 DEF N!SyncOnConnect, N!Subscribe
    <3>2. stream'[u] = [stream[u] EXCEPT !.at = p] /\ stream'[u].at = p /\ \A v \in Users : v # u => stream'[v] = stream[v]
      BY <3>1, <1>4 DEF StreamRows
    <3>3. stream' \in [Users -> StreamRows]
      BY <3>1, <1>4 DEF StreamRows
    <3> QED
      BY <3>1, <3>2, <3>3 DEF GoesOn
  <2>2. CASE N!HearTable(u)
    BY <2>2, <1>4 DEF N!HearTable, GoesOn
  <2>3. CASE N!Disconnect(u)
    <3>1. N!Offline \in StreamRows
      BY DEF N!Offline, StreamRows
    <3>2. stream' = [stream EXCEPT ![u] = N!Offline]
      BY <2>3 DEF N!Disconnect
    <3> QED
      BY <3>1, <3>2, <1>4 DEF GoesOn
  <2> QED
    BY <2>1, <2>2, <2>3
<1> QED
  BY <1>1, <1>2, <1>3, <1>5, StreamsGoOn DEF NotesMove

LEMMA Reading ==
  ASSUME PagesAreCounted, NoteInv, NEW u \in Users, N!MarkAllRead(u) \/ \E i \in 1..MaxChanges : N!MarkRead(u, i)
  PROVE  NoteInv' /\ NotesForward
<1>1. UNCHANGED <<changes, stream, woken>>
  BY DEF N!MarkAllRead, N!MarkRead
<1>2. note \in [Users -> [1..MaxChanges -> {"none", "unread", "read"}]]
  BY DEF NoteInv, NoteTypes
<1>3. NotesMove
  <2>1. CASE N!MarkAllRead(u)
    <3> DEFINE marked == [i \in 1..MaxChanges |-> IF note[u][i] = "unread" THEN "read" ELSE note[u][i]]
    <3>1. note' = [note EXCEPT ![u] = marked]
      BY <2>1 DEF N!MarkAllRead
    <3>2. marked \in [1..MaxChanges -> {"none", "unread", "read"}]
      BY <1>2
    <3>3. \A i \in 1..MaxChanges : marked[i] = IF note[u][i] = "unread" THEN "read" ELSE note[u][i]
      OBVIOUS
    <3> HIDE DEF marked
    <3>4. note' \in [Users -> [1..MaxChanges -> {"none", "unread", "read"}]]
      BY <3>1, <3>2, <1>2
    <3>5. \A v \in Users : note'[v] = IF v = u THEN marked ELSE note[v]
      BY <3>1, <1>2
    <3> QED
      BY <3>3, <3>4, <3>5 DEF NotesMove, NotesForward
  <2>2. ASSUME NEW i \in 1..MaxChanges, N!MarkRead(u, i) PROVE NotesMove
    <3>1. note' = [note EXCEPT ![u][i] = "read"] /\ note[u][i] = "unread"
      BY <2>2 DEF N!MarkRead
    <3>2. note' \in [Users -> [1..MaxChanges -> {"none", "unread", "read"}]]
      BY <3>1, <1>2
    <3>3. \A v \in Users : \A j \in 1..MaxChanges : note'[v][j] = IF v = u /\ j = i THEN "read" ELSE note[v][j]
      BY <3>1, <1>2
    <3> QED
      BY <3>1, <3>2, <3>3 DEF NotesMove, NotesForward
  <2> QED
    BY <2>1, <2>2
<1>4. woken' \in [Users -> BOOLEAN] /\ stream' \in [Users -> StreamRows] /\ \A v \in Users : GoesOn(v)
  BY <1>1 DEF NoteInv, NoteTypes, StreamRows, GoesOn
<1> QED
  BY <1>1, <1>3, <1>4, StreamsGoOn DEF NotesMove

(* What has to be shown of one user after a step that writes no record. *)
UserInv(u) ==
    /\ \A i \in stream[u].staged : i \in 1..Len(changes) /\ N!Tells(i, u)
    /\ stream[u].at = "repair" /\ ~stream[u].disturbed =>
         /\ stream[u].offset <= Cardinality(N!Applied)
         /\ \A i \in N!Applied : N!Rank(i) <= stream[u].offset /\ N!Tells(i, u) => i \in stream[u].staged
    /\ stream[u].from <= Len(changes)
    /\ Missing(u)
LEMMA ByUser == NoteInv <=> NoteTypes /\ \A u \in Users : UserInv(u)
  BY DEF NoteInv, UserInv, StagedTells, PassedAreStaged, FromKnown, N!RepairMissesNothing, Missing

LEMMA OthersKeep ==
  ASSUME PagesAreCounted, NoteInv, UNCHANGED changes, NotesMove, NEW u \in Users, stream'[u] = stream[u]
  PROVE  UserInv(u)'
<1>1. UserInv(u)
  BY ByUser
<1>2. Missing(u)'
  BY <1>1, NotesAdvance DEF UserInv
<1> QED
  BY <1>1, <1>2, SamePlaces DEF UserInv

LEMMA Connecting ==
  ASSUME PagesAreCounted, NoteInv, NEW u \in Users, N!Connect(u)
  PROVE  NoteInv' /\ NotesForward
<1> DEFINE fresh == [N!Offline EXCEPT !.at = "repair", !.from = Len(changes)]
<1>1. UNCHANGED <<changes, note, woken>> /\ stream' = [stream EXCEPT ![u] = fresh]
  BY DEF N!Connect
<1>2. NoteTypes /\ stream \in [Users -> StreamRows] /\ Len(changes) \in Nat
  BY DEF NoteInv, NoteTypes, StreamRows
<1>3. fresh \in StreamRows
  BY <1>2 DEF StreamRows, N!Offline
<1>4. fresh.at = "repair" /\ fresh.offset = 0 /\ fresh.staged = {} /\ fresh.from = Len(changes) /\ fresh.disturbed = FALSE
  BY DEF N!Offline
<1> HIDE DEF fresh
<1>5. stream' \in [Users -> StreamRows] /\ stream'[u] = fresh /\ \A v \in Users : v # u => stream'[v] = stream[v]
  BY <1>1, <1>2, <1>3
<1>6. NotesMove
  BY <1>1, <1>2, NotesStay
<1>7. UserInv(u)'
  <2>1. \A i \in N!Applied' : ~(N!Rank(i)' <= 0) /\ 0 <= Cardinality(N!Applied)'
    <3>1. \A i \in N!Applied : ~(N!Rank(i) <= 0) /\ 0 <= Cardinality(N!Applied)
      BY <1>2, RankInjective, AppliedFinite
    <3> QED
      BY <3>1, <1>1, SamePlaces
  <2>2. 0 <= Cardinality(N!Applied)'
    BY <1>1, <1>2, AppliedFinite, SamePlaces
  <2>3. Missing(u)'
    BY <1>4, <1>5 DEF Missing
  <2> QED
    BY <1>1, <1>2, <1>4, <1>5, <2>1, <2>2, <2>3 DEF UserInv
<1>8. NoteTypes'
  BY <1>1, <1>2, <1>5 DEF NoteTypes, StreamRows
<1>9. \A v \in Users : UserInv(v)'
  BY <1>1, <1>5, <1>6, <1>7, OthersKeep
<1> QED
  BY <1>6, <1>8, <1>9, ByUser DEF NotesMove, NoteInv, UserInv, StagedTells, PassedAreStaged, FromKnown, N!RepairMissesNothing, Missing

(* A page that is not the last is staged, and the offset passes it. *)
LEMMA PageStaged ==
  ASSUME PagesAreCounted, NoteInv, NEW u \in Users, N!RepairPage(u), ~N!LastPage(N!PageFrom(stream[u].offset))
  PROVE  NoteInv' /\ NotesForward
<1> DEFINE rows == N!PageFrom(stream[u].offset)
           found == stream[u].staged \cup {i \in rows : N!Tells(i, u)}
           next == stream[u].offset + Cardinality(rows)
           e == [stream[u] EXCEPT !.staged = found, !.offset = next]
<1>0. stream[u].at = "repair"
  BY DEF N!RepairPage
<1>1. UNCHANGED <<changes, note, woken>> /\ stream' = [stream EXCEPT ![u] = e]
  BY NoteCardinality DEF N!RepairPage, N!NextOffset
<1>2. NoteTypes /\ stream \in [Users -> StreamRows] /\ stream[u] \in StreamRows /\ Len(changes) \in Nat
  BY DEF NoteInv, NoteTypes, StreamRows
<1>3. stream[u].offset \in Nat /\ stream[u].staged \in SUBSET Nat
  BY <1>2 DEF StreamRows
<1>4. /\ Cardinality(rows) \in Nat /\ Cardinality(rows) <= RepairBatch
      /\ stream[u].offset <= Cardinality(N!Applied) => next <= Cardinality(N!Applied)
      /\ Cardinality(N!Applied) \in Nat
  BY <1>2, <1>3, PageCounts, AppliedFinite
<1>5. /\ rows \subseteq N!Applied /\ N!Applied \subseteq 1..Len(changes)
      /\ \A i \in N!Applied : N!Rank(i) \in Nat
      /\ \A i \in N!Applied : N!Rank(i) > stream[u].offset /\ N!Rank(i) <= next => i \in rows
  <2>1. rows \subseteq N!Applied /\ N!Applied \subseteq 1..Len(changes)
    BY <1>2, AppliedFinite DEF N!PageFrom
  <2>2. \A i \in N!Applied : N!Rank(i) \in Nat
    BY <1>2, RankInjective
  <2>3. ASSUME NEW i \in N!Applied, N!Rank(i) > stream[u].offset, N!Rank(i) <= next
        PROVE  i \in rows
    <3>1. N!Rank(i) \in stream[u].offset + 1 .. stream[u].offset + RepairBatch
      <4> HIDE DEF rows
      <4> QED
        BY <2>2, <2>3, <1>3, <1>4 DEF PagesAreCounted
    <3> QED
      BY <3>1 DEF N!PageFrom
  <2> QED
    BY <2>1, <2>2, <2>3
<1> HIDE DEF rows
<1>6. found \in SUBSET Nat /\ next \in Nat
  <2>1. \A i \in rows : i \in 1..Len(changes)
    BY <1>5
  <2>2. \A i \in rows : i \in Nat
    BY <2>1, <1>2
  <2> QED
    BY <2>2, <1>3, <1>4
<1>7. e \in StreamRows /\ e.at = "repair" /\ e.offset = next /\ e.staged = found /\ e.from = stream[u].from
      /\ e.disturbed = stream[u].disturbed
  <2> HIDE DEF found, next
  <2> QED
    BY <1>0, <1>2, <1>6 DEF StreamRows
<1>8. found = stream[u].staged \cup {i \in rows : N!Tells(i, u)} /\ next = stream[u].offset + Cardinality(rows)
  OBVIOUS
<1> HIDE DEF found, next, e
<1>9. stream' \in [Users -> StreamRows] /\ stream'[u] = e /\ \A v \in Users : v # u => stream'[v] = stream[v]
  BY <1>1, <1>2, <1>7
<1>10. NotesMove
  BY <1>1, <1>2, NotesStay
<1>11. UserInv(u)
  BY ByUser
<1>12. UserInv(u)'
  <2>1. \A i \in found : i \in 1..Len(changes) /\ N!Tells(i, u)
    BY <1>5, <1>8, <1>11 DEF UserInv
  <2>2. ASSUME ~stream[u].disturbed
        PROVE  /\ next <= Cardinality(N!Applied)
               /\ \A i \in N!Applied : N!Rank(i) <= next /\ N!Tells(i, u) => i \in found
    <3>1. /\ stream[u].offset <= Cardinality(N!Applied)
          /\ \A i \in N!Applied : N!Rank(i) <= stream[u].offset /\ N!Tells(i, u) => i \in stream[u].staged
      BY <2>2, <1>0, <1>11 DEF UserInv
    <3>2. ASSUME NEW i \in N!Applied, N!Rank(i) <= next, N!Tells(i, u)
          PROVE  i \in found
      <4>1. N!Rank(i) <= stream[u].offset \/ N!Rank(i) > stream[u].offset
        BY <1>3, <1>5
      <4> QED
        BY <3>1, <3>2, <4>1, <1>5, <1>8
    <3> QED
      BY <3>1, <3>2, <1>4
  <2>3. Missing(u)'
    BY <1>7, <1>9 DEF Missing
  <2>4. stream'[u].from <= Len(changes)
    BY <1>7, <1>9, <1>11 DEF UserInv
  <2> QED
    BY <1>1, <1>7, <1>9, <2>1, <2>2, <2>3, <2>4, SamePlaces DEF UserInv
<1>13. NoteTypes'
  BY <1>1, <1>2, <1>9 DEF NoteTypes, StreamRows
<1>14. \A v \in Users : UserInv(v)'
  BY <1>1, <1>9, <1>10, <1>12, OthersKeep
<1> QED
  BY <1>10, <1>13, <1>14 DEF NotesMove, NoteInv, UserInv, StagedTells, PassedAreStaged, FromKnown, N!RepairMissesNothing, Missing

(* The last page: every change that stands has been passed, and what was    *)
(* found is stored.                                                         *)
LEMMA PageStored ==
  ASSUME PagesAreCounted, NoteInv, NEW u \in Users, N!RepairPage(u), N!LastPage(N!PageFrom(stream[u].offset))
  PROVE  NoteInv' /\ NotesForward
<1> DEFINE rows == N!PageFrom(stream[u].offset)
           found == stream[u].staged \cup {i \in rows : N!Tells(i, u)}
           after == N!StageNotification(u, found)
           e == [stream[u] EXCEPT !.at = "sync", !.staged = {}]
<1>0. stream[u].at = "repair"
  BY DEF N!RepairPage
<1>1. UNCHANGED <<changes, woken>> /\ stream' = [stream EXCEPT ![u] = e] /\ note' = [note EXCEPT ![u] = after]
  BY DEF N!RepairPage
<1>2. NoteTypes /\ stream \in [Users -> StreamRows] /\ stream[u] \in StreamRows /\ Len(changes) \in Nat
      /\ note \in [Users -> [1..MaxChanges -> {"none", "unread", "read"}]] /\ Len(changes) <= MaxChanges
      /\ DOMAIN changes = 1..Len(changes)
  BY DEF NoteInv, NoteTypes, StreamRows
<1>3. stream[u].offset \in Nat
  BY <1>2 DEF StreamRows
<1>11. UserInv(u)
  BY ByUser
<1>4. Cardinality(N!Applied) \in Nat /\ Cardinality(N!Applied) < stream[u].offset + RepairBatch
  <2>1. Cardinality(rows) < RepairBatch
    BY NoteCardinality DEF N!LastPage
  <2>2. /\ Cardinality(rows) \in Nat
        /\ stream[u].offset + RepairBatch <= Cardinality(N!Applied) => Cardinality(rows) = RepairBatch
        /\ Cardinality(N!Applied) \in Nat
    BY <1>2, <1>3, PageCounts, AppliedFinite
  <2> HIDE DEF rows
  <2> QED
    BY <2>1, <2>2, <1>3 DEF PagesAreCounted
<1>5. \A i \in found : N!Tells(i, u)
  BY <1>11 DEF UserInv
<1>6. ASSUME ~stream[u].disturbed, NEW i \in N!Applied, N!Tells(i, u)
      PROVE  i \in found
  <2>1. N!Rank(i) \in 1..Cardinality(N!Applied)
    BY <1>2, RankInjective
  <2>2. N!Rank(i) <= stream[u].offset \/ N!Rank(i) \in stream[u].offset + 1 .. stream[u].offset + RepairBatch
    BY <2>1, <1>3, <1>4 DEF PagesAreCounted
  <2>3. N!Rank(i) <= stream[u].offset => i \in stream[u].staged
    BY <1>0, <1>6, <1>11 DEF UserInv
  <2> QED
    BY <2>2, <2>3, <1>6 DEF N!PageFrom
<1>7. /\ after \in [1..MaxChanges -> {"none", "unread", "read"}]
      /\ \A i \in 1..MaxChanges :
           /\ note[u][i] = "read" => after[i] = "read"
           /\ note[u][i] = "unread" => after[i] # "none"
           /\ note[u][i] = "none" /\ after[i] # "none" => after[i] = "unread" /\ N!Tells(i, u)
           /\ i \in found => after[i] # "none"
  <2> HIDE DEF found
  <2> QED
    BY <1>2, <1>5, Staged
<1> HIDE DEF rows, found, after
<1>8. e \in StreamRows /\ e.at = "sync" /\ e.staged = {} /\ e.from = stream[u].from /\ e.disturbed = stream[u].disturbed
  BY <1>2 DEF StreamRows
<1> HIDE DEF e
<1>9. /\ stream' \in [Users -> StreamRows] /\ stream'[u] = e /\ \A v \in Users : v # u => stream'[v] = stream[v]
      /\ note' \in [Users -> [1..MaxChanges -> {"none", "unread", "read"}]]
      /\ note'[u] = after /\ \A v \in Users : v # u => note'[v] = note[v]
  BY <1>1, <1>2, <1>7, <1>8
<1>10. NotesMove
  BY <1>7, <1>9 DEF NotesMove, NotesForward
<1>12. UserInv(u)'
  <2>1. stream[u].from \in Nat /\ stream[u].from <= Len(changes)
    BY <1>2, <1>11 DEF UserInv, StreamRows
  <2>2. ASSUME ~e.disturbed, NEW i \in 1..e.from, changes[i].status = "applied", N!Tells(i, u)
        PROVE  after[i] # "none"
    <3>1. i \in 1..Len(changes) /\ i \in 1..MaxChanges
      BY <2>1, <2>2, <1>2, <1>8 DEF PagesAreCounted
    <3>2. i \in N!Applied
      BY <3>1, <2>2, <1>2 DEF N!Applied
    <3>3. i \in found
      BY <3>2, <2>2, <1>6, <1>8
    <3> QED
      BY <3>1, <3>3, <1>7
  <2>3. Missing(u)'
    BY <2>2, <1>1, <1>8, <1>9, SamePlaces DEF Missing
  <2> QED
    BY <2>1, <2>3, <1>1, <1>8, <1>9, SamePlaces DEF UserInv
<1>13. NoteTypes'
  BY <1>1, <1>2, <1>9 DEF NoteTypes, StreamRows
<1>14. \A v \in Users : UserInv(v)'
  BY <1>1, <1>9, <1>10, <1>12, OthersKeep
<1> QED
  BY <1>10, <1>13, <1>14 DEF NotesMove, NoteInv, UserInv, StagedTells, PassedAreStaged, FromKnown, N!RepairMissesNothing, Missing

(* A record is written: the new change stands behind all the others.         *)
LEMMA RecordWritten ==
  ASSUME PagesAreCounted, NoteInv, NEW a \in Users, NEW b \in Users \cup {Nobody}, N!WriteRecord(a, b)
  PROVE  NoteInv' /\ NotesForward
<1> DEFINE c == [by |-> a, to |-> b, status |-> "applied"]
<1>0. PICK n \in Nat : n = Len(changes)
  BY DEF NoteInv, NoteTypes
<1>1. UNCHANGED <<note, stream>> /\ changes' = Append(changes, c) /\ n < MaxChanges
  BY <1>0 DEF N!WriteRecord
<1>2. NoteTypes /\ n \in Nat /\ n = Len(changes) /\ DOMAIN changes = 1..n /\ changes \in Seq(ChangeRows)
  BY <1>0 DEF NoteInv, NoteTypes
<1>3. c \in ChangeRows /\ c.status = "applied"
  BY DEF ChangeRows
<1> HIDE DEF c
<1>4. /\ changes' \in Seq(ChangeRows) /\ Len(changes') = n + 1 /\ DOMAIN changes' = 1..n+1
      /\ \A i \in 1..n : changes'[i] = changes[i]
      /\ changes'[n+1].status = "applied"
  BY <1>1, <1>2, <1>3
<1>5. NoteTypes'
  <2>1. woken' \in [Users -> BOOLEAN]
    BY DEF NoteInv, NoteTypes, N!WriteRecord, N!WakeListeners
  <2>2. Len(changes') <= MaxChanges
    BY <1>1, <1>2, <1>4 DEF PagesAreCounted
  <2> QED
    BY <1>1, <1>2, <1>4, <2>1, <2>2 DEF NoteTypes
<1>6. \A i \in 1..n : \A u : N!Tells(i, u)' <=> N!Tells(i, u)
  BY <1>4 DEF N!Tells
<1>7. N!Applied' = N!Applied \cup {n + 1} /\ N!Applied \subseteq 1..n /\ n + 1 \notin N!Applied
  <2>1. 1..n+1 = 1..n \cup {n+1} /\ n + 1 \notin 1..n
    BY <1>2
  <2> QED
    BY <1>2, <1>4, <2>1 DEF N!Applied
<1>8. Cardinality(N!Applied)' = Cardinality(N!Applied) + 1 /\ Cardinality(N!Applied) \in Nat
  BY <1>2, <1>7, AppliedFinite, FS_AddElement
<1>9. \A i \in N!Applied : N!Rank(i)' = N!Rank(i)
  <2>1. ASSUME NEW i \in N!Applied PROVE {j \in N!Applied' : j <= i} = {j \in N!Applied : j <= i}
    <3>1. i \in 1..n
      BY <1>7
    <3>2. ~(n + 1 <= i)
      BY <3>1, <1>2
    <3> QED
      BY <1>7, <3>2
  <2> QED
    BY <2>1 DEF N!Rank
<1>10. N!Rank(n + 1)' = Cardinality(N!Applied) + 1
  <2>1. \A j \in N!Applied' : j <= n + 1
    BY <1>7, <1>2
  <2>2. {j \in N!Applied' : j <= n + 1} = N!Applied'
    BY <2>1
  <2> QED
    BY <2>2, <1>8, NoteCardinality DEF N!Rank
<1>11. ASSUME NEW u \in Users PROVE UserInv(u)'
  <2>1. UserInv(u) /\ stream'[u] = stream[u] /\ note'[u] = note[u]
    BY <1>1, ByUser
  <2>2. stream[u].offset \in Nat /\ stream[u].from \in Nat /\ stream[u].from <= n
    BY <1>2, <2>1 DEF NoteInv, NoteTypes, UserInv
  <2>3. \A i \in stream[u].staged : i \in 1..Len(changes') /\ N!Tells(i, u)'
    <3>1. \A i \in stream[u].staged : i \in 1..n /\ N!Tells(i, u)
      BY <1>2, <2>1 DEF UserInv
    <3>2. 1..n \subseteq 1..n+1
      BY <1>2
    <3> QED
      BY <3>1, <3>2, <1>4, <1>6
  <2>4. ASSUME stream[u].at = "repair", ~stream[u].disturbed
        PROVE  /\ stream[u].offset <= Cardinality(N!Applied)'
               /\ \A i \in N!Applied' : N!Rank(i)' <= stream[u].offset /\ N!Tells(i, u)' => i \in stream[u].staged
    <3>1. /\ stream[u].offset <= Cardinality(N!Applied)
          /\ \A i \in N!Applied : N!Rank(i) <= stream[u].offset /\ N!Tells(i, u) => i \in stream[u].staged
      BY <2>1, <2>4 DEF UserInv
    <3>2. ~(N!Rank(n + 1)' <= stream[u].offset)
      BY <3>1, <1>8, <1>10, <2>2
    <3>3. stream[u].offset <= Cardinality(N!Applied)'
      BY <3>1, <1>8, <2>2
    <3>4. ASSUME NEW i \in N!Applied', N!Rank(i)' <= stream[u].offset, N!Tells(i, u)'
          PROVE  i \in stream[u].staged
      <4>1. i # n + 1
        BY <3>2, <3>4
      <4>2. i \in N!Applied /\ i \in 1..n
        BY <4>1, <1>7
      <4> QED
        BY <3>1, <3>4, <4>2, <1>6, <1>9
    <3> QED
      BY <3>3, <3>4
  <2>5. Missing(u)'
    <3>1. \A i \in 1..stream[u].from : i \in 1..n
      BY <2>2, <1>2
    <3> QED
      BY <2>1, <3>1, <1>4, <1>6 DEF UserInv, Missing
  <2>6. stream[u].from <= Len(changes')
    BY <2>2, <1>2, <1>4
  <2> QED
    BY <2>1, <2>3, <2>4, <2>5, <2>6 DEF UserInv
<1>12. NotesForward
  BY <1>1, <1>2, NotesStay DEF NotesMove
<1> QED
  BY <1>5, <1>11, <1>12 DEF NoteInv, UserInv, StagedTells, PassedAreStaged, FromKnown, N!RepairMissesNothing, Missing

(* A change is undone: places shift, and every replay in progress knows.     *)
LEMMA ChangeUndone ==
  ASSUME PagesAreCounted, NoteInv, NEW a \in Users, NEW k \in 1..MaxChanges, N!UndoChange(a, k)
  PROVE  NoteInv' /\ NotesForward
<1> DEFINE c == [by |-> a, to |-> Nobody, status |-> "applied"]
           marked == [changes EXCEPT ![k].status = "undone"]
<1>0. PICK n \in Nat : n = Len(changes)
  BY DEF NoteInv, NoteTypes
<1>1. UNCHANGED note /\ changes' = Append(marked, c) /\ n < MaxChanges /\ k \in 1..n
  BY <1>0 DEF N!UndoChange, NoteInv, NoteTypes
<1>2. NoteTypes /\ DOMAIN changes = 1..n /\ changes \in Seq(ChangeRows) /\ stream \in [Users -> StreamRows]
  BY <1>0 DEF NoteInv, NoteTypes, StreamRows
<1>3. c \in ChangeRows
  BY DEF ChangeRows
<1>4. marked \in Seq(ChangeRows) /\ Len(marked) = n
      /\ \A i \in 1..n : /\ marked[i].by = changes[i].by /\ marked[i].to = changes[i].to
                         /\ marked[i].status = "applied" => changes[i].status = "applied"
  <2>1. changes \in [1..n -> ChangeRows]
    BY <1>0, <1>2
  <2>2. marked \in [1..n -> ChangeRows]
    BY <2>1, <1>1 DEF ChangeRows
  <2>3. ASSUME NEW i \in 1..n
        PROVE  /\ marked[i].by = changes[i].by /\ marked[i].to = changes[i].to
               /\ marked[i].status = "applied" => changes[i].status = "applied"
    BY <2>1, <1>1 DEF ChangeRows
  <2> HIDE DEF marked
  <2> QED
    BY <2>2, <2>3, <1>0
<1> HIDE DEF c, marked
<1>5. /\ changes' \in Seq(ChangeRows) /\ Len(changes') = n + 1
      /\ \A i \in 1..n : changes'[i] = marked[i]
  BY <1>1, <1>3, <1>4
<1>6. \A i \in 1..n : \A u : N!Tells(i, u)' <=> N!Tells(i, u)
  BY <1>4, <1>5 DEF N!Tells
<1>7. stream' = [u \in Users |-> [stream[u] EXCEPT !.disturbed = @ \/ stream[u].at = "repair"]]
  BY DEF N!UndoChange, N!Disturb
<1>8. ASSUME NEW u \in Users
      PROVE  /\ stream'[u] \in StreamRows
             /\ stream'[u].at = stream[u].at /\ stream'[u].staged = stream[u].staged /\ stream'[u].from = stream[u].from
             /\ stream'[u].disturbed = (stream[u].disturbed \/ stream[u].at = "repair")
  BY <1>2, <1>7 DEF StreamRows
<1>9. NoteTypes'
  <2>1. woken' \in [Users -> BOOLEAN]
    BY DEF NoteInv, NoteTypes, N!UndoChange, N!WakeListeners
  <2>2. Len(changes') <= MaxChanges
    BY <1>1, <1>5 DEF PagesAreCounted
  <2>3. stream' \in [Users -> StreamRows]
    BY <1>7, <1>8
  <2> QED
    BY <1>1, <1>2, <1>5, <2>1, <2>2, <2>3 DEF NoteTypes, StreamRows
<1>10. ASSUME NEW u \in Users PROVE UserInv(u)'
  <2>1. UserInv(u) /\ note'[u] = note[u] /\ stream[u].from \in Nat
    BY <1>1, <1>2, ByUser DEF StreamRows
  <2>2. stream[u].from <= n /\ \A i \in 1..stream[u].from : i \in 1..n
    BY <1>0, <2>1 DEF UserInv
  <2>3. \A i \in stream'[u].staged : i \in 1..Len(changes') /\ N!Tells(i, u)'
    <3>1. \A i \in stream[u].staged : i \in 1..n /\ N!Tells(i, u)
      BY <1>0, <2>1 DEF UserInv
    <3>2. 1..n \subseteq 1..n+1
      OBVIOUS
    <3> QED
      BY <3>1, <3>2, <1>5, <1>6, <1>8
  <2>4. ~(stream'[u].at = "repair" /\ ~stream'[u].disturbed)
    BY <1>8
  <2>5. Missing(u)'
    <3>1. ASSUME stream'[u].at \in {"sync", "snapshot", "listening"}, ~stream'[u].disturbed,
                 NEW i \in 1..stream[u].from, changes'[i].status = "applied", N!Tells(i, u)'
          PROVE  note'[u][i] # "none"
      <4>1. i \in 1..n /\ changes[i].status = "applied" /\ N!Tells(i, u)
        BY <3>1, <2>2, <1>4, <1>5, <1>6
      <4> QED
        BY <3>1, <4>1, <2>1, <1>8 DEF UserInv, Missing
    <3> QED
      BY <3>1, <1>8 DEF Missing
  <2>6. stream'[u].from <= Len(changes')
    BY <2>1, <2>2, <1>5, <1>8
  <2> QED
    BY <2>3, <2>4, <2>5, <2>6 DEF UserInv
<1>11. NotesForward
  BY <1>1, <1>2, NotesStay DEF NotesMove
<1> QED
  BY <1>9, <1>10, <1>11 DEF NoteInv, UserInv, StagedTells, PassedAreStaged, FromKnown, N!RepairMissesNothing, Missing

LEMMA NoteStep == PagesAreCounted /\ NoteInv /\ [N!NextStream]_(N!varsStream) => NoteInv' /\ NotesForward
<1> SUFFICES ASSUME PagesAreCounted, NoteInv, [N!NextStream]_(N!varsStream) PROVE NoteInv' /\ NotesForward
  OBVIOUS
<1>1. CASE UNCHANGED N!varsStream
  <2>1. UNCHANGED changes /\ NotesMove /\ woken' \in [Users -> BOOLEAN] /\ stream' \in [Users -> StreamRows]
        /\ \A u \in Users : GoesOn(u)
    BY <1>1, NotesStay DEF N!varsStream, NoteInv, NoteTypes, StreamRows, GoesOn
  <2> QED
    BY <2>1, StreamsGoOn DEF NotesMove
<1>2. CASE N!NextStream
  <2>1. PICK u \in Users :
          \/ \E b \in Users \cup {Nobody} : N!WriteRecord(u, b)
          \/ \E i \in 1..MaxChanges : N!UndoChange(u, i) \/ N!MarkRead(u, i)
          \/ N!Connect(u) \/ N!RepairPage(u) \/ N!SyncOnConnect(u) \/ N!Subscribe(u) \/ N!HearTable(u)
          \/ N!Disconnect(u) \/ N!MarkAllRead(u)
    BY <1>2 DEF N!NextStream
  <2> QED
    BY <2>1, RecordWritten, ChangeUndone, Reading, Connecting, PageStaged, PageStored, StreamReads
<1> QED
  BY <1>1, <1>2

(* The types that the runs check. *)
LEMMA NoteSafe == NoteInv => N!TypeOKStream /\ N!RepairMissesNothing
<1>1. ASSUME NoteInv PROVE N!TypeOKStream
  <2>1. \A i \in DOMAIN changes : changes[i] \in ChangeRows
    BY <1>1 DEF NoteInv, NoteTypes
  <2> QED
    BY <1>1, <2>1 DEF NoteInv, NoteTypes, ChangeRows, N!TypeOKStream
<1> QED
  BY <1>1 DEF NoteInv

(* A stream that got through its replay has told its user of every           *)
(* assignment made before it connected that still stands, however many pages *)
(* it took and whatever was written meanwhile, unless a change was undone    *)
(* while it read them (assignment_repair.py); a notification that was read   *)
(* stays read, one that was made stays, and each tells of an assignment by   *)
(* somebody else (stage_notification).                                       *)
THEOREM NotificationsArrive ==
  PagesAreCounted /\ N!SpecStream => []N!RepairMissesNothing /\ N!NotesOnlyMoveForward
<1> SUFFICES ASSUME PagesAreCounted PROVE N!SpecStream => []N!RepairMissesNothing /\ N!NotesOnlyMoveForward
  OBVIOUS
<1>1. N!InitStream => NoteInv
  BY NoteInit
<1>2. NoteInv /\ [N!NextStream]_(N!varsStream) => NoteInv' /\ [N!NotesOnlyMoveForwardStep]_(N!varsStream)
  BY NoteStep DEF NotesForward, N!NotesOnlyMoveForwardStep
<1>3. NoteInv => N!RepairMissesNothing
  BY NoteSafe
<1> QED
  BY <1>1, <1>2, <1>3, PTL DEF N!SpecStream, N!NotesOnlyMoveForward

-----------------------------------------------------------------------------
(* RecentTargets: how many rows requests that run at a time can leave.       *)

CONSTANTS Targets, VisitTimes, Visitors, Retention, MaxVisits
VARIABLES visited, access, visiting, visits
R == INSTANCE RecentTargets WITH Times <- VisitTimes

(* Times are after 0, and the retention and the requests are counted. *)
VisitsAreTimed ==
    /\ VisitTimes \subseteq Nat \ {0} /\ Retention \in Nat
    /\ IsFiniteSet(Visitors) /\ IsFiniteSet(Targets)

VisitTypes ==
    /\ visited \in [Targets -> VisitTimes \cup {0}] /\ access \subseteq Targets
    /\ visiting \in [Visitors -> [puts : SUBSET (Targets \X VisitTimes \X (VisitTimes \cup {0})),
                                  prunes : SUBSET Targets]]

(* Each stored row is owned by a request that kept it, the last one of them. *)
(* A request in progress knows the rows of its owner: of these it will keep  *)
(* no more than the retention, and prune the others.                        *)
Owned(owner, v) == {k \in R!Stored : owner[k] = v}
Kept(owner, kept, v) ==
    /\ IsFiniteSet(Owned(owner, v)) /\ Cardinality(Owned(owner, v)) <= Retention
    /\ visiting[v] # R!NotVisiting =>
         /\ kept[v] \subseteq Targets /\ Cardinality(kept[v]) <= Retention
         /\ \A p \in visiting[v].puts : p[1] \in kept[v] \cup visiting[v].prunes
         /\ Owned(owner, v) \subseteq kept[v] \cup visiting[v].prunes
Accounted(owner, kept) == \A v \in Visitors : Kept(owner, kept, v)
VisitInv ==
    /\ VisitTypes
    /\ \E owner \in [R!Stored -> Visitors], kept \in [Visitors -> SUBSET Targets] : Accounted(owner, kept)

(* Sets that each hold so many rows hold together no more than all of them   *)
(* could: each row is given its owner and a number among the owner's.        *)
LEMMA RowsBounded ==
  ASSUME NEW S, NEW V, NEW owner \in [S -> V], NEW n \in Nat, IsFiniteSet(V),
         \A v \in V : IsFiniteSet({k \in S : owner[k] = v}) /\ Cardinality({k \in S : owner[k] = v}) <= n
  PROVE  Cardinality(S) <= n * Cardinality(V)
<1> DEFINE of(v) == {k \in S : owner[k] = v}
           number == [v \in V |-> CHOOSE f : f \in Injection(of(v), 1..n)]
           place == [k \in S |-> <<owner[k], number[owner[k]][k]>>]
<1>1. ASSUME NEW v \in V PROVE number[v] \in Injection(of(v), 1..n)
  <2>1. IsFiniteSet(of(v)) /\ Cardinality(of(v)) <= n
    OBVIOUS
  <2>2. Cardinality(of(v)) \in Nat /\ ExistsBijection(1..Cardinality(of(v)), of(v))
    BY <2>1, FS_CardinalityType
  <2>3. PICK g \in Bijection(1..Cardinality(of(v)), of(v)) : TRUE
    BY <2>2 DEF ExistsBijection
  <2>4. \A k \in of(v) : \E i \in 1..Cardinality(of(v)) : g[i] = k
    BY <2>3 DEF Bijection, Surjection
  <2>5. g \in [1..Cardinality(of(v)) -> of(v)]
    BY <2>3 DEF Bijection, Injection
  <2> HIDE DEF of
  <2> DEFINE h == [k \in of(v) |-> CHOOSE i \in 1..Cardinality(of(v)) : g[i] = k]
  <2>6. \A k \in of(v) : h[k] \in 1..Cardinality(of(v)) /\ g[h[k]] = k
    BY <2>4
  <2>7. 1..Cardinality(of(v)) \subseteq 1..n
    BY <2>1, <2>2
  <2>8. h \in Injection(of(v), 1..n)
    <3>1. h \in [of(v) -> 1..n]
      BY <2>6, <2>7
    <3>2. \A k, l \in of(v) : h[k] = h[l] => k = l
      <4> HIDE DEF h
      <4> QED
        BY <2>6
    <3> HIDE DEF h
    <3> QED
      BY <3>1, <3>2 DEF Injection, IsInjective
  <2>9. number[v] = CHOOSE f : f \in Injection(of(v), 1..n)
    OBVIOUS
  <2> HIDE DEF number, h
  <2> QED
    BY <2>8, <2>9
<1>2. ASSUME NEW k \in S PROVE owner[k] \in V /\ k \in of(owner[k]) /\ number[owner[k]][k] \in 1..n
  <2>1. owner[k] \in V /\ k \in of(owner[k])
    OBVIOUS
  <2> HIDE DEF of, number
  <2> QED
    BY <2>1, <1>1 DEF Injection
<1>3. place \in [S -> V \X (1..n)]
  <2> HIDE DEF of, number
  <2> QED
    BY <1>2
<1>4. \A k, l \in S : place[k] = place[l] => k = l
  <2> SUFFICES ASSUME NEW k \in S, NEW l \in S, place[k] = place[l] PROVE k = l
    OBVIOUS
  <2> HIDE DEF of, number
  <2>0. place[k] = <<owner[k], number[owner[k]][k]>> /\ place[l] = <<owner[l], number[owner[l]][l]>>
    OBVIOUS
  <2>a. owner[k] = owner[l] /\ number[owner[k]][k] = number[owner[l]][l]
    BY <2>0
  <2>1. owner[k] = owner[l] /\ number[owner[k]][k] = number[owner[k]][l]
    BY <2>a
  <2>2. k \in of(owner[k]) /\ l \in of(owner[k]) /\ number[owner[k]] \in Injection(of(owner[k]), 1..n)
    BY <2>1, <1>1, <1>2
  <2> HIDE DEF of, number, place
  <2> QED
    BY <2>1, <2>2 DEF Injection, IsInjective
<1>5. place \in Injection(S, V \X (1..n))
  <2> HIDE DEF place
  <2> QED
    BY <1>3, <1>4 DEF Injection, IsInjective
<1>6. IsFiniteSet(1..n) /\ Cardinality(1..n) = n
  BY FS_Interval
<1>7. IsFiniteSet(V \X (1..n)) /\ Cardinality(V \X (1..n)) = Cardinality(V) * n
  BY <1>6, FS_Product
<1>8. Cardinality(S) <= Cardinality(V) * n
  <2> HIDE DEF place
  <2> QED
    BY <1>5, <1>7, FS_Injection
<1> QED
  BY <1>8, FS_CardinalityType

LEMMA VisitInit == VisitsAreTimed /\ R!InitRecent => VisitInv
<1> SUFFICES ASSUME VisitsAreTimed, R!InitRecent PROVE VisitInv
  OBVIOUS
<1>1. VisitTypes
  BY DEF R!InitRecent, R!NotVisiting, VisitTypes
<1>2. R!Stored = {}
  BY DEF R!InitRecent, R!Stored
<1>3. PICK owner, kept : owner = [k \in R!Stored |-> CHOOSE v \in Visitors : TRUE] /\ kept = [v \in Visitors |-> {}]
  OBVIOUS
<1>4. owner \in [R!Stored -> Visitors] /\ kept \in [Visitors -> SUBSET Targets]
  BY <1>2, <1>3
<1>5. \A v \in Visitors : Owned(owner, v) = {} /\ visiting[v] = R!NotVisiting
  BY <1>2 DEF Owned, R!InitRecent
<1>6. Accounted(owner, kept)
  BY <1>5, FS_EmptySet DEF Accounted, Kept, VisitsAreTimed
<1> QED
  BY <1>1, <1>4, <1>6 DEF VisitInv

(* A step that stores no row and begins no request. *)
LEMMA RowsOnlyGo ==
  ASSUME VisitsAreTimed, VisitInv, VisitTypes', R!Stored' \subseteq R!Stored,
         \A v \in Visitors : visiting'[v] \in {visiting[v], R!NotVisiting}
  PROVE  VisitInv'
<1>1. PICK owner \in [R!Stored -> Visitors], kept \in [Visitors -> SUBSET Targets] : Accounted(owner, kept)
  BY DEF VisitInv
<1>2. PICK left : left = [k \in R!Stored' |-> owner[k]]
  OBVIOUS
<1>3. left \in [R!Stored' -> Visitors] /\ \A k \in R!Stored' : left[k] = owner[k]
  BY <1>2
<1>4. ASSUME NEW v \in Visitors PROVE Kept(left, kept, v)'
  <2>1. Kept(owner, kept, v)
    BY <1>1 DEF Accounted
  <2>2. Owned(left, v)' \subseteq Owned(owner, v)
    BY <1>3 DEF Owned
  <2>3. IsFiniteSet(Owned(left, v)') /\ Cardinality(Owned(left, v)') <= Cardinality(Owned(owner, v))
        /\ Cardinality(Owned(left, v)') \in Nat /\ Cardinality(Owned(owner, v)) \in Nat
    BY <2>1, <2>2, FS_Subset, FS_CardinalityType DEF Kept
  <2>4. Cardinality(Owned(left, v)') <= Retention
    BY <2>1, <2>3 DEF Kept, VisitsAreTimed
  <2>5. visiting'[v] # R!NotVisiting => visiting'[v] = visiting[v] /\ visiting[v] # R!NotVisiting
    OBVIOUS
  <2>6. R!NotVisiting' = R!NotVisiting
    BY DEF R!NotVisiting
  <2> QED
    BY <2>1, <2>2, <2>3, <2>4, <2>5, <2>6 DEF Kept
<1>5. Accounted(left, kept)'
  BY <1>4 DEF Accounted
<1> QED
  BY <1>3, <1>5 DEF VisitInv

LEMMA VisitsForget ==
  ASSUME VisitsAreTimed, VisitInv,
         \/ \E k \in Targets : R!ChangeAccess(k) \/ R!RemoveVisit(k)
         \/ \E v \in Visitors : R!FailVisits(v)
  PROVE  VisitInv'
<1> USE DEF VisitTypes
<1>0. VisitTypes
  BY DEF VisitInv
<1>1. ASSUME NEW k \in Targets, R!ChangeAccess(k) PROVE VisitInv'
  <2>1. VisitTypes' /\ UNCHANGED <<visited, visiting>>
    BY <1>0, <1>1 DEF R!ChangeAccess
  <2> QED
    BY <2>1, RowsOnlyGo DEF R!Stored
<1>2. ASSUME NEW k \in Targets, R!RemoveVisit(k) PROVE VisitInv'
  <2>1. visited' = [visited EXCEPT ![k] = 0] /\ UNCHANGED <<access, visiting>>
    BY <1>2 DEF R!RemoveVisit
  <2>2. VisitTypes'
    BY <1>0, <2>1
  <2>3. R!Stored' \subseteq R!Stored
    <3>1. \A j \in Targets : visited'[j] \in {0, visited[j]}
      BY <1>0, <2>1
    <3>2. ASSUME NEW j \in Targets, visited'[j] > 0 PROVE visited[j] > 0
      BY <3>1, <3>2
    <3> QED
      BY <3>2 DEF R!Stored
  <2> QED
    BY <2>1, <2>2, <2>3, RowsOnlyGo
<1>3. ASSUME NEW v \in Visitors, R!FailVisits(v) PROVE VisitInv'
  <2>1. visiting' = [visiting EXCEPT ![v] = R!NotVisiting] /\ UNCHANGED <<visited, access>>
    BY <1>3 DEF R!FailVisits
  <2>2. R!NotVisiting \in [puts : SUBSET (Targets \X VisitTimes \X (VisitTimes \cup {0})), prunes : SUBSET Targets]
    BY DEF R!NotVisiting
  <2>3. VisitTypes' /\ \A w \in Visitors : visiting'[w] \in {visiting[w], R!NotVisiting}
    <3> HIDE DEF VisitTypes
    <3>1. visiting \in [Visitors -> [puts : SUBSET (Targets \X VisitTimes \X (VisitTimes \cup {0})), prunes : SUBSET Targets]]
      BY <1>0 DEF VisitTypes
    <3> HIDE DEF R!NotVisiting
    <3> QED
      BY <1>0, <2>1, <2>2, <3>1 DEF VisitTypes
  <2> QED
    BY <2>1, <2>3, RowsOnlyGo DEF R!Stored
<1> QED
  BY <1>1, <1>2, <1>3

LEMMA VisitCardinality == \A S : R!Cardinality(S) = Cardinality(S)
  BY DEF R!Cardinality, Cardinality

VisitRows == [puts : SUBSET (Targets \X VisitTimes \X (VisitTimes \cup {0})), prunes : SUBSET Targets]

(* A request that begins keeps no more rows than the retention, of all it    *)
(* reads and will write.                                                    *)
LEMMA VisitsBegin ==
  ASSUME VisitsAreTimed, VisitInv, NEW v \in Visitors, NEW D \in SUBSET Targets, NEW at \in [D -> VisitTimes],
         R!BeginVisits(v, at)
  PROVE  VisitInv'
<1> DEFINE keys == D \cap access
           after == [k \in Targets |-> IF k \in keys THEN R!NewTime(k, at[k]) ELSE visited[k]]
           rows == {k \in Targets : after[k] > 0}
           puts == {<<k, after[k], visited[k]>> : k \in keys}
<1>0. VisitTypes /\ visiting \in [Visitors -> VisitRows] /\ visited \in [Targets -> VisitTimes \cup {0}]
  BY DEF VisitInv, VisitTypes, VisitRows
<1>1. PICK stale \in R!Prunes(after) :
        /\ visiting' = [visiting EXCEPT ![v] = [puts |-> puts, prunes |-> stale]]
        /\ UNCHANGED <<visited, access>>
  BY DEF R!BeginVisits
<1>2. ASSUME NEW k \in Targets
      PROVE  /\ after[k] \in VisitTimes \cup {0} /\ visited[k] \in Nat
             /\ visited[k] > 0 => after[k] > 0
             /\ k \in keys => after[k] > 0 /\ after[k] \in VisitTimes
  <2>0. \A t \in VisitTimes : t \in Nat /\ t > 0
    BY DEF VisitsAreTimed
  <2>a. visited[k] \in VisitTimes \cup {0}
    BY <1>0
  <2>1. visited[k] \in VisitTimes \cup {0} /\ visited[k] \in Nat
    BY <2>0, <2>a
  <2>2. after[k] = IF k \in keys THEN (IF visited[k] > at[k] THEN visited[k] ELSE at[k]) ELSE visited[k]
    BY DEF R!NewTime
  <2>3. k \in keys => at[k] \in VisitTimes /\ at[k] \in Nat /\ at[k] > 0
    <3>1. k \in keys => at[k] \in VisitTimes
      OBVIOUS
    <3> QED
      BY <3>1, <2>0
  <2> HIDE DEF after
  <2> QED
    BY <2>1, <2>2, <2>3
<1> HIDE DEF after
<1>3. rows \subseteq Targets /\ IsFiniteSet(rows) /\ keys \subseteq rows /\ R!Stored \subseteq rows
  <2>1. IsFiniteSet(rows)
    BY FS_Subset DEF VisitsAreTimed
  <2>2. keys \subseteq rows /\ R!Stored \subseteq rows
    BY <1>2 DEF R!Stored
  <2> QED
    BY <2>1, <2>2
<1>4. stale \subseteq rows /\ Cardinality(rows \ stale) \in Nat /\ Cardinality(rows \ stale) <= Retention
  <2>1. stale \in SUBSET rows /\ Cardinality(rows \ stale) = (IF Cardinality(rows) < Retention THEN Cardinality(rows) ELSE Retention)
    BY <1>1, VisitCardinality DEF R!Prunes
  <2>2. Cardinality(rows) \in Nat
    BY <1>3, FS_CardinalityType
  <2> HIDE DEF rows
  <2> QED
    BY <2>1, <2>2 DEF VisitsAreTimed
<1>5. puts \subseteq Targets \X VisitTimes \X (VisitTimes \cup {0})
  <2>1. \A k \in keys : k \in Targets /\ after[k] \in VisitTimes /\ visited[k] \in VisitTimes \cup {0}
    BY <1>0, <1>2
  <2> HIDE DEF keys
  <2> QED
    BY <2>1
<1>6. \A p \in puts : p[1] \in keys
  <2> HIDE DEF keys
  <2> QED
    OBVIOUS
<1> DEFINE e == [puts |-> puts, prunes |-> stale]
<1>7. e \in VisitRows /\ e.puts = puts /\ e.prunes = stale
  BY <1>4, <1>5 DEF VisitRows
<1> HIDE DEF rows, keys, puts, e
<1>8. visiting' \in [Visitors -> VisitRows] /\ visiting'[v] = e /\ \A w \in Visitors : w # v => visiting'[w] = visiting[w]
  BY <1>0, <1>1, <1>7 DEF e
<1>9. PICK owner \in [R!Stored -> Visitors], kept \in [Visitors -> SUBSET Targets] : Accounted(owner, kept)
  BY DEF VisitInv
<1>10. PICK kept2 : kept2 = [kept EXCEPT ![v] = rows \ stale]
  OBVIOUS
<1>11. /\ kept2 \in [Visitors -> SUBSET Targets] /\ kept2[v] = rows \ stale
       /\ \A w \in Visitors : w # v => kept2[w] = kept[w]
  <2>1. rows \ stale \in SUBSET Targets
    BY <1>3
  <2> QED
    BY <1>10, <2>1
<1>12. R!Stored' = R!Stored /\ \A w : Owned(owner, w)' = Owned(owner, w)
  BY <1>1 DEF R!Stored, Owned
<1>13. R!NotVisiting' = R!NotVisiting
  BY DEF R!NotVisiting
<1>14. ASSUME NEW w \in Visitors PROVE Kept(owner, kept2, w)'
  <2>1. Kept(owner, kept, w)
    BY <1>9 DEF Accounted
  <2>2. CASE w = v
    <3>1. Owned(owner, v) \subseteq rows
      BY <1>3 DEF Owned
    <3>2. \A p \in puts : p[1] \in (rows \ stale) \cup stale
      BY <1>3, <1>6
    <3> QED
      BY <2>1, <2>2, <3>1, <3>2, <1>3, <1>4, <1>7, <1>8, <1>11, <1>12 DEF Kept
  <2>3. CASE w # v
    BY <2>1, <2>3, <1>8, <1>11, <1>12, <1>13 DEF Kept
  <2> QED
    BY <2>2, <2>3
<1>15. Accounted(owner, kept2)'
  BY <1>14 DEF Accounted
<1>16. VisitTypes'
  BY <1>0, <1>1, <1>8 DEF VisitTypes, VisitRows
<1>17. owner \in [R!Stored' -> Visitors]
  BY <1>9, <1>12
<1> QED
  BY <1>11, <1>15, <1>16, <1>17 DEF VisitInv

(* A request that commits owns what it kept; of the rows it owned it knew.  *)
LEMMA VisitsCommit ==
  ASSUME VisitsAreTimed, VisitInv, NEW v \in Visitors, R!CommitVisits(v)
  PROVE  VisitInv'
<1> DEFINE e == visiting[v]
           put(k) == {p \in e.puts : p[1] = k}
           after == [k \in Targets |-> IF k \in e.prunes THEN 0
                                       ELSE IF put(k) # {} THEN (CHOOSE p \in put(k) : TRUE)[2] ELSE visited[k]]
<1>0. VisitTypes /\ visiting \in [Visitors -> VisitRows] /\ visited \in [Targets -> VisitTimes \cup {0}] /\ e \in VisitRows
  BY DEF VisitInv, VisitTypes, VisitRows
<1>1. /\ visited' = after /\ visiting' = [visiting EXCEPT ![v] = R!NotVisiting]
      /\ UNCHANGED access /\ e # R!NotVisiting
  BY DEF R!CommitVisits
<1>2. ASSUME NEW k \in Targets
      PROVE  /\ after[k] \in VisitTimes \cup {0}
             /\ k \in e.prunes => ~(after[k] > 0)
             /\ put(k) = {} /\ after[k] > 0 => visited[k] > 0
  <2>1. after[k] = IF k \in e.prunes THEN 0
                   ELSE IF put(k) # {} THEN (CHOOSE p \in put(k) : TRUE)[2] ELSE visited[k]
    OBVIOUS
  <2>2. put(k) # {} => (CHOOSE p \in put(k) : TRUE) \in e.puts
    OBVIOUS
  <2>3. e.puts \subseteq Targets \X VisitTimes \X (VisitTimes \cup {0})
    BY <1>0 DEF VisitRows
  <2>4. put(k) # {} => (CHOOSE p \in put(k) : TRUE)[2] \in VisitTimes
    <3>1. \A p \in e.puts : p[2] \in VisitTimes
      BY <2>3
    <3> QED
      BY <2>2, <3>1
  <2> HIDE DEF put, after, e
  <2>5. after[k] \in VisitTimes \cup {0}
    BY <2>1, <2>4, <1>0
  <2>6. k \in e.prunes => after[k] = 0
    BY <2>1
  <2>7. put(k) = {} /\ k \notin e.prunes => after[k] = visited[k]
    BY <2>1
  <2> QED
    BY <2>5, <2>6, <2>7
<1>3. PICK owner \in [R!Stored -> Visitors], kept \in [Visitors -> SUBSET Targets] : Accounted(owner, kept)
  BY DEF VisitInv
<1>4. Kept(owner, kept, v)
  BY <1>3 DEF Accounted
<1>5. ASSUME NEW k \in R!Stored'
      PROVE  /\ k \in Targets /\ k \notin e.prunes
             /\ k \notin kept[v] => k \in R!Stored /\ owner[k] # v
  <2>1. k \in Targets /\ after[k] > 0
    BY <1>1 DEF R!Stored
  <2>2. k \notin e.prunes
    BY <2>1, <1>2
  <2>3. put(k) # {} => k \in kept[v]
    <3>1. \A p \in e.puts : p[1] \in kept[v] \cup e.prunes
      BY <1>1, <1>4 DEF Kept
    <3> QED
      BY <2>2, <3>1
  <2>4. k \notin kept[v] => k \in R!Stored
    <3> HIDE DEF put, after
    <3> QED
      BY <2>1, <2>3, <1>2 DEF R!Stored
  <2>5. k \in R!Stored /\ owner[k] = v => k \in kept[v]
    BY <2>2, <1>1, <1>4 DEF Kept, Owned
  <2> QED
    BY <2>1, <2>2, <2>4, <2>5
<1> HIDE DEF after, put
<1>6. PICK next : next = [k \in R!Stored' |-> IF k \in kept[v] THEN v ELSE owner[k]]
  OBVIOUS
<1>7. \A k \in R!Stored' : next[k] = IF k \in kept[v] THEN v ELSE owner[k]
  BY <1>6
<1>8. next \in [R!Stored' -> Visitors]
  <2>1. \A k \in R!Stored' : (IF k \in kept[v] THEN v ELSE owner[k]) \in Visitors
    BY <1>3, <1>5
  <2> QED
    BY <1>6, <2>1
<1>9. /\ Owned(next, v)' \subseteq kept[v]
      /\ \A w \in Visitors : w # v => Owned(next, w)' \subseteq Owned(owner, w)
  BY <1>5, <1>7 DEF Owned
<1>10. R!NotVisiting \in VisitRows /\ R!NotVisiting' = R!NotVisiting
  BY DEF R!NotVisiting, VisitRows
<1>11. /\ visiting' \in [Visitors -> VisitRows] /\ visiting'[v] = R!NotVisiting
       /\ \A w \in Visitors : w # v => visiting'[w] = visiting[w]
  <2> HIDE DEF R!NotVisiting
  <2> QED
    BY <1>0, <1>1, <1>10
<1>12. ASSUME NEW w \in Visitors PROVE Kept(next, kept, w)'
  <2>1. Kept(owner, kept, w)
    BY <1>3 DEF Accounted
  <2>2. CASE w = v
    <3>1. kept[v] \subseteq Targets /\ Cardinality(kept[v]) <= Retention
      BY <1>1, <1>4 DEF Kept
    <3>2. IsFiniteSet(kept[v])
      BY <3>1, FS_Subset DEF VisitsAreTimed
    <3>3. IsFiniteSet(Owned(next, v)') /\ Cardinality(Owned(next, v)') <= Cardinality(kept[v])
          /\ Cardinality(Owned(next, v)') \in Nat /\ Cardinality(kept[v]) \in Nat
      BY <1>9, <3>2, FS_Subset, FS_CardinalityType
    <3>4. Cardinality(Owned(next, v)') <= Retention
      BY <3>1, <3>3 DEF VisitsAreTimed
    <3> QED
      BY <2>2, <3>3, <3>4, <1>10, <1>11 DEF Kept
  <2>3. CASE w # v
    <3>1. Owned(next, w)' \subseteq Owned(owner, w)
      BY <2>3, <1>9
    <3>2. IsFiniteSet(Owned(next, w)') /\ Cardinality(Owned(next, w)') <= Cardinality(Owned(owner, w))
          /\ Cardinality(Owned(next, w)') \in Nat /\ Cardinality(Owned(owner, w)) \in Nat
      BY <2>1, <3>1, FS_Subset, FS_CardinalityType DEF Kept
    <3>3. Cardinality(Owned(next, w)') <= Retention
      BY <2>1, <3>2 DEF Kept, VisitsAreTimed
    <3> QED
      BY <2>1, <2>3, <3>1, <3>2, <3>3, <1>10, <1>11 DEF Kept
  <2> QED
    BY <2>2, <2>3
<1>13. Accounted(next, kept)'
  BY <1>12 DEF Accounted
<1>14. visited' \in [Targets -> VisitTimes \cup {0}]
  BY <1>1, <1>2 DEF after
<1>15. VisitTypes'
  BY <1>0, <1>1, <1>11, <1>14 DEF VisitTypes, VisitRows
<1> QED
  BY <1>3, <1>8, <1>13, <1>15 DEF VisitInv

LEMMA VisitStep == VisitsAreTimed /\ VisitInv /\ [R!NextRecent]_(R!varsRecent) => VisitInv'
<1> SUFFICES ASSUME VisitsAreTimed, VisitInv, [R!NextRecent]_(R!varsRecent) PROVE VisitInv'
  OBVIOUS
<1>1. CASE UNCHANGED R!varsRecent
  <2>1. VisitTypes' /\ R!Stored' = R!Stored /\ visiting' = visiting
    BY <1>1 DEF VisitInv, VisitTypes, R!varsRecent, R!Stored
  <2> QED
    BY <2>1, RowsOnlyGo
<1>2. ASSUME NEW v \in Visitors, NEW k \in Targets, NEW t \in VisitTimes, R!UpsertTarget(v, k, t) PROVE VisitInv'
  <2>1. [x \in {k} |-> t] \in [{k} -> VisitTimes] /\ {k} \in SUBSET Targets
    OBVIOUS
  <2>2. R!BeginVisits(v, [x \in {k} |-> t])
    BY <1>2 DEF R!UpsertTarget
  <2> QED
    BY <2>1, <2>2, VisitsBegin
<1>3. ASSUME NEW v \in Visitors, NEW D \in SUBSET Targets, NEW at \in [D -> VisitTimes], R!ImportTargets(v, at)
      PROVE  VisitInv'
  BY <1>3, VisitsBegin DEF R!ImportTargets
<1> QED
  BY <1>1, <1>2, <1>3, VisitsForget, VisitsCommit DEF R!NextRecent

LEMMA VisitSafe == VisitsAreTimed /\ VisitInv => R!TypeOKRecent /\ R!RecentsBounded
<1> SUFFICES ASSUME VisitsAreTimed, VisitInv PROVE R!TypeOKRecent /\ R!RecentsBounded
  OBVIOUS
<1>1. R!TypeOKRecent
  BY DEF VisitInv, VisitTypes, R!TypeOKRecent
<1>2. PICK owner \in [R!Stored -> Visitors], kept \in [Visitors -> SUBSET Targets] : Accounted(owner, kept)
  BY DEF VisitInv
<1>3. \A v \in Visitors : IsFiniteSet({k \in R!Stored : owner[k] = v}) /\ Cardinality({k \in R!Stored : owner[k] = v}) <= Retention
  BY <1>2 DEF Accounted, Kept, Owned
<1>4. Cardinality(R!Stored) <= Retention * Cardinality(Visitors)
  BY <1>3, RowsBounded DEF VisitsAreTimed
<1> QED
  BY <1>1, <1>4, VisitCardinality DEF R!RecentsBounded

(* However many requests read, write and prune at a time, each leaves at     *)
(* most the retention behind: n of them at most n times as many rows, for    *)
(* any retention and any number of requests (_prune_recent_targets).         *)
THEOREM RecentTargetsBounded == VisitsAreTimed /\ R!SpecRecent => []R!RecentsBounded
<1>1. VisitsAreTimed /\ R!InitRecent => VisitInv
  BY VisitInit
<1>2. VisitsAreTimed /\ VisitInv /\ [R!NextRecent]_(R!varsRecent) => VisitInv'
  BY VisitStep
<1>3. VisitsAreTimed /\ VisitInv => R!RecentsBounded
  BY VisitSafe
<1>4. VisitsAreTimed => VisitsAreTimed'
  BY DEF VisitsAreTimed
<1> QED
  BY <1>1, <1>2, <1>3, <1>4, PTL DEF R!SpecRecent

-----------------------------------------------------------------------------
(* ToolChain: one run, its steps and its rollback.                          *)

CONSTANTS ChainPlans, TasksPerStep, MaxTries
VARIABLES chainRequest, chainPlan, chainRun, chainStep, chainAt, chainPos, chainTry, chainDone,
          chainRows, chainReported
T == INSTANCE ToolChain

(* A plan is a list of steps; a call is attempted at least once.             *)
ChainsAreLists == (\A p \in ChainPlans : \E n \in Nat : DOMAIN p = 1..n) /\ MaxTries \in Nat \ {0}

(* The steps before the one the loop is at have run or were skipped, those   *)
(* after it have not begun; a run whose loop has ended says how.             *)
PassedBefore == \A s \in DOMAIN chainPlan : s < chainPos => chainStep[s] \in {"completed", "skipped"}
PendingFrom(n) == \A s \in DOMAIN chainPlan : s >= n => chainStep[s] = "pending"
StoppedAs(status) ==
    /\ chainPos \in DOMAIN chainPlan /\ chainStep[chainPos] = status
    /\ PassedBefore /\ PendingFrom(chainPos + 1)
StandsOnReady ==
    \A d \in chainPlan[chainPos].deps : d \in DOMAIN chainPlan /\ d < chainPos /\ chainStep[d] = "completed"
ChainPlaces ==
    /\ chainAt = "planned" => chainRun = "running"
    /\ chainAt = "loop" => chainRun = "running" /\ PassedBefore /\ PendingFrom(chainPos)
    /\ chainAt = "execute" => chainRun = "running" /\ StoppedAs("running") /\ StandsOnReady
    /\ chainAt = "ended" =>
         \/ chainRun = "running" /\ PassedBefore /\ chainPos \notin DOMAIN chainPlan
         \/ chainRun \in {"failed", "waiting_confirmation"} /\ StoppedAs(chainRun)
    /\ chainAt = "rollback" =>
         /\ chainRun = "rolling_back"
         /\ chainPos \in DOMAIN chainPlan /\ chainStep[chainPos] = "failed"
         /\ \A s \in DOMAIN chainPlan :
              /\ s < chainPos => chainStep[s] \in {"completed", "skipped", "rolled_back", "failed"}
              /\ s > chainPos => chainStep[s] = "pending"
    /\ chainAt = "finished" => T!RunStatusTellsTheSteps

ChainTypes ==
    /\ chainRequest \in T!Requests /\ chainRun \in T!RunStates
    /\ chainAt \in {"start", "planning", "planned", "loop", "execute", "ended", "rollback", "finished", "dead"}
    /\ \E n \in Nat : DOMAIN chainPlan = 1..n
    /\ chainStep \in [DOMAIN chainStep -> T!StepStates]
    /\ DOMAIN chainStep \in {{}, DOMAIN chainPlan}
    /\ chainAt \in {"start", "planning", "planned"} => chainStep = <<>> /\ chainDone = <<>> /\ chainPos = 1
    /\ chainAt \in {"loop", "execute", "ended", "rollback", "finished"} => DOMAIN chainStep = DOMAIN chainPlan
    /\ chainPos \in Nat \ {0} /\ chainTry \in 1..MaxTries

(* The steps that completed and were not undone, in the order of the plan.  *)
DoneInOrder ==
    /\ chainDone \in Seq(Nat)
    /\ \A i \in 1..Len(chainDone) : chainDone[i] \in DOMAIN chainStep /\ chainDone[i] < chainPos
    /\ \A i, j \in 1..Len(chainDone) : i < j => chainDone[i] < chainDone[j]
    /\ \A s \in DOMAIN chainStep : chainStep[s] = "completed" <=> \E i \in 1..Len(chainDone) : chainDone[i] = s

(* ... and each stands on earlier ones. *)
StandOnEarlier ==
    \A s \in DOMAIN chainStep : chainStep[s] = "completed" =>
        \A d \in chainPlan[s].deps : d \in DOMAIN chainStep /\ d < s /\ chainStep[d] = "completed"

UnconfirmedWroteNothing == ~ chainRequest.confirmed => chainRows = {}

ChainInv == ChainTypes /\ ChainPlaces /\ DoneInOrder /\ StandOnEarlier /\ UnconfirmedWroteNothing

LEMMA ChainInit == ChainsAreLists /\ T!InitChain => ChainInv
<1> SUFFICES ASSUME ChainsAreLists, T!InitChain PROVE ChainInv
  OBVIOUS
<1>1. chainPlan = <<>> /\ chainStep = <<>> /\ chainDone = <<>> /\ DOMAIN chainPlan = 1..0 /\ DOMAIN chainStep = {}
  BY DEF T!InitChain
<1>2. ChainTypes
  BY <1>1 DEF T!InitChain, ChainTypes, ChainsAreLists, T!RunStates
<1>3. ChainPlaces
  BY DEF T!InitChain, ChainPlaces
<1>4. DoneInOrder /\ StandOnEarlier /\ UnconfirmedWroteNothing
  BY <1>1 DEF T!InitChain, DoneInOrder, StandOnEarlier, UnconfirmedWroteNothing
<1> QED
  BY <1>2, <1>3, <1>4 DEF ChainInv

LEMMA ChainSafe ==
  ASSUME ChainInv
  PROVE  T!CompletedStandOnCompleted /\ T!RunStatusTellsTheSteps
<1>1. T!CompletedStandOnCompleted
  BY DEF ChainInv, StandOnEarlier, ChainTypes, T!CompletedStandOnCompleted, T!Steps
<1>2. T!RunStatusTellsTheSteps
  BY DEF ChainInv, ChainPlaces, UnconfirmedWroteNothing, T!RunStatusTellsTheSteps
<1> QED
  BY <1>1, <1>2

(* The steps before the loop. *)
LEMMA ChainBegins ==
  ASSUME ChainsAreLists, ChainInv, T!CreateRun \/ T!PlanChain \/ T!SyncStepRows
  PROVE  ChainInv'
<1> USE DEF ChainInv
<1>1. CASE T!CreateRun \/ T!PlanChain
  <2>1. /\ chainAt \in {"start", "planning"} /\ chainAt' \in {"planning", "planned"} /\ chainRun' \in T!RunStates
        /\ chainStep' = <<>> /\ chainDone' = <<>> /\ chainPos' = 1 /\ DOMAIN chainStep' = {}
        /\ chainRequest' = chainRequest /\ chainRows' = chainRows /\ chainTry' = chainTry
    BY <1>1 DEF T!CreateRun, T!PlanChain, ChainTypes, T!RunStates
  <2>6. chainAt' = "planned" => chainRun' = "running"
    BY <1>1 DEF T!CreateRun, T!PlanChain
  <2>2. \E n \in Nat : DOMAIN chainPlan' = 1..n
    <3>1. CASE T!CreateRun
      BY <3>1 DEF T!CreateRun, ChainTypes
    <3>2. CASE T!PlanChain
      <4>1. DOMAIN T!FallbackPlan = 1..3
        BY DEF T!FallbackPlan
      <4> QED
        BY <3>2, <4>1 DEF T!PlanChain, ChainsAreLists
    <3> QED
      BY <1>1, <3>1, <3>2
  <2>3. ChainTypes'
    BY <2>1, <2>2 DEF ChainTypes
  <2>4. ChainPlaces'
    BY <2>1, <2>6 DEF ChainPlaces
  <2>5. (DoneInOrder /\ StandOnEarlier /\ UnconfirmedWroteNothing)'
    BY <2>1 DEF DoneInOrder, StandOnEarlier, UnconfirmedWroteNothing
  <2> QED
    BY <2>3, <2>4, <2>5
<1>2. CASE T!SyncStepRows
  <2>1. /\ chainStep' = [s \in DOMAIN chainPlan |-> "pending"] /\ chainAt' = "loop" /\ chainPlan' = chainPlan
        /\ chainDone' = <<>> /\ chainPos' = 1 /\ chainRequest' = chainRequest /\ chainRows' = chainRows
        /\ chainTry' = chainTry /\ chainRun' = chainRun
    BY <1>2 DEF T!SyncStepRows, T!Steps, ChainTypes
  <2>2. chainStep' \in [DOMAIN chainPlan -> T!StepStates] /\ DOMAIN chainStep' = DOMAIN chainPlan
    BY <2>1 DEF T!StepStates
  <2>3. ChainTypes'
    BY <2>1, <2>2 DEF ChainTypes
  <2>4. chainRun = "running"
    BY <1>2 DEF T!SyncStepRows, ChainPlaces
  <2>5. ChainPlaces'
    BY <2>1, <2>4 DEF ChainPlaces, PassedBefore, PendingFrom, ChainTypes
  <2>6. (DoneInOrder /\ StandOnEarlier /\ UnconfirmedWroteNothing)'
    BY <2>1 DEF DoneInOrder, StandOnEarlier, UnconfirmedWroteNothing
  <2> QED
    BY <2>3, <2>5, <2>6
<1> QED
  BY <1>1, <1>2

(* A step of the loop that changes at most the status of the step it is at. *)
LEMMA LoopSteps ==
  ASSUME ChainsAreLists, ChainInv, T!SkipStep \/ T!StartStep \/ T!LoopEnds
  PROVE  ChainInv'
<1> USE DEF ChainInv
<1>1. /\ chainAt = "loop" /\ chainRun = "running" /\ PassedBefore /\ PendingFrom(chainPos)
      /\ ChainTypes /\ DOMAIN chainStep = DOMAIN chainPlan
  BY DEF T!SkipStep, T!StartStep, T!LoopEnds, ChainPlaces, ChainTypes
<1>2. /\ chainPlan' = chainPlan /\ chainDone' = chainDone /\ chainRequest' = chainRequest
      /\ chainRows' = chainRows /\ chainRun' = chainRun
  BY DEF T!SkipStep, T!StartStep, T!LoopEnds
<1>3. UnconfirmedWroteNothing'
  BY <1>2 DEF UnconfirmedWroteNothing
<1>4. CASE T!LoopEnds
  <2>1. chainAt' = "ended" /\ chainStep' = chainStep /\ chainPos' = chainPos /\ chainTry' = chainTry /\ chainPos \notin DOMAIN chainPlan
    BY <1>4 DEF T!LoopEnds, T!Steps
  <2>2. ChainTypes'
    BY <1>1, <1>2, <2>1 DEF ChainTypes
  <2>3. ChainPlaces'
    BY <1>1, <1>2, <2>1 DEF ChainPlaces, PassedBefore
  <2>4. DoneInOrder' /\ StandOnEarlier'
    BY <1>2, <2>1 DEF DoneInOrder, StandOnEarlier
  <2> QED
    BY <1>3, <2>2, <2>3, <2>4
<1>5. CASE T!SkipStep \/ T!StartStep
  <2>1. /\ chainPos \in DOMAIN chainPlan
        /\ \/ /\ chainStep' = [chainStep EXCEPT ![chainPos] = "skipped"] /\ chainAt' = "loop"
              /\ chainPos' = chainPos + 1 /\ chainTry' = chainTry
           \/ /\ chainStep' = [chainStep EXCEPT ![chainPos] = "running"] /\ chainAt' = "execute"
              /\ chainPos' = chainPos /\ chainTry' = 1
    BY <1>5, <1>1 DEF T!SkipStep, T!StartStep, T!Steps
  <2>2. PICK n \in Nat : DOMAIN chainPlan = 1..n
    BY <1>1 DEF ChainTypes
  <2>3. chainStep' \in [DOMAIN chainPlan -> T!StepStates] /\ DOMAIN chainStep' = DOMAIN chainPlan
    BY <1>1, <2>1 DEF ChainTypes, T!StepStates
  <2>4. \A s \in DOMAIN chainPlan : s # chainPos => chainStep'[s] = chainStep[s]
    BY <1>1, <2>1 DEF ChainTypes
  <2>5. chainStep[chainPos] = "pending" /\ chainStep'[chainPos] \in {"skipped", "running"}
    BY <1>1, <2>1, <2>2 DEF PendingFrom, ChainTypes
  <2>6. ChainTypes'
    BY <1>1, <1>2, <2>1, <2>3 DEF ChainTypes, ChainsAreLists
  <2>7. ChainPlaces'
    <3>1. chainPos \in Nat
      BY <1>1 DEF ChainTypes
    <3>2. CASE chainAt' = "loop"
      BY <1>1, <1>2, <2>1, <2>2, <2>4, <3>1, <3>2 DEF ChainPlaces, PassedBefore, PendingFrom, ChainTypes
    <3>3. CASE chainAt' = "execute"
      <4>1. T!StartStep
        BY <1>5, <3>3 DEF T!SkipStep
      <4>2. \A d \in chainPlan[chainPos].deps : d \in DOMAIN chainPlan /\ chainStep[d] \in {"completed", "rolled_back"}
        BY <4>1 DEF T!StartStep, T!UnresolvedDeps, T!DependencyReady, T!Current, T!Steps
      <4>3. StandsOnReady
        BY <1>1, <2>2, <3>1, <4>2 DEF StandsOnReady, PassedBefore, PendingFrom
      <4>4. StandsOnReady'
        BY <1>2, <2>1, <2>4, <3>1, <3>3, <4>3 DEF StandsOnReady
      <4> QED
        BY <1>1, <1>2, <2>1, <2>2, <2>4, <3>1, <3>3, <4>4 DEF ChainPlaces, PassedBefore, PendingFrom, StoppedAs, ChainTypes
    <3> QED
      BY <2>1, <3>2, <3>3
  <2>8. DoneInOrder'
    <3>1. \A s \in DOMAIN chainPlan : chainStep'[s] = "completed" <=> chainStep[s] = "completed"
      BY <2>4, <2>5
    <3>2. chainPos' \in {chainPos, chainPos + 1} /\ chainPos \in Nat
      BY <1>1, <2>1 DEF ChainTypes
    <3> QED
      BY <1>1, <1>2, <2>2, <2>3, <3>1, <3>2 DEF DoneInOrder
  <2>9. StandOnEarlier'
    BY <1>1, <1>2, <2>3, <2>4, <2>5 DEF StandOnEarlier
  <2> QED
    BY <1>3, <2>6, <2>7, <2>8, <2>9
<1> QED
  BY <1>4, <1>5

(* A call that does not complete its step: it fails, waits or is tried again. *)
LEMMA ChainStops ==
  ASSUME ChainsAreLists, ChainInv, T!SkillNotFound \/ T!AwaitConfirmation \/ T!SkillFails \/ T!StepTimesOut
  PROVE  ChainInv'
<1> USE DEF ChainInv
<1>1. /\ chainAt = "execute" /\ chainRun = "running" /\ StoppedAs("running")
      /\ ChainTypes /\ DOMAIN chainStep = DOMAIN chainPlan
  BY DEF T!SkillNotFound, T!AwaitConfirmation, T!SkillFails, T!StepTimesOut, ChainPlaces, ChainTypes
<1>2. /\ chainPlan' = chainPlan /\ chainDone' = chainDone /\ chainRequest' = chainRequest
      /\ chainRows' = chainRows /\ chainPos' = chainPos
  BY DEF T!SkillNotFound, T!AwaitConfirmation, T!SkillFails, T!StepTimesOut, T!FailStep
<1>3. \/ /\ chainStep' = chainStep /\ chainAt' = chainAt /\ chainRun' = chainRun
         /\ chainTry' = chainTry + 1 /\ chainTry < MaxTries
      \/ \E status \in {"failed", "waiting_confirmation"} :
            /\ chainStep' = [chainStep EXCEPT ![chainPos] = status] /\ chainRun' = status
            /\ chainAt' = "ended" /\ chainTry' = chainTry
  BY DEF T!SkillNotFound, T!AwaitConfirmation, T!SkillFails, T!StepTimesOut, T!FailStep, T!ShouldRetry
<1>4. UnconfirmedWroteNothing'
  BY <1>2 DEF UnconfirmedWroteNothing
<1>5. CASE chainStep' = chainStep /\ chainAt' = chainAt /\ chainRun' = chainRun /\ chainTry' = chainTry + 1 /\ chainTry < MaxTries
  <2>1. ChainTypes'
    BY <1>1, <1>2, <1>5 DEF ChainTypes, ChainsAreLists
  <2>2. ChainPlaces'
    BY <1>1, <1>2, <1>5 DEF ChainPlaces, StoppedAs, PassedBefore, PendingFrom, StandsOnReady
  <2>3. DoneInOrder' /\ StandOnEarlier'
    BY <1>2, <1>5 DEF DoneInOrder, StandOnEarlier
  <2> QED
    BY <1>4, <2>1, <2>2, <2>3
<1>6. ASSUME NEW status \in {"failed", "waiting_confirmation"},
             chainStep' = [chainStep EXCEPT ![chainPos] = status], chainRun' = status,
             chainAt' = "ended", chainTry' = chainTry
      PROVE  ChainInv'
  <2>1. PICK n \in Nat : DOMAIN chainPlan = 1..n
    BY <1>1 DEF ChainTypes
  <2>2. chainStep' \in [DOMAIN chainPlan -> T!StepStates] /\ DOMAIN chainStep' = DOMAIN chainPlan
    BY <1>1, <1>6 DEF ChainTypes, T!StepStates
  <2>3. \A s \in DOMAIN chainPlan : s # chainPos => chainStep'[s] = chainStep[s]
    BY <1>1, <1>6 DEF ChainTypes
  <2>4. chainPos \in DOMAIN chainPlan /\ chainStep[chainPos] = "running" /\ chainStep'[chainPos] = status
    BY <1>1, <1>6 DEF StoppedAs, ChainTypes
  <2>5. ChainTypes'
    BY <1>1, <1>2, <1>6, <2>2 DEF ChainTypes, T!RunStates
  <2>6. ChainPlaces'
    BY <1>1, <1>2, <1>6, <2>1, <2>3, <2>4 DEF ChainPlaces, StoppedAs, PassedBefore, PendingFrom, ChainTypes
  <2>7. \A s \in DOMAIN chainPlan : chainStep'[s] = "completed" <=> chainStep[s] = "completed"
    BY <2>3, <2>4
  <2>8. DoneInOrder'
    BY <1>1, <1>2, <2>2, <2>7 DEF DoneInOrder
  <2>9. StandOnEarlier'
    BY <1>1, <1>2, <2>2, <2>7 DEF StandOnEarlier
  <2> QED
    BY <1>4, <2>5, <2>6, <2>8, <2>9
<1> QED
  BY <1>3, <1>5, <1>6

(* A row is written by a confirmed request only. *)
LEMMA RowStep ==
  ASSUME ChainsAreLists, ChainInv, T!WriteRow
  PROVE  ChainInv'
<1> USE DEF ChainInv
<1>1. /\ chainPlan' = chainPlan /\ chainDone' = chainDone /\ chainRequest' = chainRequest
      /\ chainStep' = chainStep /\ chainPos' = chainPos /\ chainAt' = chainAt /\ chainRun' = chainRun
      /\ chainTry' = chainTry /\ chainAt = "execute"
  BY DEF T!WriteRow
<1>2. ChainTypes' /\ DoneInOrder' /\ StandOnEarlier'
  BY <1>1 DEF ChainTypes, DoneInOrder, StandOnEarlier
<1>3. ChainPlaces'
  BY <1>1 DEF ChainPlaces, StoppedAs, PassedBefore, PendingFrom, StandsOnReady
<1>4. UnconfirmedWroteNothing'
  <2>1. SUFFICES ASSUME ~ chainRequest.confirmed PROVE FALSE
    BY <1>1 DEF UnconfirmedWroteNothing
  <2>2. T!RowsOfTry = {}
    BY <2>1 DEF UnconfirmedWroteNothing, T!RowsOfTry
  <2>3. T!Cardinality(T!RowsOfTry) = 0
    BY <2>2, FS_EmptySet DEF T!Cardinality, Cardinality
  <2>4. T!RowsToWrite(T!Current) = 0
    BY <2>1 DEF T!WriteRow, T!NeedsConfirmation, T!SideEffect, T!RowsToWrite
  <2> QED
    BY <2>3, <2>4 DEF T!WriteRow
<1> QED
  BY <1>2, <1>3, <1>4

LEMMA CompleteKeeps ==
  ASSUME ChainsAreLists, ChainInv, T!CompleteStep
  PROVE  ChainInv'
<1> USE DEF ChainInv
<1>1. /\ chainAt = "execute" /\ chainRun = "running" /\ StoppedAs("running") /\ StandsOnReady
      /\ ChainTypes /\ DOMAIN chainStep = DOMAIN chainPlan
  BY DEF T!CompleteStep, ChainPlaces, ChainTypes
<1>2. /\ chainStep' = [chainStep EXCEPT ![chainPos] = "completed"]
      /\ chainDone' = Append(chainDone, chainPos) /\ chainAt' = "loop" /\ chainPos' = chainPos + 1
      /\ chainPlan' = chainPlan /\ chainRequest' = chainRequest /\ chainRun' = chainRun
      /\ chainTry' = chainTry /\ chainRows' = chainRows
  BY DEF T!CompleteStep
<1>3. PICK n \in Nat : DOMAIN chainPlan = 1..n
  BY <1>1 DEF ChainTypes
<1>4. chainPos \in Nat /\ chainPos \in DOMAIN chainPlan /\ chainStep[chainPos] = "running"
  BY <1>1 DEF ChainTypes, StoppedAs
<1>5. chainStep' \in [DOMAIN chainPlan -> T!StepStates] /\ DOMAIN chainStep' = DOMAIN chainPlan
  BY <1>1, <1>2 DEF ChainTypes, T!StepStates
<1>6. \A s \in DOMAIN chainPlan : chainStep'[s] = IF s = chainPos THEN "completed" ELSE chainStep[s]
  BY <1>1, <1>2 DEF ChainTypes
<1>7. ChainTypes'
  BY <1>1, <1>2, <1>5 DEF ChainTypes
<1>8. ChainPlaces'
  BY <1>1, <1>2, <1>3, <1>4, <1>6 DEF ChainPlaces, StoppedAs, PassedBefore, PendingFrom
<1>9. DoneInOrder'
  <2>1. chainDone \in Seq(Nat)
    BY DEF DoneInOrder
  <2>2. /\ chainDone' \in Seq(Nat) /\ Len(chainDone') = Len(chainDone) + 1
        /\ \A i \in 1..Len(chainDone) : chainDone'[i] = chainDone[i]
        /\ chainDone'[Len(chainDone) + 1] = chainPos
    BY <1>2, <1>4, <2>1
  <2>3. Len(chainDone) \in Nat
    BY <2>1
  <2>4. \A i \in 1..Len(chainDone') : i \in 1..Len(chainDone) \/ i = Len(chainDone) + 1
    BY <2>2, <2>3
  <2>5. \A i \in 1..Len(chainDone) : chainDone[i] \in DOMAIN chainPlan /\ chainDone[i] < chainPos
    BY <1>1 DEF DoneInOrder
  <2>6. \A i \in 1..Len(chainDone') : chainDone'[i] \in DOMAIN chainStep' /\ chainDone'[i] < chainPos'
    BY <1>2, <1>3, <1>4, <1>5, <2>2, <2>4, <2>5
  <2>7. ASSUME NEW i \in 1..Len(chainDone'), NEW j \in 1..Len(chainDone'), i < j
        PROVE  chainDone'[i] < chainDone'[j]
    <3>1. i \in 1..Len(chainDone) /\ chainDone'[i] = chainDone[i]
      BY <2>2, <2>3, <2>4, <2>7
    <3>2. CASE j \in 1..Len(chainDone)
      BY <2>2, <2>7, <3>1, <3>2 DEF DoneInOrder
    <3>3. CASE j = Len(chainDone) + 1
      BY <2>2, <2>5, <3>1, <3>3
    <3> QED
      BY <2>4, <3>2, <3>3
  <2>8. \A s \in DOMAIN chainStep' : chainStep'[s] = "completed" <=> \E i \in 1..Len(chainDone') : chainDone'[i] = s
    <3>1. SUFFICES ASSUME NEW s \in DOMAIN chainPlan
                   PROVE  chainStep'[s] = "completed" <=> \E i \in 1..Len(chainDone') : chainDone'[i] = s
      BY <1>5
    <3>2. CASE s = chainPos
      BY <1>6, <2>2, <2>3, <3>2
    <3>3. CASE s # chainPos
      BY <1>1, <1>6, <2>2, <2>3, <2>4, <3>3 DEF DoneInOrder
    <3> QED
      BY <3>2, <3>3
  <2> QED
    BY <2>2, <2>6, <2>7, <2>8 DEF DoneInOrder
<1>10. StandOnEarlier'
  BY <1>1, <1>2, <1>4, <1>5, <1>6 DEF StandOnEarlier, StandsOnReady
<1>11. UnconfirmedWroteNothing'
  BY <1>2 DEF UnconfirmedWroteNothing
<1> QED
  BY <1>7, <1>8, <1>9, <1>10, <1>11

(* The last completed step is undone: no completed one stands on it. *)
LEMMA RollbackKeeps ==
  ASSUME ChainsAreLists, ChainInv, T!RollbackStep
  PROVE  ChainInv'
<1> USE DEF ChainInv
<1> DEFINE last == chainDone[Len(chainDone)]
<1>1. /\ chainAt = "rollback" /\ chainRun = "rolling_back"
      /\ chainPos \in DOMAIN chainPlan /\ chainStep[chainPos] = "failed"
      /\ \A s \in DOMAIN chainPlan :
           /\ s < chainPos => chainStep[s] \in {"completed", "skipped", "rolled_back", "failed"}
           /\ s > chainPos => chainStep[s] = "pending"
      /\ ChainTypes /\ DOMAIN chainStep = DOMAIN chainPlan
  BY DEF T!RollbackStep, ChainPlaces, ChainTypes
<1>2. chainDone \in Seq(Nat) /\ chainDone # <<>> /\ Len(chainDone) \in Nat \ {0}
  BY DEF DoneInOrder, T!RollbackStep
<1>3. last \in DOMAIN chainPlan /\ last \in Nat /\ last < chainPos
  BY <1>1, <1>2 DEF DoneInOrder
<1>4. chainDone' = SubSeq(chainDone, 1, Len(chainDone) - 1)
  BY DEF T!RollbackStep, T!WithoutUndone, T!NextToUndo, T!Last, T!Front
<1>5. PICK status \in {"rolled_back", "failed"} : chainStep' = [chainStep EXCEPT ![last] = status]
  BY DEF T!RollbackStep, T!NextToUndo, T!Last
<1>6. /\ chainPlan' = chainPlan /\ chainRequest' = chainRequest /\ chainPos' = chainPos /\ chainAt' = chainAt
      /\ chainRun' = chainRun /\ chainTry' = chainTry /\ chainRows' \subseteq chainRows
  BY DEF T!RollbackStep
<1> HIDE DEF last
<1>7. chainStep' \in [DOMAIN chainPlan -> T!StepStates] /\ DOMAIN chainStep' = DOMAIN chainPlan
  BY <1>1, <1>5 DEF ChainTypes, T!StepStates
<1>8. \A s \in DOMAIN chainPlan : chainStep'[s] = IF s = last THEN status ELSE chainStep[s]
  BY <1>1, <1>5 DEF ChainTypes
<1>9. ChainTypes'
  BY <1>1, <1>6, <1>7 DEF ChainTypes
<1>10. ChainPlaces'
  <2>1. chainPos \in Nat
    BY <1>1 DEF ChainTypes
  <2>2. \A s \in DOMAIN chainPlan : s \in Nat
    BY <1>1 DEF ChainTypes
  <2> QED
    BY <1>1, <1>3, <1>6, <1>8, <2>1, <2>2 DEF ChainPlaces
<1>11. /\ chainDone' \in Seq(Nat) /\ Len(chainDone') = Len(chainDone) - 1
       /\ \A i \in 1..Len(chainDone') : chainDone'[i] = chainDone[i]
  <2>1. \A m \in Nat : m <= Len(chainDone) =>
          /\ SubSeq(chainDone, 1, m) \in Seq(Nat) /\ Len(SubSeq(chainDone, 1, m)) = m
          /\ \A i \in 1..m : SubSeq(chainDone, 1, m)[i] = chainDone[i]
    BY <1>2
  <2> DEFINE m == Len(chainDone) - 1
  <2>2. m \in Nat /\ m <= Len(chainDone) /\ chainDone' = SubSeq(chainDone, 1, m)
    BY <1>2, <1>4
  <2> HIDE DEF m
  <2>3. /\ chainDone' \in Seq(Nat) /\ Len(chainDone') = m
        /\ \A i \in 1..m : chainDone'[i] = chainDone[i]
    BY <2>1, <2>2
  <2> QED
    BY <2>3 DEF m
<1>12. \A i \in 1..Len(chainDone') : i \in 1..Len(chainDone) /\ i < Len(chainDone)
  BY <1>2, <1>11
<1>13. \A i \in 1..Len(chainDone) : i \in 1..Len(chainDone') \/ i = Len(chainDone)
  BY <1>2, <1>11
<1>14. \A s \in DOMAIN chainPlan : chainStep[s] = "completed" <=> \E i \in 1..Len(chainDone) : chainDone[i] = s
  BY <1>1 DEF DoneInOrder
<1>15. \A i \in 1..Len(chainDone') : chainDone[i] < last
  BY <1>2, <1>12 DEF DoneInOrder, last
<1>16. DoneInOrder'
  <2>1. \A i \in 1..Len(chainDone') : chainDone'[i] \in DOMAIN chainStep' /\ chainDone'[i] < chainPos'
    BY <1>1, <1>6, <1>7, <1>11, <1>12 DEF DoneInOrder
  <2>2. \A i, j \in 1..Len(chainDone') : i < j => chainDone'[i] < chainDone'[j]
    BY <1>11, <1>12 DEF DoneInOrder
  <2>3. ASSUME NEW s \in DOMAIN chainPlan
        PROVE  chainStep'[s] = "completed" <=> \E i \in 1..Len(chainDone') : chainDone'[i] = s
    <3>1. CASE s = last
      BY <1>3, <1>8, <1>11, <1>15, <3>1
    <3>2. CASE s # last
      BY <1>8, <1>11, <1>12, <1>13, <1>14, <3>2 DEF last
    <3> QED
      BY <3>1, <3>2
  <2> QED
    BY <1>7, <1>11, <2>1, <2>2, <2>3 DEF DoneInOrder
<1>17. StandOnEarlier'
  <2>1. SUFFICES ASSUME NEW s \in DOMAIN chainPlan, chainStep'[s] = "completed", NEW d \in chainPlan[s].deps
                 PROVE  d \in DOMAIN chainPlan /\ d < s /\ chainStep'[d] = "completed"
    BY <1>6, <1>7 DEF StandOnEarlier
  <2>2. s # last /\ chainStep[s] = "completed"
    BY <1>8, <2>1
  <2>3. d \in DOMAIN chainPlan /\ d < s /\ chainStep[d] = "completed"
    BY <1>1, <2>2 DEF StandOnEarlier
  <2>4. s \in Nat /\ d \in Nat
    BY <1>1, <2>3 DEF ChainTypes
  <2>5. s < last
    BY <1>13, <1>14, <1>15, <2>2 DEF last
  <2>6. d # last
    BY <1>3, <2>3, <2>4, <2>5
  <2> QED
    BY <1>8, <2>3, <2>6
<1>18. UnconfirmedWroteNothing'
  BY <1>6 DEF UnconfirmedWroteNothing
<1> QED
  BY <1>9, <1>10, <1>16, <1>17, <1>18

(* The rollback begins, the run ends, the process stops. *)
LEMMA ChainEnds ==
  ASSUME ChainsAreLists, ChainInv, T!BeginRollback \/ T!FinishRun \/ T!ChainDies
  PROVE  ChainInv'
<1> USE DEF ChainInv
<1>1. /\ chainPlan' = chainPlan /\ chainDone' = chainDone /\ chainRequest' = chainRequest
      /\ chainStep' = chainStep /\ chainPos' = chainPos /\ chainRows' = chainRows /\ chainTry' = chainTry
  BY DEF T!BeginRollback, T!FinishRun, T!ChainDies
<1>2. DoneInOrder' /\ StandOnEarlier' /\ UnconfirmedWroteNothing'
  BY <1>1 DEF DoneInOrder, StandOnEarlier, UnconfirmedWroteNothing
<1>3. CASE T!BeginRollback
  <2>1. chainAt = "ended" /\ chainRun = "failed" /\ chainRun' = "rolling_back" /\ chainAt' = "rollback"
    BY <1>3 DEF T!BeginRollback, T!RollbackWanted
  <2>2. ChainTypes'
    BY <1>1, <2>1 DEF ChainTypes, T!RunStates
  <2>3. \A s \in DOMAIN chainPlan : s \in Nat
    BY DEF ChainTypes
  <2>4. chainPos \in Nat
    BY DEF ChainTypes
  <2>5. ChainPlaces'
    BY <1>1, <2>1, <2>3, <2>4 DEF ChainPlaces, StoppedAs, PassedBefore, PendingFrom
  <2> QED
    BY <1>2, <2>2, <2>5
<1>4. CASE T!ChainDies
  <2>1. chainRun' = chainRun /\ chainAt' = "dead"
    BY <1>4 DEF T!ChainDies
  <2> QED
    BY <1>1, <1>2, <2>1 DEF ChainTypes, ChainPlaces
<1>5. CASE T!FinishRun
  <2>1. /\ chainAt \in {"ended", "rollback"} /\ chainAt' = "finished" /\ chainRun' = T!FinalStatus
        /\ DOMAIN chainStep = DOMAIN chainPlan
    BY <1>5 DEF T!FinishRun, ChainTypes
  <2>2. \A s \in DOMAIN chainPlan : s \in Nat
    BY DEF ChainTypes
  <2>3. chainPos \in Nat
    BY DEF ChainTypes
  <2>4. CASE chainAt = "ended" /\ chainRun = "running"
    <3>1. chainRun' = "completed"
      BY <2>1, <2>4 DEF T!FinalStatus
    <3>2. \A s \in DOMAIN chainPlan : s < chainPos
      BY <2>4 DEF ChainPlaces, ChainTypes
    <3>3. \A s \in DOMAIN chainPlan : chainStep[s] \in {"completed", "skipped"}
      BY <2>4, <3>2 DEF ChainPlaces, PassedBefore
    <3>4. T!RunStatusTellsTheSteps'
      BY <1>1, <1>2, <3>1, <3>3 DEF T!RunStatusTellsTheSteps, UnconfirmedWroteNothing, T!Steps
    <3> QED
      BY <1>1, <1>2, <2>1, <3>1, <3>4 DEF ChainTypes, ChainPlaces, T!RunStates
  <2>5. CASE chainAt = "ended" /\ chainRun # "running"
    <3>1. chainRun' = chainRun /\ chainRun \in {"failed", "waiting_confirmation"} /\ StoppedAs(chainRun)
      BY <2>1, <2>5 DEF T!FinalStatus, ChainPlaces
    <3>2. \A s \in DOMAIN chainPlan : s # chainPos => chainStep[s] \in {"completed", "skipped", "pending"}
      BY <2>2, <2>3, <3>1 DEF StoppedAs, PassedBefore, PendingFrom
    <3>3. T!RunStatusTellsTheSteps'
      BY <1>1, <1>2, <3>1, <3>2 DEF T!RunStatusTellsTheSteps, UnconfirmedWroteNothing, T!Steps, StoppedAs
    <3> QED
      BY <1>1, <1>2, <2>1, <3>1, <3>3 DEF ChainTypes, ChainPlaces, T!RunStates
  <2>6. CASE chainAt = "rollback"
    <3>1. chainRun' \in {"rolled_back", "failed"} /\ chainDone = <<>>
      BY <1>5, <2>6 DEF T!FinishRun, T!FinalStatus, ChainPlaces
    <3>2. \A s \in DOMAIN chainPlan : chainStep[s] # "completed" /\ chainStep[s] # "waiting_confirmation"
      <4>1. \A s \in DOMAIN chainPlan : chainStep[s] # "completed"
        BY <2>1, <3>1 DEF DoneInOrder
      <4> QED
        BY <2>2, <2>3, <2>6, <4>1 DEF ChainPlaces
    <3>3. chainPos \in DOMAIN chainPlan /\ chainStep[chainPos] = "failed"
      BY <2>6 DEF ChainPlaces
    <3>4. T!RunStatusTellsTheSteps'
      BY <1>1, <1>2, <3>1, <3>2, <3>3 DEF T!RunStatusTellsTheSteps, UnconfirmedWroteNothing, T!Steps
    <3> QED
      BY <1>1, <1>2, <2>1, <3>1, <3>4 DEF ChainTypes, ChainPlaces, T!RunStates
  <2> QED
    BY <2>1, <2>4, <2>5, <2>6
<1> QED
  BY <1>3, <1>4, <1>5

LEMMA ChainNext == ChainsAreLists /\ ChainInv /\ [T!NextChain]_(T!varsChain) => ChainInv'
<1> SUFFICES ASSUME ChainsAreLists, ChainInv, [T!NextChain]_(T!varsChain) PROVE ChainInv'
  OBVIOUS
<1>1. CASE T!NextChain
  BY <1>1, ChainBegins, LoopSteps, ChainStops, RowStep, CompleteKeeps, RollbackKeeps, ChainEnds DEF T!NextChain
<1>2. CASE UNCHANGED T!varsChain
  <2> USE <1>2 DEF T!varsChain, ChainInv
  <2>1. ChainTypes'
    BY DEF ChainTypes
  <2>2. ChainPlaces'
    BY DEF ChainPlaces, StoppedAs, PassedBefore, PendingFrom, StandsOnReady, T!RunStatusTellsTheSteps, T!Steps
  <2>3. DoneInOrder' /\ StandOnEarlier' /\ UnconfirmedWroteNothing'
    BY DEF DoneInOrder, StandOnEarlier, UnconfirmedWroteNothing
  <2> QED
    BY <2>1, <2>2, <2>3
<1> QED
  BY <1>1, <1>2

(* ToolChain: for any plans, at every moment also of a rollback, and when    *)
(* the process stops, a completed step stands on completed ones, and the    *)
(* final status of a run tells what became of its steps and their rows.     *)
THEOREM ChainsTellWhatHappened ==
  ASSUME ChainsAreLists
  PROVE  T!InitChain /\ [][T!NextChain]_(T!varsChain) =>
           [](T!CompletedStandOnCompleted /\ T!RunStatusTellsTheSteps)
<1>1. T!InitChain => ChainInv
  BY ChainInit
<1>2. ChainInv /\ [T!NextChain]_(T!varsChain) => ChainInv'
  BY ChainNext
<1>3. ChainInv => T!CompletedStandOnCompleted /\ T!RunStatusTellsTheSteps
  BY ChainSafe
<1> QED
  BY <1>1, <1>2, <1>3, PTL

(* Types of a chain. *)
LEMMA ChainTyped == ChainInv => T!TypeOKChain
<1> SUFFICES ASSUME ChainInv PROVE T!TypeOKChain
  OBVIOUS
<1>1. DOMAIN chainStep \subseteq T!Steps
  BY DEF ChainInv, ChainTypes, T!Steps
<1>2. T!ToSet(chainDone) \subseteq T!Steps
  BY <1>1 DEF ChainInv, DoneInOrder, T!ToSet
<1> QED
  BY <1>1, <1>2 DEF ChainInv, ChainTypes, T!TypeOKChain
=============================================================================
