-------------------------- MODULE AutomationEngine --------------------------
(***************************************************************************)
(* The automation runtime: the durable event queue, the executions it      *)
(* leads to, their retries, and the processes that run them.               *)
(*                                                                         *)
(*   app/services/automation/runtime.py   claims, dispatch, retries        *)
(*   app/services/automation/executor.py  one execution                    *)
(*   app/services/automation/worker.py    the loop around the cycle        *)
(*   app/models/automation.py             events and executions            *)
(*                                                                         *)
(* Every process works on the copy of an execution that it read, and       *)
(* commits between steps.  A claim is a lease: evdue[e] and due[x] say     *)
(* that the deadline has passed.  A worker claims one item at a time;      *)
(* the time an item waits in a claimed batch is part of Slow.  Running an  *)
(* action and recording its result are two commits.                        *)
(***************************************************************************)
EXTENDS Naturals, FiniteSets

CONSTANTS
    Rules, ManualRules, \* ManualRules: the rules whose trigger type is "manual"
    Toggled,            \* rules that users disable and enable
    Events,
    WorkerLoops,        \* worker loops, one per API process
    Callers,            \* requests of execute_manual_automation
    NActions,           \* length of a rule's action list
    MaxRetries,         \* max_retries of the rules
    MaxVersion,         \* bound on rule edits
    MaxAttempts,        \* bound on retries that users ask for
    MaxFaults,          \* bound on crashes and infrastructure failures
    Slow,               \* a live process may outlast its 300 s lease, a retry
                        \* delay, or a user who retries what has just failed
    NoRule, NoEvent, NoExec

Versions == 1..MaxVersion
Actions == 1..NActions
Execs == Rules \X Versions \X Events
Procs == WorkerLoops \cup Callers

ASSUME ConstantsOK ==
    /\ ManualRules \subseteq Rules /\ Toggled \subseteq Rules
    /\ NActions \in Nat /\ MaxRetries \in Nat /\ MaxVersion \in Nat \ {0}
    /\ MaxAttempts \in Nat /\ MaxFaults \in Nat /\ Slow \in BOOLEAN
    /\ WorkerLoops \cap Callers = {}
    /\ NoRule \notin Rules /\ NoEvent \notin Events /\ NoExec \notin Execs

Retryable == {"queued", "retry_scheduled"}
Terminal == {"succeeded", "skipped", "failed", "partially_failed"}
Status == {"none", "running"} \cup Retryable \cup Terminal

VARIABLES
    rver, ron,       \* version of each rule; is it enabled and not deleted
    ev,              \* status of each event
    evdue,           \* available_at has passed
    target,          \* target_automation_id
    status, attempt, results, due, \* the execution rows: results holds the
                     \* recorded successes, due says that next_retry_at has passed
    ran, twice,      \* actions whose own commit happened, and happened again
    pc, kind,        \* where each process is, and in what
    event, ex,       \* the event and the execution it works on
    todo,            \* the matched rules left, as read: id, version, enabled
    held,            \* no rollback has expired those objects yet
    on,              \* the rule of ex was enabled when it was read
    tries, done,     \* the process's copy of attempt and results
    faults

rules == <<rver, ron>>
queue == <<ev, evdue, target>>
rows == <<status, attempt, results, due>>
effects == <<ran, twice>>
local == <<pc, kind, event, ex, todo, held, on, tries, done>>
varsEngine == <<rules, queue, rows, effects, local, faults>>

QueueType ==
    /\ rver \in [Rules -> Versions] /\ ron \in [Rules -> BOOLEAN]
    /\ ev \in [Events -> {"none", "queued", "processing", "processed"}]
    /\ evdue \in [Events -> BOOLEAN]
    /\ target \in [Events -> Rules \cup {NoRule}]
    /\ faults \in 0..MaxFaults

RowType ==
    /\ status \in [Execs -> Status] /\ attempt \in [Execs -> Nat]
    /\ results \in [Execs -> SUBSET Actions] /\ due \in [Execs -> BOOLEAN]
    /\ ran \subseteq Execs \X Actions /\ twice \subseteq ran

ItemType ==
    /\ pc \in [Procs -> {"idle", "claimed", "dispatch", "next", "start", "check",
                         "act", "record", "persist"}]
    /\ kind \in [Procs -> {"none", "event", "retry", "manual"}]
    /\ event \in [Procs -> Events \cup {NoEvent}]
    /\ todo \in [Procs -> SUBSET (Rules \X Versions \X BOOLEAN)]
    /\ held \in [Procs -> BOOLEAN]

CopyType ==
    /\ ex \in [Procs -> Execs \cup {NoExec}] /\ on \in [Procs -> BOOLEAN]
    /\ tries \in [Procs -> Nat] /\ done \in [Procs -> SUBSET Actions]

TypeOKEngine == QueueType /\ RowType /\ ItemType /\ CopyType

InitEngine ==
    /\ rver = [r \in Rules |-> 1] /\ ron = [r \in Rules |-> TRUE]
    /\ ev = [e \in Events |-> "none"] /\ evdue = [e \in Events |-> FALSE]
    /\ target = [e \in Events |-> NoRule]
    /\ status = [x \in Execs |-> "none"] /\ attempt = [x \in Execs |-> 0]
    /\ results = [x \in Execs |-> {}] /\ due = [x \in Execs |-> FALSE]
    /\ ran = {} /\ twice = {}
    /\ pc = [p \in Procs |-> "idle"] /\ kind = [p \in Procs |-> "none"]
    /\ event = [p \in Procs |-> NoEvent] /\ ex = [p \in Procs |-> NoExec]
    /\ todo = [p \in Procs |-> {}]
    /\ held = [p \in Procs |-> TRUE] /\ on = [p \in Procs |-> FALSE]
    /\ tries = [p \in Procs |-> 0] /\ done = [p \in Procs |-> {}]
    /\ faults = 0

(* What a process drops when an execution is over, and when the item is. *)
DropExecution(p) ==
    /\ ex' = [ex EXCEPT ![p] = NoExec] /\ on' = [on EXCEPT ![p] = FALSE]
    /\ tries' = [tries EXCEPT ![p] = 0] /\ done' = [done EXCEPT ![p] = {}]

DropItem(p) ==
    /\ DropExecution(p)
    /\ pc' = [pc EXCEPT ![p] = "idle"] /\ kind' = [kind EXCEPT ![p] = "none"]
    /\ event' = [event EXCEPT ![p] = NoEvent] /\ todo' = [todo EXCEPT ![p] = {}]
    /\ held' = [held EXCEPT ![p] = TRUE]

(* execute_rule_for_event returns to its caller; h: the rules are still held *)
Return(p, h) ==
    IF kind[p] = "retry" THEN DropItem(p)
    ELSE /\ DropExecution(p)
         /\ pc' = [pc EXCEPT ![p] = "next"]
         /\ held' = [held EXCEPT ![p] = h]
         /\ UNCHANGED <<kind, event, todo>>

(* ... after a failure, with the results read back from the row.             *)
(* Unless permission was denied, _persist_failed_action_result comes next.   *)
FailAndReturn(p, list, h) ==
    \/ Return(p, h)
    \/ /\ list # Actions
       /\ pc' = [pc EXCEPT ![p] = "persist"]
       /\ done' = [done EXCEPT ![p] = list]
       /\ held' = [held EXCEPT ![p] = h]
       /\ UNCHANGED <<kind, event, ex, todo, on, tries>>

-----------------------------------------------------------------------------
(* Users, time and the producers of events.                                *)

(* update_automation with an executable change *)
EditRule(r) ==
    /\ rver[r] < MaxVersion
    /\ rver' = [rver EXCEPT ![r] = @ + 1]
    /\ UNCHANGED <<ron, queue, rows, effects, local, faults>>

(* set_automation_enabled; delete_automation disables for good *)
ToggleRule(r) ==
    /\ r \in Toggled
    /\ ron' = [ron EXCEPT ![r] = ~@]
    /\ UNCHANGED <<rver, queue, rows, effects, local, faults>>

(* A record change has queued an event.  An event of the scheduler targets   *)
(* one rule: to it the system looks as if it had no other.                   *)
QueueEvent(e) ==
    /\ ev[e] = "none"
    /\ ev' = [ev EXCEPT ![e] = "queued"]
    /\ evdue' = [evdue EXCEPT ![e] = TRUE]
    /\ UNCHANGED <<rules, target, rows, effects, local, faults>>

(* Without Slow, leases and delays outlive the work of a live process. *)
EventDue(e) ==
    /\ ev[e] \in {"queued", "processing"} /\ ~evdue[e]
    /\ ev[e] = "processing" /\ ~Slow =>
         \A p \in Procs : ~(kind[p] = "event" /\ event[p] = e)
    /\ evdue' = [evdue EXCEPT ![e] = TRUE]
    /\ UNCHANGED <<rules, ev, target, rows, effects, local, faults>>

RetryDue(x) ==
    /\ status[x] = "retry_scheduled" /\ ~due[x]
    /\ ~Slow => \A p \in Procs : ex[p] # x
    /\ due' = [due EXCEPT ![x] = TRUE]
    /\ UNCHANGED <<rules, queue, status, attempt, results, effects, local, faults>>

(* retry_execution *)
RetryExecution(x) ==
    /\ status[x] \in {"failed", "partially_failed"}
    /\ attempt[x] < MaxAttempts
    /\ ~Slow => \A p \in Procs : ex[p] # x
    /\ status' = [status EXCEPT ![x] = "retry_scheduled"]
    /\ due' = [due EXCEPT ![x] = TRUE]
    /\ UNCHANGED <<rules, queue, attempt, results, effects, local, faults>>

-----------------------------------------------------------------------------
(* Claims and dispatch.                                                    *)

(* Mutant: an expired lease is not taken over. *)
ClaimableQueued(e) == ev[e] = "queued" /\ evdue[e]

Claimable(e) == ev[e] \in {"queued", "processing"} /\ evdue[e]

(* _claim_events *)
ClaimEvent(p, e) ==
    /\ pc[p] = "idle" /\ Claimable(e)
    /\ ev' = [ev EXCEPT ![e] = "processing"]
    /\ evdue' = [evdue EXCEPT ![e] = FALSE]
    /\ pc' = [pc EXCEPT ![p] = "dispatch"]
    /\ kind' = [kind EXCEPT ![p] = "event"]
    /\ event' = [event EXCEPT ![p] = e]
    /\ UNCHANGED <<rules, target, rows, effects, ex, todo, held, on, tries, done, faults>>

(* _rules_for_event and trigger_matches *)
Matching(e) ==
    IF target[e] = NoRule THEN Rules \ ManualRules ELSE {target[e]} \cap ManualRules

Dispatch(p) ==
    /\ pc[p] = "dispatch"
    /\ pc' = [pc EXCEPT ![p] = "next"]
    /\ todo' = [todo EXCEPT ![p] =
         {<<r, rver[r], TRUE>> : r \in {q \in Matching(event[p]) : ron[q]}}]
    /\ UNCHANGED <<rules, queue, rows, effects, kind, event, ex, held, on, tries, done,
                   faults>>

(* execute_manual_automation queues its own event and commits it before it   *)
(* executes the rule.                                                        *)
ManualRun(p, r, e) ==
    /\ pc[p] = "idle" /\ ev[e] = "none"
    /\ ev' = [ev EXCEPT ![e] = "queued"]
    /\ evdue' = [evdue EXCEPT ![e] = TRUE]
    /\ target' = [target EXCEPT ![e] = r]
    /\ pc' = [pc EXCEPT ![p] = "next"]
    /\ kind' = [kind EXCEPT ![p] = "manual"]
    /\ event' = [event EXCEPT ![p] = e]
    /\ todo' = [todo EXCEPT ![p] = {<<r, rver[r], ron[r]>>}]
    /\ UNCHANGED <<rules, rows, effects, ex, held, on, tries, done, faults>>

(* The process keeps the execution as it is now. *)
ReadRow(p, x) ==
    /\ ex' = [ex EXCEPT ![p] = x]
    /\ tries' = [tries EXCEPT ![p] = attempt[x]]
    /\ done' = [done EXCEPT ![p] = results[x]]

(* The rule is selected again, but the session still holds the object it     *)
(* loaded at dispatch; only a rollback in between makes it current.          *)
RuleAsRead(p, m) == IF held[p] THEN m ELSE <<m[1], rver[m[1]], ron[m[1]]>>

(* _get_or_create_execution and the early returns of execute_rule_for_event: *)
(* run it, or pass it by, adding the entry an earlier failure may lack.      *)
TakeRule(p) ==
    /\ pc[p] = "next"
    /\ \E m \in todo[p] :
         LET q == RuleAsRead(p, m)
             x == <<q[1], q[2], event[p]>>
         IN /\ todo' = [todo EXCEPT ![p] = @ \ {m}]
            /\ \/ /\ status[x] \in {"none"} \cup Retryable
                  /\ status' = [status EXCEPT ![x] = IF @ = "none" THEN "queued" ELSE @]
                  /\ pc' = [pc EXCEPT ![p] = "start"]
                  /\ on' = [on EXCEPT ![p] = q[3]]
                  /\ ReadRow(p, x)
               \/ /\ status[x] \in {"failed", "partially_failed"} /\ results[x] # Actions
                  /\ pc' = [pc EXCEPT ![p] = "persist"]
                  /\ ReadRow(p, x)
                  /\ UNCHANGED <<status, on>>
               \/ /\ status[x] \notin {"none"} \cup Retryable
                  /\ UNCHANGED <<status, pc, ex, on, tries, done>>
    /\ UNCHANGED <<rules, queue, attempt, results, due, effects, kind, event, held, faults>>

(* Mutant: the event is acknowledged before its rules have run. *)
HandledAny(p) == pc[p] = "next"

Handled(p) == pc[p] = "next" /\ todo[p] = {}

(* The event is marked processed once every matched rule has been executed. *)
CloseEvent(p) ==
    /\ Handled(p)
    /\ ev' = [ev EXCEPT ![event[p]] = "processed"]
    /\ DropItem(p)
    /\ UNCHANGED <<rules, evdue, target, rows, effects, faults>>

(* _process_due_retries: the whole row is read at the claim *)
ClaimRetry(p, x) ==
    /\ pc[p] = "idle"
    /\ status[x] = "retry_scheduled" /\ due[x]
    /\ due' = [due EXCEPT ![x] = FALSE]
    /\ pc' = [pc EXCEPT ![p] = "claimed"]
    /\ kind' = [kind EXCEPT ![p] = "retry"]
    /\ ReadRow(p, x)
    /\ UNCHANGED <<rules, queue, status, attempt, results, effects, event, todo, held, on,
                   faults>>

(* _fail_retry_context when the rule has a newer version *)
BeginRetry(p) ==
    /\ pc[p] = "claimed"
    /\ LET r == ex[p][1]
       IN IF rver[r] # ex[p][2]
          THEN /\ status' = [status EXCEPT ![ex[p]] = "failed"]
               /\ due' = [due EXCEPT ![ex[p]] = FALSE]
               /\ DropItem(p)
          ELSE /\ pc' = [pc EXCEPT ![p] = "start"]
               /\ on' = [on EXCEPT ![p] = ron[r]]
               /\ UNCHANGED <<status, due, kind, event, ex, todo, held, tries, done>>
    /\ UNCHANGED <<rules, queue, attempt, results, effects, faults>>

-----------------------------------------------------------------------------
(* execute_rule_for_event, from its first commit on.                       *)

(* attempt comes from the copy; next_retry_at becomes None *)
Start(p) ==
    /\ pc[p] = "start"
    /\ status' = [status EXCEPT ![ex[p]] = "running"]
    /\ attempt' = [attempt EXCEPT ![ex[p]] = tries[p] + 1]
    /\ due' = [due EXCEPT ![ex[p]] = FALSE]
    /\ tries' = [tries EXCEPT ![p] = @ + 1]
    /\ pc' = [pc EXCEPT ![p] = "check"]
    /\ UNCHANGED <<rules, queue, results, effects, kind, event, ex, todo, held, on, done,
                   faults>>

(* depth limit, disabled rule, conditions without a record or not met *)
Skip(p) ==
    /\ pc[p] = "check"
    /\ status' = [status EXCEPT ![ex[p]] = "skipped"]
    /\ Return(p, held[p])
    /\ UNCHANGED <<rules, queue, attempt, results, due, effects, faults>>

PassChecks(p) ==
    /\ pc[p] = "check" /\ on[p]
    /\ pc' = [pc EXCEPT ![p] = "act"]
    /\ UNCHANGED <<rules, queue, rows, effects, kind, event, ex, todo, held, on, tries,
                   done, faults>>

(* The action to run next: the first one without a recorded success. *)
Pending(p) == Actions \ done[p]
IsFirst(p, i) == i \in Pending(p) /\ \A j \in Pending(p) : i <= j

Effect(x, i) ==
    /\ ran' = ran \cup {<<x, i>>}
    /\ twice' = IF <<x, i>> \in ran THEN twice \cup {<<x, i>>} ELSE twice

(* _execute_action commits on its own *)
RunAction(p) ==
    /\ pc[p] = "act"
    /\ \E i \in Actions : IsFirst(p, i) /\ Effect(ex[p], i)
    /\ pc' = [pc EXCEPT ![p] = "record"]
    /\ UNCHANGED <<rules, queue, rows, kind, event, ex, todo, held, on, tries, done, faults>>

(* Mutants: one success marks every step; the result stays in memory; the   *)
(* list holds the latest result only.                                        *)
RecordedAll(x, list) == [results EXCEPT ![x] = Actions]
RecordedNowhere(x, list) == results
RecordedLatest(x, list) == [results EXCEPT ![x] = list \ @]

Recorded(x, list) == [results EXCEPT ![x] = list]

(* action_results is written from the process's own list *)
RecordResult(p) ==
    /\ pc[p] = "record"
    /\ \E i \in Actions :
         /\ IsFirst(p, i)
         /\ results' = Recorded(ex[p], done[p] \cup {i})
         /\ done' = [done EXCEPT ![p] = @ \cup {i}]
    /\ pc' = [pc EXCEPT ![p] = "act"]
    /\ UNCHANGED <<rules, queue, status, attempt, due, effects, kind, event, ex, todo, held,
                   on, tries, faults>>

Succeed(p) ==
    /\ pc[p] = "act" /\ Pending(p) = {}
    /\ status' = [status EXCEPT ![ex[p]] = "succeeded"]
    /\ Return(p, held[p])
    /\ UNCHANGED <<rules, queue, attempt, results, due, effects, faults>>

(* Mutants: a status that nothing selects; a failure that is never final. *)
FailedStatusUnknown(n, list) == IF n <= MaxRetries THEN "retry" ELSE "failed"
FailedStatusOpen(n, list) == IF n <= MaxRetries THEN "retry_scheduled" ELSE "running"

(* The handler of the exception: retry after a delay, or a final failure. *)
FailedStatus(n, list) ==
    IF n <= MaxRetries THEN "retry_scheduled"
    ELSE IF list # {} THEN "partially_failed" ELSE "failed"

(* A permission or validation failure: no rollback, so the handler works on  *)
(* the copy, and an action's failure writes the copy's results.              *)
Fail(p) ==
    /\ \/ pc[p] = "check" /\ on[p] /\ results' = results
       \/ pc[p] = "act" /\ Pending(p) # {} /\ results' = Recorded(ex[p], done[p])
    /\ status' = [status EXCEPT ![ex[p]] = FailedStatus(tries[p], done[p])]
    /\ due' = [due EXCEPT ![ex[p]] = FALSE]
    /\ FailAndReturn(p, results'[ex[p]], held[p])
    /\ UNCHANGED <<rules, queue, attempt, effects, faults>>

(* _persist_failed_action_result adds a failed entry to the list it read. *)
PersistFailure(p) ==
    /\ pc[p] = "persist"
    /\ results' = Recorded(ex[p], done[p])
    /\ Return(p, held[p])
    /\ UNCHANGED <<rules, queue, status, attempt, due, effects, faults>>

-----------------------------------------------------------------------------
(* Infrastructure failures and crashes.                                    *)

Fault == faults < MaxFaults /\ faults' = faults + 1

(* Any other exception once the execution runs: the rollback makes the       *)
(* handler read the row again, and expires the rules the dispatch holds.     *)
(* The action's own commit may have happened.                                *)
Break(p) ==
    /\ Fault
    /\ pc[p] \in {"check", "act", "record"}
    /\ \/ UNCHANGED effects
       \/ pc[p] = "act" /\ \E i \in Actions : IsFirst(p, i) /\ Effect(ex[p], i)
    /\ status' = [status EXCEPT ![ex[p]] = FailedStatus(attempt[ex[p]], results[ex[p]])]
    /\ due' = [due EXCEPT ![ex[p]] = FALSE]
    /\ FailAndReturn(p, results[ex[p]], FALSE)
    /\ UNCHANGED <<rules, queue, attempt, results>>

(* An exception that leaves execute_rule_for_event: the event is queued again. *)
DispatchFails(p) ==
    /\ Fault
    /\ kind[p] = "event"
    /\ ev' = [ev EXCEPT ![event[p]] = "queued"]
    /\ evdue' = [evdue EXCEPT ![event[p]] = FALSE]
    /\ DropItem(p)
    /\ UNCHANGED <<rules, target, rows, effects>>

(* The process is killed, or the exception ends its cycle or request. *)
Crash(p) ==
    /\ Fault
    /\ pc[p] # "idle"
    /\ DropItem(p)
    /\ UNCHANGED <<rules, queue, rows, effects>>

-----------------------------------------------------------------------------
Claim(p) ==
    \/ \E e \in Events : ClaimEvent(p, e)
    \/ \E x \in Execs : ClaimRetry(p, x)

Step(p) ==
    \/ Dispatch(p) \/ TakeRule(p) \/ CloseEvent(p) \/ BeginRetry(p)
    \/ Start(p) \/ Skip(p) \/ PassChecks(p)
    \/ RunAction(p) \/ RecordResult(p) \/ Succeed(p) \/ Fail(p) \/ PersistFailure(p)

FaultStep(p) == Break(p) \/ DispatchFails(p) \/ Crash(p)

Environment ==
    \/ \E r \in Rules : EditRule(r) \/ ToggleRule(r)
    \/ \E e \in Events : QueueEvent(e) \/ EventDue(e)
    \/ \E x \in Execs : RetryDue(x) \/ RetryExecution(x)
    \/ \E p \in Callers, r \in Rules, e \in Events : ManualRun(p, r, e)

NextEngine ==
    \/ Environment
    \/ \E p \in WorkerLoops : Claim(p)
    \/ \E p \in Procs : Step(p) \/ FaultStep(p)

(* Time passes, the worker loops poll, oldest items first, and a coroutine  *)
(* that has started is resumed until it ends or fails.                      *)
Fairness ==
    /\ \A p \in Procs : WF_varsEngine(Step(p))
    /\ \A e \in Events :
         WF_varsEngine(EventDue(e)) /\ SF_varsEngine(\E p \in WorkerLoops : ClaimEvent(p, e))
    /\ \A x \in Execs :
         WF_varsEngine(RetryDue(x)) /\ SF_varsEngine(\E p \in WorkerLoops : ClaimRetry(p, x))

SpecEngine == InitEngine /\ [][NextEngine]_varsEngine
FairSpec == SpecEngine /\ Fairness

-----------------------------------------------------------------------------
(* An execution that reads "succeeded" has really run every action of its    *)
(* rule at least once: no crash, lease overlap, lost result or retry makes   *)
(* execute_rule_for_event skip an action that never happened.                *)
SucceededMeansDone ==
    \A x \in Execs : status[x] = "succeeded" => {x} \X Actions \subseteq ran

(* No action of an execution runs twice; that is what its unique key and its *)
(* recorded results are for (AutomationExecution: one idempotent execution   *)
(* for one rule version and trigger event).                                  *)
ActionsOnce == twice = {}

(* An event is not marked processed before every rule it matched has an      *)
(* execution that was started: a crash or a dispatch failure at any point of *)
(* _process_event cannot lose a trigger.                                     *)
ProcessedEventsRan ==
    \A e \in Events : ev[e] = "processed" =>
      \A r \in Matching(e) \ Toggled :
        \E v \in Versions : status[<<r, v, e>>] \notin {"none", "queued"}

(* A recorded success stays recorded, and an execution that succeeded or was *)
(* skipped is never touched again, by any process.                           *)
FinalAndRecordedStay ==
    [][\A x \in Execs :
         /\ results[x] \subseteq results'[x]
         /\ status[x] \in {"succeeded", "skipped"} =>
              <<status[x], attempt[x], results[x]>>' = <<status[x], attempt[x], results[x]>>
      ]_varsEngine

(* Every queued event is processed in the end: a worker that dies or falls   *)
(* behind loses its lease and another one takes over (_claim_events).        *)
EventsDispatched ==
    \A e \in Events : ev[e] = "queued" ~> ev[e] = "processed"

(* Every execution that has begun reaches a terminal status.                 *)
ExecutionsFinish ==
    \A x \in Execs : status[x] \notin {"none"} \cup Terminal ~> status[x] \in Terminal
=============================================================================
