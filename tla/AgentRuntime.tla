---------------------------- MODULE AgentRuntime ----------------------------
(* The AI runtime behind /ai/runtime/chat and /ai/runtime/confirm: every    *)
(* request of the process drives one shared state machine (the singleton of *)
(* get_runtime_executor), and a write waits for a confirmation that one     *)
(* request creates, another answers, and a timer may drop.                  *)
EXTENDS Integers, Sequences, FiniteSets

CONSTANTS
    Chats,           \* runtime chat requests; a confirmation bears its chat's name
    ToolPlans,       \* what the planner may return, see PlanTypes
    StepRetries,     \* max_retries of a step
    MaxAnswers       \* bound on the confirm requests of a history

VARIABLES
    machine,         \* AgentStateMachine.state
    chat,            \* where each chat request is
    toolPlan,        \* the plan of each chat request, with the steps' statuses
    confirms,        \* status of each ConfirmRequest, "none" before it is created
    waiting,         \* ConfirmManager._pending
    timers,          \* ConfirmManager._timeout_tasks that have not ended
    verdicts,        \* what the clients were told of each confirmation, in order
    saved,           \* AiMessage rows: who wrote, and in answer to which chat
    answers

varsRuntime == <<machine, chat, toolPlan, confirms, waiting, timers, verdicts, saved, answers>>

AgentStates == {"idle", "planning", "preview", "awaiting_confirm", "executing",
                "observing", "completed", "failed", "stopped"}
PlanSteps == [needs : SUBSET (1..2), approval : BOOLEAN, skilled : BOOLEAN,
              status : {"pending", "failed"}, tries : 0..(StepRetries + 1)]
NoPlan == [confirm |-> FALSE, steps |-> << >>]
Over == {"done", "error"}

(* _transitions: the table of the machine. *)
Arcs ==
    {<<"idle", "start", "planning">>,
     <<"planning", "need_preview", "preview">>, <<"planning", "direct_execute", "executing">>,
     <<"planning", "direct_answer", "completed">>, <<"planning", "failed", "failed">>,
     <<"preview", "show_preview", "awaiting_confirm">>,
     <<"preview", "no_confirm_needed", "executing">>, <<"preview", "failed", "failed">>,
     <<"awaiting_confirm", "approved", "executing">>,
     <<"awaiting_confirm", "rejected", "completed">>,
     <<"awaiting_confirm", "timeout", "stopped">>,
     <<"awaiting_confirm", "cancelled", "stopped">>,
     <<"executing", "step_complete", "observing">>, <<"executing", "all_complete", "completed">>,
     <<"executing", "failed", "failed">>, <<"executing", "stopped", "stopped">>,
     <<"observing", "continue", "executing">>, <<"observing", "replan", "planning">>,
     <<"observing", "all_complete", "completed">>, <<"observing", "failed", "failed">>,
     <<"failed", "retry", "planning">>}

(* can_transition *)
Can(s, e) == \E a \in Arcs : a[1] = s /\ a[2] = e

(* transition, where it is allowed *)
After(s, e) == (CHOOSE a \in Arcs : a[1] = s /\ a[2] = e)[3]

InitRuntime ==
    /\ machine = "idle"
    /\ chat = [c \in Chats |-> "new"]
    /\ toolPlan = [c \in Chats |-> NoPlan]
    /\ confirms = [c \in Chats |-> "none"]
    /\ waiting = {}
    /\ timers = {}
    /\ verdicts = [c \in Chats |-> << >>]
    /\ saved = {}
    /\ answers = 0

ConfirmsUnchanged == UNCHANGED <<confirms, waiting, timers, verdicts, answers>>

(* The handler of run: the failure is put into the shared machine when the *)
(* table has an arc for it, whoever brought the machine there.             *)
Failed(c, s) ==
    /\ machine' = IF Can(s, "failed") THEN After(s, "failed") ELSE s
    /\ chat' = [chat EXCEPT ![c] = "error"]

(* runtime_chat up to the first await of run. The user's message is added  *)
(* to a session whose commit is never awaited, so it is not stored.        *)
Start(c) ==
    /\ chat[c] = "new"
    /\ IF Can(machine, "start")
         THEN machine' = After(machine, "start") /\ chat' = [chat EXCEPT ![c] = "planning"]
         ELSE Failed(c, machine)
    /\ UNCHANGED <<toolPlan, saved>>
    /\ ConfirmsUnchanged

(* get_execution_order: called before anything ran, so the first batch are *)
(* the steps that need no step of the plan, and no step makes a second one.*)
Batch(p) == {i \in DOMAIN p.steps : p.steps[i].needs \cap DOMAIN p.steps = {}}
Ordered(p) ==
    [p EXCEPT !.steps = [i \in DOMAIN p.steps |->
        IF i \in Batch(p) THEN p.steps[i] ELSE [p.steps[i] EXCEPT !.status = "failed"]]]

(* _generate_previews *)
Previews(p) == {i \in DOMAIN p.steps : p.steps[i].approval /\ p.steps[i].skilled}
NeedsPreview(p) == p.confirm /\ \E i \in DOMAIN p.steps : p.steps[i].approval

(* _execute_plan up to the gather of its first batch, from machine state s. *)
BeginExecute(c, p, s) ==
    /\ toolPlan' = [toolPlan EXCEPT ![c] = Ordered(p)]
    /\ LET e == IF s = "observing" THEN "step_complete" ELSE "direct_execute"
       IN  CASE Batch(p) = {} /\ Can(s, "all_complete") ->
                    machine' = After(s, "all_complete") /\ chat' = [chat EXCEPT ![c] = "done"]
             [] Batch(p) # {} /\ Can(s, e) ->
                    machine' = After(s, e) /\ chat' = [chat EXCEPT ![c] = "executing"]
             [] OTHER -> Failed(c, s)
    /\ UNCHANGED saved
    /\ ConfirmsUnchanged

(* create_confirm *)
CreateConfirm(c) ==
    /\ confirms' = [confirms EXCEPT ![c] = "pending"]
    /\ waiting' = waiting \cup {c}
    /\ timers' = timers \cup {c}
    /\ UNCHANGED <<verdicts, answers, saved>>

(* The intent and the plan have arrived: run goes on to its next await. *)
PlanArrives(c, p) ==
    /\ chat[c] = "planning"
    /\ CASE p.steps = << >> ->
              /\ IF Can(machine, "direct_answer")
                   THEN /\ machine' = After(machine, "direct_answer")
                        /\ chat' = [chat EXCEPT ![c] = "answering"]
                   ELSE Failed(c, machine)
              /\ UNCHANGED <<toolPlan, saved>>
              /\ ConfirmsUnchanged
         [] p.steps # << >> /\ ~ NeedsPreview(p) -> BeginExecute(c, p, machine)
         [] p.steps # << >> /\ NeedsPreview(p) /\ ~ Can(machine, "need_preview") ->
              /\ Failed(c, machine)
              /\ toolPlan' = [toolPlan EXCEPT ![c] = p]
              /\ UNCHANGED saved
              /\ ConfirmsUnchanged
         [] p.steps # << >> /\ NeedsPreview(p) /\ Can(machine, "need_preview") ->
              IF Previews(p) = {}
                THEN BeginExecute(c, p, After("preview", "no_confirm_needed"))
                ELSE /\ machine' = After("preview", "show_preview")
                     /\ chat' = [chat EXCEPT ![c] = "done"]
                     /\ toolPlan' = [toolPlan EXCEPT ![c] = p]
                     /\ CreateConfirm(c)

(* The model does not answer, or not in the form asked for; the text that  *)
(* was streamed until then is stored.                                      *)
PlanFails(c) ==
    /\ chat[c] \in {"planning", "answering"}
    /\ Failed(c, machine)
    /\ \/ saved' = saved
       \/ chat[c] = "answering" /\ saved' = saved \cup {<<"assistant", c>>}
    /\ UNCHANGED toolPlan
    /\ ConfirmsUnchanged

(* _run_chat_answer has streamed its text; all_complete has no arc from    *)
(* completed, so the run still ends in its handler. The text is stored.    *)
AnswerChat(c) ==
    /\ chat[c] = "answering"
    /\ IF Can(machine, "all_complete")
         THEN machine' = After(machine, "all_complete") /\ chat' = [chat EXCEPT ![c] = "done"]
         ELSE Failed(c, machine)
    /\ saved' = saved \cup {<<"assistant", c>>}
    /\ UNCHANGED toolPlan
    /\ ConfirmsUnchanged

ExecuteStepOnceMore(st) == [st EXCEPT !.status = "failed", !.tries = StepRetries + 2]

(* _execute_step: reads model_fields of a dataclass, raises, and the step  *)
(* is failed; each step of the batch is tried once and then retried.       *)
ExecuteStep(st) == [st EXCEPT !.status = "failed", !.tries = StepRetries + 1]

(* The rest of _execute_plan and the end of run. *)
ExecuteBatch(c) ==
    /\ chat[c] = "executing"
    /\ toolPlan' = [toolPlan EXCEPT ![c].steps =
           [i \in DOMAIN @ |-> IF i \in Batch(toolPlan[c]) THEN ExecuteStep(@[i]) ELSE @[i]]]
    /\ IF Can(machine, "all_complete")
         THEN machine' = After(machine, "all_complete") /\ chat' = [chat EXCEPT ![c] = "done"]
         ELSE Failed(c, machine)
    /\ UNCHANGED saved
    /\ ConfirmsUnchanged

ResolveKept(c, approved) ==
    /\ confirms' = [confirms EXCEPT ![c] = IF approved THEN "approved" ELSE "rejected"]
    /\ timers' = timers \ {c}
    /\ verdicts' = [verdicts EXCEPT ![c] = Append(@, IF approved THEN "approved" ELSE "rejected")]
    /\ UNCHANGED waiting

(* resolve: the confirmation is popped and its timer cancelled. *)
Resolve(c, approved) ==
    /\ confirms' = [confirms EXCEPT ![c] = IF approved THEN "approved" ELSE "rejected"]
    /\ waiting' = waiting \ {c}
    /\ timers' = timers \ {c}
    /\ verdicts' = [verdicts EXCEPT ![c] = Append(@, IF approved THEN "approved" ELSE "rejected")]

(* resume_after_confirm: the machine follows the answer where its table    *)
(* has the arc. The context of the request is a fresh one without a plan,  *)
(* so an approved plan is reported as expired and not executed.            *)
Resume(approved) ==
    LET e == IF approved THEN "approved" ELSE "rejected"
    IN  machine' = IF Can(machine, e) THEN After(machine, e) ELSE machine

(* runtime_confirm *)
Confirm(c, approved) ==
    /\ answers < MaxAnswers
    /\ confirms[c] # "none"
    /\ answers' = answers + 1
    /\ IF c \in waiting
         THEN Resolve(c, approved) /\ Resume(approved)
         ELSE UNCHANGED <<machine, confirms, waiting, timers, verdicts>>
    /\ UNCHANGED <<chat, toolPlan, saved>>

(* _auto_timeout: pops, and tells the machine nothing. *)
Timeout(c) ==
    /\ c \in timers
    /\ timers' = timers \ {c}
    /\ waiting' = waiting \ {c}
    /\ IF c \in waiting /\ confirms[c] = "pending"
         THEN /\ confirms' = [confirms EXCEPT ![c] = "timeout"]
              /\ verdicts' = [verdicts EXCEPT ![c] = Append(@, "timeout")]
         ELSE UNCHANGED <<confirms, verdicts>>
    /\ UNCHANGED <<machine, chat, toolPlan, saved, answers>>

(* Every request was answered and no confirmation is open. *)
Settled ==
    /\ \A c \in Chats : chat[c] \in Over
    /\ waiting = {} /\ timers = {}
    /\ answers = MaxAnswers \/ \A c \in Chats : confirms[c] = "none"
    /\ UNCHANGED varsRuntime

NextRuntime ==
    \/ \E c \in Chats :
        \/ Start(c)
        \/ \E p \in ToolPlans : PlanArrives(c, p)
        \/ PlanFails(c)
        \/ AnswerChat(c)
        \/ ExecuteBatch(c)
        \/ \E approved \in BOOLEAN : Confirm(c, approved)
        \/ Timeout(c)
    \/ Settled

SpecRuntime == InitRuntime /\ [][NextRuntime]_varsRuntime

-----------------------------------------------------------------------------

TypeOKRuntime ==
    /\ machine \in AgentStates
    /\ chat \in [Chats -> {"new", "planning", "answering", "executing"} \cup Over]
    /\ \A c \in Chats : \A i \in DOMAIN toolPlan[c].steps : toolPlan[c].steps[i] \in PlanSteps
    /\ confirms \in [Chats -> {"none", "pending", "approved", "rejected", "timeout"}]
    /\ waiting \subseteq Chats /\ timers \subseteq Chats
    /\ saved \subseteq ({"user", "assistant"} \X Chats)
    /\ answers \in 0..MaxAnswers

(* A confirmation is decided once: however its answers and its timer race, *)
(* at most one of them takes effect, and the stored status is that one     *)
(* (resolve and _auto_timeout in confirm_manager.py).                      *)
DecidedOnce ==
    \A c \in Chats :
        /\ Len(verdicts[c]) <= 1
        /\ confirms[c] \in {"approved", "rejected", "timeout"} => verdicts[c] = <<confirms[c]>>
        /\ (c \in waiting) <=> (confirms[c] = "pending")

(* Two requests never drive the shared machine at the same time: while one *)
(* plans, answers or executes, every other one is refused.                 *)
OneRunDrives ==
    Cardinality({c \in Chats : chat[c] \in {"planning", "answering", "executing"}}) <= 1

(* A request that finds no other run under way and no confirmation open is *)
(* planned and served (docstring of runtime_chat in api/ai.py).            *)
FreshRequestsServed ==
    [][ \A c \in Chats :
          (/\ chat[c] = "new" /\ chat'[c] # "new" /\ waiting = {}
           /\ \A d \in Chats \ {c} : chat[d] \in Over \cup {"new"})
          => chat'[c] = "planning" ]_varsRuntime
=============================================================================
