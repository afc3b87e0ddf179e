------------------------------ MODULE AiChats ------------------------------
(* Conversations with the assistant: /ai/chat, /ai/analyze and /ai/agent    *)
(* store questions and answers, the tool router lets the model call skills  *)
(* (several at a time), and meanwhile a conversation is cleared or deleted  *)
(* and the AI configuration removed.                                        *)
EXTENDS Integers, Sequences, FiniteSets

CONSTANTS
    Convs,           \* conversation ids
    Asks,            \* requests
    Skills,          \* registered skills, called on one table
    Gated,           \* those with confirmation_required
    Denied,          \* denied_skills of the requests
    Models,          \* subset of {"tools", "reasoner"}: model_supports_tool_calling
    MaxDuplicates,   \* MAX_DUPLICATE_CALLS
    ToolLimit,       \* tool_limit
    Width,           \* tool calls the model may put into one of its turns
    MaxTurns         \* bound on the turns of a request

VARIABLES
    convs,           \* "free", "live" or "gone"
    msgs,            \* rows of ai_messages: [conv, ask, role]
    config,          \* the user has an AI configuration
    asks,            \* each request
    traces,          \* deps.traces: the tool calls that ended, per request
    effects,         \* <<request, skill>> of writes that took effect
    deleting,        \* conversation -> the messages its running delete or clear took
    wiped            \* requests whose conversation was cleared or deleted under them

varsChats == <<convs, msgs, config, asks, traces, effects, deleting, wiped>>

None == "none"
Modes == {"chat", "analyze", "agent"}
NewAsk == [pc |-> "new", mode |-> "chat", conv |-> None, model |-> "tools", tools |-> {},
           calls |-> << >>, turns |-> 0, pending |-> None, status |-> None, text |-> FALSE]

InitChats ==
    /\ convs = [c \in Convs |-> "free"]
    /\ msgs = {}
    /\ config = TRUE
    /\ asks = [a \in Asks |-> NewAsk]
    /\ traces = [a \in Asks |-> << >>]
    /\ effects = {}
    /\ deleting = [c \in Convs |-> [on |-> None, taken |-> {}]]
    /\ wiped = {}

Row(c, a, role) == [conv |-> c, ask |-> a, role |-> role]
To(a, pc) == asks' = [asks EXCEPT ![a].pc = pc]
RouterIdle == UNCHANGED <<traces, effects>>
EditsIdle == UNCHANGED <<deleting, wiped, config>>

(* createConversation, or the first commit of a chat without one. *)
FreeConv == CHOOSE c \in Convs : convs[c] = "free"
Create == convs' = [convs EXCEPT ![FreeConv] = "live"]

Found(c) == c # None /\ convs[c] = "live"

CreateConversation ==
    /\ \E c \in Convs : convs[c] = "free"
    /\ Create
    /\ UNCHANGED <<msgs, asks>>
    /\ RouterIdle /\ EditsIdle

(* A chat or an analysis arrives with the id of a conversation, or none:   *)
(* without a live one it makes its own and commits it.                     *)
Open(a, mode, c, model) ==
    /\ asks[a].pc = "new"
    /\ mode \in {"chat", "analyze"}
    /\ LET opened(d) == [asks EXCEPT ![a].pc = "opened", ![a].mode = mode,
                                     ![a].model = model, ![a].conv = d]
       IN  \/ ~ config /\ To(a, "refused") /\ UNCHANGED convs
           \/ config /\ Found(c) /\ asks' = opened(c) /\ UNCHANGED convs
           \/ /\ config /\ ~ Found(c) /\ (\E d \in Convs : convs[d] = "free")
              /\ asks' = opened(FreeConv) /\ Create
    /\ UNCHANGED msgs
    /\ RouterIdle /\ EditsIdle

(* handle_agent_mode and agent_run need a model that can call tools. *)
AcceptsAgent(model) == config /\ model = "tools"

(* agent_run: no conversation is made and the question is not stored.      *)
OpenAgent(a, c, model) ==
    /\ asks[a].pc = "new"
    /\ asks' = [asks EXCEPT ![a].mode = "agent", ![a].conv = c, ![a].model = model,
                            ![a].pc = IF AcceptsAgent(model) THEN "routing" ELSE "refused"]
    /\ UNCHANGED <<convs, msgs>>
    /\ RouterIdle /\ EditsIdle

(* The question is stored with the conversation's updated_at: when the     *)
(* conversation has gone the update finds no row and nothing is stored.    *)
Ask(a) ==
    /\ asks[a].pc = "opened"
    /\ IF convs[asks[a].conv] = "live"
         THEN /\ msgs' = msgs \cup {Row(asks[a].conv, a, "user")}
              /\ To(a, IF asks[a].mode = "chat" /\ asks[a].model = "tools"
                         THEN "routing" ELSE "analysing")
         ELSE To(a, "refused") /\ UNCHANGED msgs
    /\ UNCHANGED convs
    /\ RouterIdle /\ EditsIdle

(* select_candidate_tools: denied skills are dropped, the best ToolLimit   *)
(* of the others are offered (the scores are not modelled).                *)
Candidates(ts) ==
    /\ ts \subseteq Skills \ Denied
    /\ Cardinality(ts) = IF Cardinality(Skills \ Denied) < ToolLimit
                           THEN Cardinality(Skills \ Denied) ELSE ToolLimit

(* The start of _run_agent: the configuration is read again. *)
Route(a, ts) ==
    /\ asks[a].pc = "routing"
    /\ Candidates(ts)
    /\ asks' = [asks EXCEPT ![a].pc = CASE ~ config -> "refused"
                                        [] config /\ ts = {} -> "answering"
                                        [] OTHER -> "running",
                            ![a].status = IF ts = {} THEN "failed" ELSE None,
                            ![a].text = (ts = {}),
                            ![a].tools = ts]
    /\ UNCHANGED <<convs, msgs>>
    /\ RouterIdle /\ EditsIdle

Count(s, k) == Cardinality({i \in DOMAIN s : s[i].skill = k})

(* _count_previous_calls against MAX_DUPLICATE_CALLS: only calls that have *)
(* ended are counted.                                                      *)
Admits(a, k) == Count(traces[a], k) < MaxDuplicates

(* A turn of the model: its calls start together, and the ones the loop    *)
(* guard refuses are not made.                                             *)
BeginTurn(a, ks) ==
    /\ asks[a].pc = "running" /\ asks[a].calls = << >> /\ asks[a].turns < MaxTurns
    /\ asks' = [asks EXCEPT ![a].calls = [i \in {j \in DOMAIN ks : Admits(a, ks[j])} |-> ks[i]],
                            ![a].turns = @ + 1]
    /\ UNCHANGED <<convs, msgs>>
    /\ RouterIdle /\ EditsIdle

(* SkillRuntime.invoke for a request that is not confirmed. *)
StateOf(k) == {"failed", IF k \in Gated THEN "requires_confirmation" ELSE "completed"}

(* _invoke_tool_spec after execute: the trace, the context, the pending    *)
(* confirmation.                                                           *)
EndCall(a, i, state) ==
    LET k == asks[a].calls[i]
    IN  /\ asks[a].pc = "running"
        /\ state \in StateOf(k)
        /\ traces' = [traces EXCEPT ![a] = Append(@, [skill |-> k, state |-> state])]
        /\ effects' = IF state = "completed" THEN effects \cup {<<a, k>>} ELSE effects
        /\ asks' = [asks EXCEPT
               ![a].calls = [j \in DOMAIN @ \ {i} |-> @[j]],
               ![a].pending = IF state = "requires_confirmation" THEN k ELSE @]
        /\ UNCHANGED <<convs, msgs>>
        /\ EditsIdle

(* The status of the response: a pending confirmation overrides the model. *)
StatusOf(a, said) == IF asks[a].pending # None THEN "requires_confirmation" ELSE said

(* The structured output of the model. *)
RunEnds(a, said) ==
    /\ asks[a].pc = "running" /\ asks[a].calls = << >>
    /\ asks' = [asks EXCEPT ![a].pc = "answering", ![a].status = StatusOf(a, said), ![a].text = TRUE]
    /\ UNCHANGED <<convs, msgs>>
    /\ RouterIdle /\ EditsIdle

(* _is_tool_calling_unsupported_response makes a chat fall back. *)
FallsBack(a, unsupported) == unsupported /\ asks[a].mode = "chat"

(* agent.run raises: retries used up, the provider is down, or the model   *)
(* cannot call tools. The last makes a chat fall back to the analysis.     *)
RunFails(a, unsupported) ==
    /\ asks[a].pc = "running"
    /\ asks' = [asks EXCEPT ![a].calls = << >>,
                            ![a].pc = IF FallsBack(a, unsupported)
                                        THEN "analysing" ELSE "answering",
                            ![a].status = "failed", ![a].text = TRUE]
    /\ UNCHANGED <<convs, msgs>>
    /\ RouterIdle /\ EditsIdle

(* analyze_table_data streams: to the end with or without text, or broken  *)
(* off (no rights on the table, the provider fails).                       *)
Analyse(a, end) ==
    /\ asks[a].pc = "analysing"
    /\ end \in {"text", "empty", "broken"}
    /\ asks' = [asks EXCEPT ![a].pc = IF end = "broken" THEN "refused" ELSE "answering",
                            ![a].text = (end = "text")]
    /\ UNCHANGED <<convs, msgs>>
    /\ RouterIdle /\ EditsIdle

(* _persist_assistant_message: nothing for an empty text, nothing when the *)
(* conversation has gone.                                                  *)
Persists(a) ==
    /\ asks[a].text /\ asks[a].conv # None
    /\ convs[asks[a].conv] = "live"

(* The answer is stored, then the client is told that it is done. *)
Finish(a) ==
    /\ asks[a].pc = "answering"
    /\ msgs' = IF Persists(a) THEN msgs \cup {Row(asks[a].conv, a, "assistant")} ELSE msgs
    /\ To(a, "done")
    /\ UNCHANGED convs
    /\ RouterIdle /\ EditsIdle

(* deleteConversation and clearConversationMessages delete the messages    *)
(* that are committed when their DELETE runs ...                           *)
BeginDelete(c, what) ==
    /\ convs[c] = "live" /\ deleting[c].on = None
    /\ what \in {"delete", "clear"}
    /\ deleting' = [deleting EXCEPT ![c] = [on |-> what, taken |-> {m \in msgs : m.conv = c}]]
    /\ UNCHANGED <<convs, msgs, asks, wiped, config>>
    /\ RouterIdle

(* ... and commit, with the conversation itself when it is deleted. *)
CommitDelete(c) ==
    /\ deleting[c].on # None
    /\ msgs' = msgs \ deleting[c].taken
    /\ convs' = IF deleting[c].on = "delete" THEN [convs EXCEPT ![c] = "gone"] ELSE convs
    /\ wiped' = wiped \cup {a \in Asks : asks[a].conv = c /\ asks[a].pc # "new"}
    /\ deleting' = [deleting EXCEPT ![c] = [on |-> None, taken |-> {}]]
    /\ UNCHANGED <<asks, config>>
    /\ RouterIdle

(* saveAiConfig and deleteAiConfig *)
ChangeConfig ==
    /\ config' = ~ config
    /\ UNCHANGED <<convs, msgs, asks, deleting, wiped>>
    /\ RouterIdle

Turns == UNION {[1..n -> Skills] : n \in 1..Width}

NextChats ==
    \/ CreateConversation
    \/ \E a \in Asks, m \in Models, c \in Convs \cup {None} :
         \/ \E mode \in Modes : Open(a, mode, c, m)
         \/ OpenAgent(a, c, m)
    \/ \E a \in Asks :
         \/ Ask(a)
         \/ \E ts \in SUBSET Skills : Route(a, ts)
         \/ \E ks \in Turns : (\A i \in DOMAIN ks : ks[i] \in asks[a].tools) /\ BeginTurn(a, ks)
         \/ \E i \in DOMAIN asks[a].calls :
              \E state \in {"completed", "failed", "requires_confirmation"} : EndCall(a, i, state)
         \/ \E said \in {"completed", "requires_confirmation", "failed"} : RunEnds(a, said)
         \/ \E u \in BOOLEAN : RunFails(a, u)
         \/ \E end \in {"text", "empty", "broken"} : Analyse(a, end)
         \/ Finish(a)
    \/ \E c \in Convs : CommitDelete(c) \/ \E what \in {"delete", "clear"} : BeginDelete(c, what)
    \/ ChangeConfig

SpecChats == InitChats /\ [][NextChats]_varsChats

-----------------------------------------------------------------------------

TypeOKChats ==
    /\ convs \in [Convs -> {"free", "live", "gone"}]
    /\ \A m \in msgs : m.conv \in Convs /\ m.ask \in Asks /\ m.role \in {"user", "assistant"}
    /\ \A a \in Asks : asks[a].mode \in Modes /\ asks[a].conv \in Convs \cup {None}
    /\ effects \subseteq (Asks \X Skills)

(* A chat or an analysis that told the client it is done has left its      *)
(* question, and its answer when there was text, in the conversation;      *)
(* only a clear or a delete that ran meanwhile takes them away.            *)
ExchangesStored ==
    \A a \in Asks :
        (asks[a].pc = "done" /\ asks[a].mode # "agent" /\ a \notin wiped)
        => /\ Row(asks[a].conv, a, "user") \in msgs
           /\ asks[a].text => Row(asks[a].conv, a, "assistant") \in msgs

(* The routes of this module never confirm: a gated skill takes no effect, *)
(* and a client whose run met one and ended normally is asked to confirm   *)
(* exactly such a call.                                                    *)
GatedCallsWait ==
    /\ \A e \in effects : e[2] \notin Gated
    /\ \A a \in Asks :
        (asks[a].pc \in {"answering", "done"} /\ asks[a].status \notin {"failed", None})
        => LET met == {i \in DOMAIN traces[a] : traces[a][i].state = "requires_confirmation"}
           IN  /\ met # {} => asks[a].status = "requires_confirmation"
               /\ (asks[a].pending # None) <=> (met # {})
               /\ asks[a].pending # None => \E i \in met : traces[a][i].skill = asks[a].pending

(* The loop guard: a skill is called at most MAX_DUPLICATE_CALLS times on  *)
(* a table in one request, plus what one turn calls side by side.          *)
CallsBounded ==
    \A a \in Asks, k \in Skills : Count(traces[a], k) <= MaxDuplicates - 1 + Width
=============================================================================
