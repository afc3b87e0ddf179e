----------------------------- MODULE TableDesign -----------------------------
(* The fields of one table, the formulas between them, the row permission    *)
(* policy that may name one of them, and the cells that rows hold for them.  *)
(*                                                                           *)
(* Every edit validates against what it reads and commits later, without a   *)
(* lock on what it read: two edits that overlap can leave what neither of    *)
(* them would have accepted.  Reading a table evaluates its formulas.        *)
EXTENDS Naturals, Sequences, SequencesExt, FiniteSets, FiniteSetsExt

CONSTANTS
    FieldIds,     \* ids of table_fields, the ones not used yet included
    Absent,
    Designers,    \* requests that run at a time
    MaxEdits      \* bound on the edits of a history

VARIABLES
    field,        \* table_fields
    policy,       \* table_row_permission_policies: the mode and its field
    cells,        \* what the rows hold for a field: members, raw values, nothing
    edit,         \* what each request has validated and not yet committed
    overlapped,   \* two edits were in progress at a time
    edits

varsDesign == <<field, policy, cells, edit, overlapped, edits>>

(* A formula refers to fields in the order in which its expression names them*)
Refs == {<<>>} \cup {<<f>> : f \in FieldIds}
         \cup {<<p[1], p[2]>> : p \in {q \in FieldIds \X FieldIds : q[1] # q[2]}}
Plain(type) == [type |-> type, refs |-> <<>>]
Definitions == {Plain("text"), Plain("member")}
                \cup {[type |-> "formula", refs |-> r] : r \in Refs}
AllRows == [mode |-> "all", field |-> Absent]
Policies == {AllRows, [mode |-> "creator", field |-> Absent]}
              \cup {[mode |-> "member_field", field |-> f] : f \in FieldIds}
NoEdit == [op |-> "none"]

Exists(fs, f) == fs[f] # Absent
IsFormula(fs, f) == Exists(fs, f) /\ fs[f].type = "formula"
Formulas(fs) == {f \in FieldIds : IsFormula(fs, f)}
RefsOf(fs, f) == {fs[f].refs[i] : i \in DOMAIN fs[f].refs}
Dependencies(fs, f) == {g \in RefsOf(fs, f) : IsFormula(fs, g)}

(* All that a formula depends on through other formulas: what is in every    *)
(* set that has its dependencies and those of its members.                   *)
Reaches(fs, f) ==
    {g \in Formulas(fs) : \A S \in SUBSET Formulas(fs) :
        (Dependencies(fs, f) \subseteq S /\ \A h \in S : Dependencies(fs, h) \subseteq S) => g \in S}

(* validate_formula_schema: references exist, and there is no cycle. *)
ValidSchema(fs) ==
    \A f \in FieldIds : IsFormula(fs, f) =>
        /\ \A g \in RefsOf(fs, f) : Exists(fs, g)
        /\ f \notin Reaches(fs, f)

FormulaDependents(fs, f) == {g \in FieldIds : IsFormula(fs, g) /\ f \in RefsOf(fs, g)}

(* ensure_permission_field_change_safe *)
PolicyAllows(f, deleting, type) ==
    \/ policy # [mode |-> "member_field", field |-> f]
    \/ ~deleting /\ type = "member"

-----------------------------------------------------------------------------
(* What a read shows for a formula: its value, or an error.  The evaluation  *)
(* is a depth-first walk with a memo shared by the formulas of a record:     *)
(* s.path are the formulas being evaluated, the outermost first, and s.memo  *)
(* holds the results.                                                        *)

(* A reference that gives a value: a plain field, or a formula without error.*)
HasValue(fs, memo, g) == Exists(fs, g) /\ (IsFormula(fs, g) => memo[g] = "ok")
Ends(s, value) ==
    [path |-> Front(s.path), memo |-> [s.memo EXCEPT ![Last(s.path)] = value]]

(* The references of the innermost formula in turn; the first error is its   *)
(* result, and a formula that has none yet is evaluated first.               *)
Evaluate(fs, s) ==
    LET refs == fs[Last(s.path)].refs
        open == {i \in DOMAIN refs : ~HasValue(fs, s.memo, refs[i])}
        g == refs[Min(open)]
    IN  CASE open = {} -> Ends(s, "ok")
          [] open # {} /\ ~Exists(fs, g) -> Ends(s, "#REF")
          [] open # {} /\ Exists(fs, g) /\ s.memo[g] # Absent -> Ends(s, s.memo[g])
          [] open # {} /\ Exists(fs, g) /\ s.memo[g] = Absent /\ g \in ToSet(s.path) -> Ends(s, "#CYCLE")
          [] OTHER -> [s EXCEPT !.path = Append(@, g)]

(* The formulas of a record, evaluated in the order of the fields. *)
MaterializeNext(fs, order, s) ==
    LET todo == {i \in DOMAIN order : IsFormula(fs, order[i]) /\ s.memo[order[i]] = Absent}
    IN  IF s.path # <<>> THEN Evaluate(fs, s)
        ELSE IF todo # {} THEN [s EXCEPT !.path = <<order[Min(todo)]>>] ELSE s

(* A formula is begun once and ended once. *)
EvaluationSteps == 2 * Cardinality(FieldIds)
MaterializeRecord(fs, order) ==
    LET state[n \in 0..EvaluationSteps] ==
          IF n = 0 THEN [path |-> <<>>, memo |-> [f \in FieldIds |-> Absent]]
          ELSE MaterializeNext(fs, order, state[n - 1])
    IN  state[EvaluationSteps].memo

Orders == {s \in [1..Cardinality(FieldIds) -> FieldIds] :
             \A i, j \in DOMAIN s : i # j => s[i] # s[j]}

-----------------------------------------------------------------------------
InitDesign ==
    /\ field = [f \in FieldIds |-> Absent]
    /\ policy = AllRows
    /\ cells = [f \in FieldIds |-> "none"]
    /\ edit = [d \in Designers |-> NoEdit]
    /\ overlapped = FALSE
    /\ edits = 0

Begin(d, e) ==
    /\ edit[d] = NoEdit
    /\ edits < MaxEdits
    /\ edits' = edits + 1
    /\ edit' = [edit EXCEPT ![d] = e]
    /\ overlapped' = (overlapped \/ \E other \in Designers : edit[other] # NoEdit)
    /\ UNCHANGED <<field, policy, cells>>

(* addField, updateField and deleteField: permission, reads, validation *)
BeginAddField(d, f, def) ==
    /\ ~Exists(field, f)
    /\ ValidSchema([field EXCEPT ![f] = def])
    /\ Begin(d, [op |-> "add", id |-> f, def |-> def])
BeginUpdateField(d, f, def) ==
    /\ Exists(field, f)
    /\ PolicyAllows(f, FALSE, def.type)
    /\ ValidSchema([field EXCEPT ![f] = def])
    /\ Begin(d, [op |-> "update", id |-> f, def |-> def])
BeginDeleteField(d, f) ==
    /\ Exists(field, f)
    /\ PolicyAllows(f, TRUE, Absent)
    /\ FormulaDependents(field, f) = {}
    /\ Begin(d, [op |-> "delete", id |-> f])

(* updateRowPermissionPolicy: the field must be a member field of the table. *)
BeginSetPolicy(d, p) ==
    /\ p.mode = "member_field" => Exists(field, p.field) /\ field[p.field].type = "member"
    /\ Begin(d, [op |-> "policy", policy |-> p])

(* A write of a cell.  Formulas are refused; a key that names no field is    *)
(* not, but the requests considered here name a field that they have seen.   *)
BeginWriteCell(d, f) ==
    /\ Exists(field, f) /\ ~IsFormula(field, f)
    /\ Begin(d, [op |-> "cell", ids |-> {f}])

(* importCsv: every row is converted before one is written, and the columns  *)
(* are mapped to fields that exist and can be imported.                      *)
BeginImportCsv(d, mapping) ==
    /\ mapping # {}
    /\ \A f \in mapping : Exists(field, f) /\ ~IsFormula(field, f)
    /\ Begin(d, [op |-> "cell", ids |-> mapping])

-----------------------------------------------------------------------------
(* The commits.  The row to change is looked up again. *)
Finish(d) ==
    /\ edit' = [edit EXCEPT ![d] = NoEdit]
    /\ UNCHANGED <<overlapped, edits>>

CommitAdd(d) ==
    /\ edit[d].op = "add"
    /\ field' = IF Exists(field, edit[d].id) THEN field
                ELSE [field EXCEPT ![edit[d].id] = edit[d].def]
    /\ Finish(d)
    /\ UNCHANGED <<policy, cells>>

(* ensure_member_field_change_safe: a field that becomes a member field must *)
(* hold no values; one that stops being one keeps its values as they are.    *)
MemberChangeSafe(f, def) ==
    def.type = "member" /\ field[f].type # "member" => cells[f] = "none"
CommitUpdate(d) ==
    /\ edit[d].op = "update"
    /\ LET f == edit[d].id  def == edit[d].def
       IN  IF Exists(field, f) /\ MemberChangeSafe(f, def)
           THEN /\ field' = [field EXCEPT ![f] = def]
                /\ cells' = IF def.type # "member" /\ cells[f] = "member"
                            THEN [cells EXCEPT ![f] = "raw"] ELSE cells
           ELSE UNCHANGED <<field, cells>>
    /\ Finish(d)
    /\ UNCHANGED policy

(* The field goes, and its key is taken out of every row. *)
CommitDelete(d) ==
    /\ edit[d].op = "delete"
    /\ field' = [field EXCEPT ![edit[d].id] = Absent]
    /\ cells' = IF Exists(field, edit[d].id)
                THEN [cells EXCEPT ![edit[d].id] = "none"] ELSE cells
    /\ Finish(d)
    /\ UNCHANGED policy

CommitPolicy(d) ==
    /\ edit[d].op = "policy"
    /\ policy' = edit[d].policy
    /\ Finish(d)
    /\ UNCHANGED <<field, cells>>

(* normalize_member_values_in_payloads: what is written to a member field    *)
(* names members of the workspace; other rows keep what they hold.           *)
CommitCells(d) ==
    /\ edit[d].op = "cell"
    /\ cells' = [f \in FieldIds |->
          IF f \notin edit[d].ids THEN cells[f]
          ELSE IF Exists(field, f) /\ field[f].type = "member" /\ cells[f] # "raw"
               THEN "member" ELSE "raw"]
    /\ Finish(d)
    /\ UNCHANGED <<field, policy>>

DesignerDies(d) ==
    /\ edit[d] # NoEdit
    /\ Finish(d)
    /\ UNCHANGED <<field, policy, cells>>

NextDesign ==
    \E d \in Designers :
        \/ \E f \in FieldIds, def \in Definitions :
              BeginAddField(d, f, def) \/ BeginUpdateField(d, f, def)
        \/ \E f \in FieldIds : BeginDeleteField(d, f) \/ BeginWriteCell(d, f)
        \/ \E p \in Policies : BeginSetPolicy(d, p)
        \/ \E mapping \in SUBSET FieldIds : BeginImportCsv(d, mapping)
        \/ CommitAdd(d) \/ CommitUpdate(d) \/ CommitDelete(d)
        \/ CommitPolicy(d) \/ CommitCells(d) \/ DesignerDies(d)

-----------------------------------------------------------------------------
(* The fields are fields, and an edit in progress is one of the six kinds.   *)
TypeOKDesign ==
    /\ field \in [FieldIds -> Definitions \cup {Absent}]
    /\ policy \in Policies
    /\ cells \in [FieldIds -> {"none", "raw", "member"}]
    /\ \A d \in Designers :
          edit[d].op \in {"none", "add", "update", "delete", "policy", "cell"}
    /\ overlapped \in BOOLEAN
    /\ edits \in 0..MaxEdits

(* Whatever overlapping edits did to the schema, a formula shows an error    *)
(* exactly when it depends on a field that is gone or on a cycle, and the    *)
(* order in which a record's formulas are evaluated does not matter.  This   *)
(* depends on the fields alone, and a request may always die, so it is       *)
(* enough to ask while no edit is in progress.                               *)
BrokenFormula(f) ==
    \E g \in Reaches(field, f) \cup {f} :
        g \in Reaches(field, g) \/ \E r \in RefsOf(field, g) : ~Exists(field, r)
FormulaErrorsExact == (\A d \in Designers : edit[d] = NoEdit) =>
    LET shown == MaterializeRecord(field, CHOOSE order \in Orders : TRUE)
    IN  /\ \A order \in Orders : MaterializeRecord(field, order) = shown
        /\ \A f \in FieldIds : IsFormula(field, f) => (shown[f] = "ok") = ~BrokenFormula(f)

(* As long as edits do not overlap, formulas refer to fields that exist and  *)
(* not to each other in a circle, the policy names a member field, a member  *)
(* field holds members, and rows hold nothing for fields that are gone.      *)
QuietEditsKeepDesign ==
    ~overlapped =>
        /\ \A f \in FieldIds : IsFormula(field, f) => ~BrokenFormula(f)
        /\ policy.mode = "member_field" =>
              Exists(field, policy.field) /\ field[policy.field].type = "member"
        /\ \A f \in FieldIds : cells[f] # "none" =>
              /\ Exists(field, f)
              /\ field[f].type = "member" => cells[f] = "member"
=============================================================================
