----------------------------- MODULE RecordQuery -----------------------------
(* Reading a filtered, sorted table page by page (services/record_query).    *)
(*                                                                           *)
(* A query is answered in one of two ways: the database filters, sorts and   *)
(* pages, or the database narrows the rows as far as the filters compile to  *)
(* SQL and Python filters, sorts and pages them.  Both are meant to give     *)
(* what Python alone gives on the rows that the user may see.                *)
EXTENDS Integers, Sequences, FiniteSets, SequencesExt

CONSTANTS
    Null,         \* JSON null, or no such key
    Rows,         \* contents of rows: a number cell n and a select cell s
    Options,      \* values of the select field, in their alphabetical order
    Conditions,   \* filter conditions: a field, an operator and a value
    MaxRows,
    MaxFilters,
    PageSizes

VARIABLES
    query,        \* the rows, who may see them, the filters, sorts and page size
    offset,       \* where the next page starts
    fetched,      \* the ids received so far
    more          \* hasMore of the last page

varsQuery == <<query, offset, fetched, more>>

FieldTypes == [n |-> "number", s |-> "select"]     \* "gone" was deleted
Known(f) == f \in DOMAIN FieldTypes
OptionIndex == [o \in {Options[i] : i \in DOMAIN Options} |->
                  CHOOSE i \in DOMAIN Options : Options[i] = o]

(* The value of a row's cell; a cell of a deleted field has none. *)
Cell(row, f) == IF Known(f) THEN row[f] ELSE Null
IsEmpty(v) == v = Null
Number(v) == IF v = Null THEN 0 ELSE v           \* Number(null) is 0

Compares(op, a, b) ==
    CASE op = "gt" -> a > b [] op = "lt" -> a < b
      [] op = "gte" -> a >= b [] op = "lte" -> a <= b
Ordering == {"gt", "lt", "gte", "lte"}

(* check_filter: a stale filter on a deleted field is ignored. *)
CheckFilter(row, c) ==
    LET v == Cell(row, c.field)
    IN  \/ ~Known(c.field)
        \/ c.op \in {"equals", "is"} /\ v = c.value
        \/ c.op = "is_not" /\ v # c.value
        \/ c.op = "is_empty" /\ IsEmpty(v)
        \/ c.op = "is_not_empty" /\ ~IsEmpty(v)
        \/ c.op \in Ordering /\ Compares(c.op, Number(v), Number(c.value))

(* Conditions are combined from the left, each by its own and/or. *)
MatchesFilters(row, filters) ==
    LET upto[i \in 0..Len(filters)] ==
          IF i = 0 THEN TRUE
          ELSE LET now == CheckFilter(row, filters[i])
               IN  IF i = 1 THEN now
                   ELSE IF filters[i].logic = "or" THEN upto[i - 1] \/ now
                        ELSE upto[i - 1] /\ now
    IN  upto[Len(filters)]

(* compare_smart_values: empty cells sort last, and first when descending.   *)
CompareValues(f, a, b) ==
    LET key(v) == IF f = "n" THEN v ELSE OptionIndex[v]
    IN  CASE a = b -> 0
          [] a # b /\ a = Null -> 1
          [] a # b /\ b = Null -> -1
          [] OTHER -> IF key(a) < key(b) THEN -1 ELSE 1
CompareRows(left, right, sorts) ==
    LET result(i) ==
          LET c == CompareValues(sorts[i].field, Cell(left, sorts[i].field),
                                 Cell(right, sorts[i].field))
          IN  IF sorts[i].order = "desc" THEN -c ELSE c
        decisive == {i \in DOMAIN sorts : result(i) # 0}
    IN  IF decisive = {} THEN 0
        ELSE result(CHOOSE i \in decisive : \A j \in decisive : i <= j)

(* sort_records is stable; rows carry their order_index. *)
SortRecords(rows, sorts) ==
    LET before(i, j) ==
          LET c == CompareRows(rows[i], rows[j], sorts)
          IN  c < 0 \/ (c = 0 /\ i < j)
        order == SetToSortSeq(DOMAIN rows, before)
    IN  [i \in 1..Len(rows) |-> rows[order[i]]]

Page(rows, from, limit) ==
    SubSeq(rows, from + 1, IF from + limit < Len(rows) THEN from + limit ELSE Len(rows))

QueryInMemory(rows, filters, sorts, from, limit) ==
    LET ordered == SortRecords(
              SelectSeq(rows, LAMBDA row : MatchesFilters(row, filters)), sorts)
        page == Page(ordered, from, limit)
    IN  [records |-> page, hasMore |-> from + Len(page) < Len(ordered)]

-----------------------------------------------------------------------------
(* The SQL side: conditions are true, false or null, and null selects no row *)

Not3(b) == CASE b = "true" -> "false" [] b = "false" -> "true" [] b = "null" -> "null"
Or3(a, b) == IF "true" \in {a, b} THEN "true"
             ELSE IF "null" \in {a, b} THEN "null" ELSE "false"
And3(a, b) == Not3(Or3(Not3(a), Not3(b)))
Sql(b) == IF b THEN "true" ELSE "false"

Compiles(c) ==
    /\ Known(c.field)
    /\ c.op \in IF FieldTypes[c.field] = "number"
                THEN Ordering \cup {"equals", "is_empty", "is_not_empty"}
                ELSE {"equals", "is", "is_not", "is_empty", "is_not_empty"}

(* compile_filter_condition, evaluated on a row: a null cell is compared as  *)
(* null, and an ordering counts it as 0.                                     *)
SqlEquals(v, expected) ==
    IF expected = Null THEN Sql(v = Null)
    ELSE IF v = Null THEN "null" ELSE Sql(v = expected)
SqlConditionNoEmptyCase(row, c) ==
    LET v == Cell(row, c.field)
    IN  CASE c.op \in {"equals", "is"} -> SqlEquals(v, c.value)
          [] c.op = "is_not" -> Not3(SqlEquals(v, c.value))
          [] c.op = "is_empty" -> Sql(IsEmpty(v))
          [] c.op = "is_not_empty" -> Sql(~IsEmpty(v))
          [] c.op \in Ordering -> IF v = Null THEN "null"
                                  ELSE Sql(Compares(c.op, v, Number(c.value)))
SqlCondition(row, c) ==
    LET v == Cell(row, c.field)
    IN  CASE c.op \in {"equals", "is"} -> SqlEquals(v, c.value)
          [] c.op = "is_not" -> Not3(SqlEquals(v, c.value))
          [] c.op = "is_empty" -> Sql(IsEmpty(v))
          [] c.op = "is_not_empty" -> Sql(~IsEmpty(v))
          [] c.op \in Ordering -> Sql(Compares(c.op, Number(v), Number(c.value)))

(* compile_filter_expression: all conditions compile, or none is used. *)
FiltersCompile(filters) == filters # <<>> /\ \A i \in DOMAIN filters : Compiles(filters[i])
SqlFilter(row, filters) ==
    LET upto[i \in 1..Len(filters)] ==
          LET now == SqlCondition(row, filters[i])
          IN  IF i = 1 THEN now
              ELSE IF filters[i].logic = "or" THEN Or3(upto[i - 1], now)
                   ELSE And3(upto[i - 1], now)
    IN  upto[Len(filters)] = "true"

(* ORDER BY an empty rank and the value of each sort, then order_index. *)
SqlOrder(rows, sorts) ==
    LET rank(v) == IF v = Null THEN 1 ELSE 0
        less(s, a, b) ==
          LET up(x, y) == \/ rank(x) < rank(y)
                          \/ x # Null /\ y # Null /\ CompareValues(s.field, x, y) < 0
          IN  IF s.order = "desc" THEN up(b, a) ELSE up(a, b)
        before(i, j) ==
          LET value(k, row) == Cell(row, sorts[k].field)
              decisive == {k \in DOMAIN sorts : value(k, rows[i]) # value(k, rows[j])}
          IN  IF decisive = {} THEN i < j
              ELSE LET k == CHOOSE k \in decisive : \A m \in decisive : k <= m
                   IN  less(sorts[k], value(k, rows[i]), value(k, rows[j]))
        order == SetToSortSeq(DOMAIN rows, before)
    IN  [i \in 1..Len(rows) |-> rows[order[i]]]

(* Only where SQL is exact may it page: emptiness and orderings of numbers.  *)
FiltersPageInSql(filters) ==
    \A i \in DOMAIN filters :
        /\ Known(filters[i].field)
        /\ \/ filters[i].op \in {"is_empty", "is_not_empty"}
           \/ FieldTypes[filters[i].field] = "number" /\ filters[i].op \in Ordering
SortsPageInSql(sorts) ==
    \A i \in DOMAIN sorts :
        Known(sorts[i].field) /\ FieldTypes[sorts[i].field] = "number"

SortsCompile(sorts) == sorts # <<>> /\ \A i \in DOMAIN sorts : Known(sorts[i].field)

QueryRecordsDb(q, from) ==
    LET visible == SelectSeq(q.rows, LAMBDA row : row.id \in q.allowed)
        narrowed == IF FiltersCompile(q.filters)
                    THEN SelectSeq(visible, LAMBDA row : SqlFilter(row, q.filters))
                    ELSE visible
        ordered == IF SortsCompile(q.sorts) THEN SqlOrder(narrowed, q.sorts) ELSE narrowed
        paged == /\ q.filters = <<>> \/ FiltersCompile(q.filters)
                 /\ q.sorts = <<>> \/ SortsCompile(q.sorts)
                 /\ FiltersPageInSql(q.filters) /\ SortsPageInSql(q.sorts)
        page == QueryInMemory(Page(ordered, from, q.limit), q.filters, q.sorts, 0, q.limit)
    IN  IF paged
        THEN [records |-> page.records,
              hasMore |-> from + Len(page.records) < Len(ordered)]
        ELSE QueryInMemory(ordered, q.filters, q.sorts, from, q.limit)

-----------------------------------------------------------------------------
Tables == [1..MaxRows -> Rows]
WithIds(rows) == [i \in DOMAIN rows |->
                    [id |-> i, n |-> rows[i].n, s |-> rows[i].s]]
FilterLists ==
    UNION {{[i \in 1..k |-> [field |-> cs[i].field, op |-> cs[i].op,
                             value |-> cs[i].value, logic |-> logic]] :
              cs \in [1..k -> Conditions],
              logic \in IF k < 2 THEN {"and"} ELSE {"and", "or"}} :
           k \in 0..MaxFilters}
SortLists ==
    {<<>>} \cup {<<[field |-> f, order |-> o]>> :
                   f \in {"n", "s", "gone"}, o \in {"asc", "desc"}}
           \cup {<<[field |-> "n", order |-> "desc"], [field |-> "s", order |-> "asc"]>>}

InitQuery ==
    /\ \E rows \in Tables, filters \in FilterLists, sorts \in SortLists,
          limit \in PageSizes, hidden \in {{}, {1}} :
          query = [rows |-> WithIds(rows), filters |-> filters, sorts |-> sorts,
                   limit |-> limit, allowed |-> DOMAIN rows \ hidden]
    /\ offset = 0
    /\ fetched = <<>>
    /\ more = TRUE

FetchPage ==
    /\ more
    /\ \E page \in {QueryRecordsDb(query, offset)} :
           /\ fetched' = fetched \o [i \in DOMAIN page.records |-> page.records[i].id]
           /\ offset' = offset + Len(page.records)
           /\ more' = page.hasMore
    /\ UNCHANGED query

NextQuery == FetchPage

-----------------------------------------------------------------------------
(* Reading all pages of a query gives exactly the rows that the user may see *)
(* and that match, in the order that Python's filter and sort give, whether  *)
(* the database or Python filtered, sorted and paged.                        *)
Expected(q) ==
    LET visible == SelectSeq(q.rows, LAMBDA row : row.id \in q.allowed)
        all == QueryInMemory(visible, q.filters, q.sorts, 0, Len(q.rows)).records
    IN  [i \in DOMAIN all |-> all[i].id]
PagesGiveTheQuery == ~more => fetched = Expected(query)
=============================================================================
