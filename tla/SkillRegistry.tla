--------------------------- MODULE SkillRegistry ---------------------------
(***************************************************************************)
(* The skill registry (app/services/skill_registry.py): rows of registered *)
(* skills with their versions in the database, lists of them in Redis, and *)
(* the registry a call is executed with, built from both the code's own    *)
(* skills and the rows.                                                     *)
(*                                                                         *)
(* A registration loads the row without a lock and commits later; the ORM  *)
(* then writes only the columns that differ from what was loaded.  The     *)
(* cached lists are dropped after the commit, in a step of their own.      *)
(* Titles, schemas, tool schemas and transport settings are one "content"; *)
(* the embedding placeholders, which nothing reads, and the search text of *)
(* a list are left out.                                                    *)
(***************************************************************************)
EXTENDS Naturals, Sequences, FiniteSets, SequencesExt

CONSTANTS
    Names,        \* canonical names of skills
    Builtins,     \* the names the code itself brings along, a subset of Names
    Spaces,       \* workspaces
    Slugs,        \* categories
    Versions, Contents,
    Broken,       \* contents whose module or endpoint cannot be loaded
    Payloads,     \* the registrations clients send
    Switches,     \* the statuses clients set, of Statuses
    Workers,      \* concurrent requests
    Keys,         \* the parameters lists are asked with
    MaxWrites     \* bound: registrations and status changes of one behaviour

Global == "global"       \* workspace_id NULL
All == "all"             \* no category filter
NoRow == 0
None == [kind |-> "none"]
BuiltinVersion == "builtin"
BuiltinContent == "builtin"
BuiltinSlug == "general"

VARIABLES
    entries,    \* the rows of skill_registry_entries
    versions,   \* the rows of skill_versions
    categories, \* the slugs of skill_categories
    cache,      \* cached list of every key, or None
    catCache,   \* cached categories, or None
    work,       \* what every worker is doing
    writes,     \* number of writes begun
    overlapped  \* whether a write ever overlapped another request

vars == <<entries, versions, categories, cache, catCache, work, writes, overlapped>>

Idle == [at |-> "idle"]
Statuses == {"draft", "active", "disabled", "deprecated"}
EntryOf(r, source) ==
    [name |-> r.name, ws |-> r.ws, cat |-> r.cat, version |-> r.version,
     content |-> r.content, source |-> source, status |-> "active", enabled |-> TRUE]
BuiltinRequest(n) ==
    [name |-> n, ws |-> Global, cat |-> BuiltinSlug, version |-> BuiltinVersion,
     content |-> BuiltinContent]

-----------------------------------------------------------------------------
(* Rows and what is made of them                                           *)

\* The rows a registration may find: a query with limit(1) and no order.
Matching(n, ws) == {i \in DOMAIN entries : entries[i].name = n /\ entries[i].ws = ws}

\* What the unit of work writes back: the attributes that differ from the
\* loaded ones; the others keep what the row holds by now.
ChangedOnly(loaded, wanted, row) ==
    [f \in DOMAIN row |-> IF wanted[f] # loaded[f] THEN wanted[f] ELSE row[f]]

\* Every version of the skill stops being current but the one registered,
\* which is rewritten, or added when there is none.
UpsertVersion(rows, i, version, content) ==
    LET new == [entry |-> i, version |-> version, content |-> content, current |-> TRUE]
        reset == [k \in DOMAIN rows |->
                     IF rows[k].entry = i THEN [rows[k] EXCEPT !.current = FALSE] ELSE rows[k]]
        mine == {k \in DOMAIN rows : rows[k].entry = i /\ rows[k].version = version}
    IN  IF mine = {} THEN Append(reset, new) ELSE [k \in DOMAIN rows |-> IF k \in mine THEN new ELSE reset[k]]

VisibleIn(e, ws) == e.ws \in {Global, ws}

\* A row as a list shows it; its category is unknown when it is not at hand.
Serialized(i, cats) ==
    [id |-> i, row |-> entries[i], cat |-> IF entries[i].cat \in cats THEN entries[i].cat ELSE All]

\* The manifest for one key, from the rows and the categories at hand.
Manifest(key, cats) ==
    {Serialized(i, cats) :
        i \in {j \in DOMAIN entries :
                 /\ VisibleIn(entries[j], key.ws)
                 /\ ~key.disabled => entries[j].enabled /\ entries[j].status \in {"active", "deprecated"}
                 /\ key.cat # All => entries[j].cat = key.cat /\ entries[j].cat \in cats}}

\* The key under which a list is cached.
CacheKey(key) == key

\* Whether the row's module or proxy loads; a row that does not is passed over.
Loads(e) == e.content \notin Broken

\* What a call of skill n in ws may run: the code's own skill, unless an active
\* row that loads brings another of the name (which one, if several, is open).
Runnable(ws, n) ==
    LET rows == {i \in DOMAIN entries :
                   /\ VisibleIn(entries[i], ws) /\ entries[i].name = n
                   /\ entries[i].enabled /\ entries[i].status = "active"
                   /\ entries[i].source # "builtin" /\ Loads(entries[i])}
    IN  IF rows # {} THEN {entries[i].content : i \in rows}
        ELSE IF n \in Builtins THEN {BuiltinContent} ELSE {}

-----------------------------------------------------------------------------
(* The registry after the first start, which enters the code's own skills. *)

Init ==
    /\ entries = [i \in 1..Cardinality(Builtins) |->
                    EntryOf(BuiltinRequest(SetToSeq(Builtins)[i]), "builtin")]
    /\ versions = [i \in 1..Cardinality(Builtins) |->
                    [entry |-> i, version |-> BuiltinVersion, content |-> BuiltinContent, current |-> TRUE]]
    /\ categories = {BuiltinSlug}
    /\ cache = [k \in Keys |-> None] /\ catCache = None
    /\ work = [w \in Workers |-> Idle]
    /\ writes = 0 /\ overlapped = FALSE

Alone(w) == \A v \in Workers \ {w} : work[v] = Idle
Writing(v) == work[v].at \in {"register", "invalidate"}
BeginWrite(w) ==
    /\ work[w] = Idle /\ writes < MaxWrites
    /\ writes' = writes + 1
    /\ overlapped' = (overlapped \/ ~Alone(w))

\* register_skill up to the load of the row.
BeginRegister(w, r, source) ==
    /\ BeginWrite(w)
    /\ \E i \in IF Matching(r.name, r.ws) = {} THEN {NoRow} ELSE Matching(r.name, r.ws) :
          work' = [work EXCEPT ![w] =
                     [at |-> "register", entry |-> i, wanted |-> EntryOf(r, source),
                      loaded |-> IF i = NoRow THEN None ELSE entries[i]]]
    /\ UNCHANGED <<entries, versions, categories, cache, catCache>>

\* ... and its writes: the category, the row, the version, the commit.
CommitRegister(w) ==
    LET t == work[w]
        i == IF t.entry = NoRow THEN Len(entries) + 1 ELSE t.entry
    IN  /\ t.at = "register"
        /\ categories' = categories \cup {t.wanted.cat}
        /\ entries' = IF t.entry = NoRow THEN Append(entries, t.wanted)
                      ELSE [entries EXCEPT ![i] = ChangedOnly(t.loaded, t.wanted, @)]
        /\ versions' = UpsertVersion(versions, i, t.wanted.version, t.wanted.content)
        /\ work' = [work EXCEPT ![w] = [at |-> "invalidate"]]
        /\ UNCHANGED <<cache, catCache, writes, overlapped>>

\* set_skill_status; a disabled skill is never left "active".
SetStatus(w, i, on, status) ==
    /\ BeginWrite(w)
    /\ entries' = [entries EXCEPT ![i].enabled = on,
                     ![i].status = IF ~on /\ status = "active" THEN "disabled" ELSE status]
    /\ work' = [work EXCEPT ![w] = [at |-> "invalidate"]]
    /\ UNCHANGED <<versions, categories, cache, catCache>>

\* sync_builtin_registry_entries of another server that starts: the rows of the
\* code's own skills and of their versions are made what the code says, whatever
\* they were.
SyncBuiltins(w) ==
    LET own == {i \in DOMAIN entries : entries[i].ws = Global /\ entries[i].name \in Builtins}
    IN  /\ BeginWrite(w)
        /\ entries' = [i \in DOMAIN entries |->
                         IF i \in own THEN EntryOf(BuiltinRequest(entries[i].name), "builtin") ELSE entries[i]]
        /\ versions' = [k \in DOMAIN versions |->
                          IF versions[k].entry \in own
                          THEN [versions[k] EXCEPT
                                  !.current = (versions[k].version = BuiltinVersion),
                                  !.content = IF versions[k].version = BuiltinVersion
                                              THEN BuiltinContent ELSE @]
                          ELSE versions[k]]
        /\ work' = [work EXCEPT ![w] = [at |-> "invalidate"]]
        /\ UNCHANGED <<categories, cache, catCache>>

\* invalidate_registry_cache: every list and the categories go.
Invalidated == [k \in Keys |-> None]
Invalidate(w) ==
    /\ work[w].at = "invalidate"
    /\ cache' = Invalidated /\ catCache' = None
    /\ work' = [work EXCEPT ![w] = Idle]
    /\ UNCHANGED <<entries, versions, categories, writes, overlapped>>

\* list_manifest that finds no cached list: first the categories, cached or read.
BeginList(w, key) ==
    /\ work[w] = Idle /\ cache[CacheKey(key)] = None
    /\ work' = [work EXCEPT ![w] =
                  [at |-> "entries", key |-> key,
                   cats |-> IF catCache = None THEN categories ELSE catCache.cats]]
    /\ overlapped' = (overlapped \/ \E v \in Workers : Writing(v))
    /\ UNCHANGED <<entries, versions, categories, cache, catCache, writes>>

\* ... the categories are cached and the rows read ...
ReadEntries(w) ==
    /\ work[w].at = "entries"
    /\ catCache' = [kind |-> "cats", cats |-> work[w].cats]
    /\ work' = [work EXCEPT ![w] = [at |-> "store", key |-> work[w].key,
                                    list |-> Manifest(work[w].key, work[w].cats)]]
    /\ UNCHANGED <<entries, versions, categories, cache, writes, overlapped>>

\* ... and the list is cached.
StoreList(w) ==
    /\ work[w].at = "store"
    /\ cache' = [cache EXCEPT ![CacheKey(work[w].key)] = [kind |-> "list", list |-> work[w].list]]
    /\ work' = [work EXCEPT ![w] = Idle]
    /\ UNCHANGED <<entries, versions, categories, catCache, writes, overlapped>>

\* A cached value runs out (120 s for a list, 300 s for the categories), or
\* Redis loses it.
Expire(k) ==
    /\ cache[k] # None
    /\ cache' = [cache EXCEPT ![k] = None]
    /\ UNCHANGED <<entries, versions, categories, catCache, work, writes, overlapped>>
ExpireCategories ==
    /\ catCache # None
    /\ catCache' = None
    /\ UNCHANGED <<entries, versions, categories, cache, work, writes, overlapped>>

Next ==
    \/ \E w \in Workers :
         \/ \E r \in Payloads, s \in {"plugin", "builtin"} : BeginRegister(w, r, s)
         \/ \E i \in DOMAIN entries, on \in BOOLEAN, s \in Switches : SetStatus(w, i, on, s)
         \/ CommitRegister(w) \/ SyncBuiltins(w) \/ Invalidate(w)
         \/ \E key \in Keys : BeginList(w, key)
         \/ ReadEntries(w) \/ StoreList(w)
    \/ \E k \in Keys : Expire(k)
    \/ ExpireCategories

Spec == Init /\ [][Next]_vars

-----------------------------------------------------------------------------
(* Properties                                                              *)

Rows == [name : Names, ws : Spaces \cup {Global}, cat : Slugs \cup {BuiltinSlug},
         version : Versions \cup {BuiltinVersion}, content : Contents \cup {BuiltinContent},
         source : {"plugin", "builtin"}, status : Statuses, enabled : BOOLEAN]

TypeOKSkills ==
    /\ \A i \in DOMAIN entries : entries[i] \in Rows
    /\ \A k \in DOMAIN versions : versions[k].entry \in DOMAIN entries
    /\ categories \subseteq Slugs \cup {BuiltinSlug}
    /\ \A k \in Keys : cache[k] = None \/ \A m \in cache[k].list : m.row \in Rows

\* When the requests did not overlap, a skill has one row in its workspace and
\* one current version, the one the row names and carries, so that what runs is
\* what was registered last; and once the lists were dropped, every cached one
\* is what the rows say now, and only then.
QuietRegistryExact ==
    ~overlapped /\ (\A w \in Workers : work[w].at # "register") =>
       /\ \A i, j \in DOMAIN entries :
             entries[i].name = entries[j].name /\ entries[i].ws = entries[j].ws => i = j
       /\ \A i \in DOMAIN entries :
             \E k \in DOMAIN versions :
                /\ versions[k].entry = i /\ versions[k].current
                /\ versions[k].version = entries[i].version
                /\ versions[k].content = entries[i].content
                /\ \A m \in DOMAIN versions \ {k} :
                      versions[m].entry = i => ~versions[m].current
       /\ (\A w \in Workers : work[w] = Idle) =>
             \A k \in Keys : cache[k] # None => cache[k].list = Manifest(k, categories)

\* Whatever is registered, switched off or synchronised, another workspace's
\* skills never change with a row of this one: neither what a call there runs
\* nor what a list there is made of.
OthersUntouchedStep ==
    \A ws \in Spaces :
      (\E i \in DOMAIN entries' :
          /\ (i \in DOMAIN entries => entries'[i] # entries[i])
          /\ entries'[i].ws \notin {Global, ws}) =>
      /\ \A n \in Names : Runnable(ws, n)' = Runnable(ws, n)
      /\ \A k \in Keys : k.ws = ws =>
            Manifest(k, Slugs)' = Manifest(k, Slugs)
OthersUntouched == [][OthersUntouchedStep]_vars

\* Without a lock this does not hold: two registrations that overlap leave a
\* current version whose content is not the row's.
VersionsMatchRows ==
    \A i \in DOMAIN entries : \A k \in DOMAIN versions :
       versions[k].entry = i /\ versions[k].current => versions[k].content = entries[i].content

=============================================================================
