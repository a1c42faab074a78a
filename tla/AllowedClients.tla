---------------------------- MODULE AllowedClients ----------------------------
(***************************************************************************)
(* The allowlist of OAuth clients, built once at startup (src/main.rs,     *)
(* src/indexer_platforms.rs, src/config.rs) and used by every login: the   *)
(* approved platforms are fetched from the indexer page by page while they *)
(* may change, merged with ALLOWED_CLIENTS and validated; a process whose  *)
(* configuration is refused exits.  The list then stays as it is until the *)
(* next start.                                                             *)
(*                                                                         *)
(* Redirect URIs are numbered in their lexicographic order, 0 is the empty *)
(* one, and Cut takes the trailing slashes off.  Everything else that      *)
(* Config::validate looks at is taken to be in order.                      *)
(***************************************************************************)
EXTENDS Naturals, SequencesExt

CONSTANTS
    Ids,        \* platform ids, the client_id of a login
    Statuses,   \* platform statuses
    Denied,     \* PLATFORM_STATUS_DENYLIST
    Uris,       \* redirect URIs
    Cut,        \* URI -> the URI without its trailing slashes
    Rows,       \* the rows the indexer's platform table may have
    Configs,    \* the configurations to start with
    MaxRows,    \* bound of the table, for TLC only
    MaxChanges, \* bound of the changes to it, for TLC only
    None        \* NULL

Client == [id : Ids, uri : Uris]
Row    == [id : Ids \cup {None}, status : Statuses \cup {None}, uris : Seq(Uris)]
Config == [url      : BOOLEAN,       \* MYSO_INDEXER_GRAPHQL_URL is set
           page     : Nat,           \* INDEXER_PLATFORMS_PAGE_LIMIT
           allow    : SUBSET Statuses, \* PLATFORM_STATUS_ALLOWLIST
           require  : BOOLEAN,       \* REQUIRE_REDIRECT_URI_FROM_LINKS
           callback : Uris,          \* AUTH_CALLBACK_URL, 0 if unset
           env      : Seq(Client)]   \* ALLOWED_CLIENTS

ASSUME UriAssumption ==
    Uris \subseteq Nat /\ 0 \in Uris /\ Cut \in [Uris -> Uris] /\ Cut[0] = 0
ASSUME NoneAssumption == None \notin Ids \cup Statuses
ASSUME BoundAssumption == MaxRows \in Nat /\ MaxChanges \in Nat
ASSUME InputAssumption == Rows \subseteq Row /\ Configs \subseteq Config

VARIABLES
    config,  \* the environment of the process
    table,   \* the indexer's platforms, in the order it pages through them
    changes, \* how often they have changed, for the bound
    phase,   \* where the process is
    offset,  \* offset of the next page
    out,     \* the clients fetched so far, by merge key
    allowed, \* config.allowed_clients
    failed,  \* the fetch of this start failed
    shown,   \* history: the rows the table had during this fetch
    steady,  \* history: the rows it had all the time
    gap      \* history: a row left, or a page came without data, meanwhile

indexer == <<table, changes>>
fetch   == <<offset, out, shown, steady, gap>>
vars    == <<config, indexer, phase, fetch, allowed, failed>>

-----------------------------------------------------------------------------
(* From rows to clients *)

\* platform_passes_status_filter; an empty allowlist is none at all.
Passes(row) ==
    /\ row.status # None
    /\ IF config.allow # {} THEN row.status \in config.allow
                            ELSE row.status \notin Denied

\* collect_platform_redirect_uris: the first text of each URI, the on-chain one
\* before those of the links.
Redirects(row) ==
    {row.uris[i] : i \in {i \in DOMAIN row.uris :
        /\ row.uris[i] # 0
        /\ \A j \in 1 .. i - 1 : row.uris[j] # 0 => Cut[row.uris[j]] # Cut[row.uris[i]]}}

\* A faulty form of Listed: no callback is asked for.
ListedWithoutCallback(row) ==
    /\ Passes(row) /\ row.id # None
    /\ Redirects(row) = {} => ~config.require

\* A faulty form of Listed: the status is not looked at.
ListedAnyStatus(row) ==
    /\ row.id # None
    /\ Redirects(row) = {} => ~config.require /\ config.callback # 0

\* A faulty form of Listed: a platform needs no id.
ListedAnonymous(row) ==
    /\ Passes(row)
    /\ Redirects(row) = {} => ~config.require /\ config.callback # 0

Listed(row) ==
    /\ Passes(row) /\ row.id # None
    /\ Redirects(row) = {} => ~config.require /\ config.callback # 0

\* The clients a row contributes, no two with the same key.
ClientsOf(row) ==
    IF ~Listed(row) THEN {}
    ELSE IF Redirects(row) = {} THEN {[id |-> row.id, uri |-> 0]}
    ELSE {[id |-> row.id, uri |-> u] : u \in Redirects(row)}

\* merge_key.
Key(c) == <<c.id, Cut[c.uri]>>

Keys(f)  == {Key(c) : c \in UNION Range(f)}
At(f, k) == {i \in DOMAIN f : \E c \in f[i] : Key(c) = k}

\* The client of key k that comes last in f.
Winner(f, k) == CHOOSE c \in f[Max(At(f, k))] : Key(c) = k

\* A faulty form of PutAll: the first client of a key stays, as with
\* entry().or_insert.
PutAllFirst(m, f) ==
    [k \in DOMAIN m \cup Keys(f) |-> IF k \in DOMAIN m THEN m[k] ELSE Winner(f, k).uri]

\* HashMap::insert of the clients f[i], i after i: the last of a key stays.
PutAll(m, f) ==
    [k \in DOMAIN m \cup Keys(f) |-> IF k \in Keys(f) THEN Winner(f, k).uri ELSE m[k]]

\* merge_allowed_clients: the environment wins.
Merged(m) ==
    LET all == PutAll(m, [i \in DOMAIN config.env |-> {config.env[i]}])
    IN  {[id |-> k[1], uri |-> all[k]] : k \in DOMAIN all}

-----------------------------------------------------------------------------
(* Startup *)

Nothing == [k \in {} |-> 0]

Init ==
    /\ config \in Configs
    /\ table \in {s \in SeqOf(Rows, MaxRows) :
                     \A i, j \in DOMAIN s : s[i].id = s[j].id => i = j}
    /\ changes = 0
    /\ phase = "down"
    /\ offset = 0 /\ out = Nothing
    /\ shown = {} /\ steady = {} /\ gap = FALSE
    /\ allowed = {}
    /\ failed = FALSE

Start ==
    /\ phase = "down"
    /\ failed' = FALSE
    /\ offset' = 0 /\ out' = Nothing
    /\ shown' = Range(table) /\ steady' = Range(table) /\ gap' = FALSE
    /\ IF config.url
       THEN phase' = "fetching" /\ UNCHANGED allowed
       ELSE phase' = "validating" /\ allowed' = Range(config.env)
    /\ UNCHANGED <<config, indexer>>

\* cfg.indexer_platforms_page_limit.max(1)
Limit == IF config.page = 0 THEN 1 ELSE config.page

\* The indexer's answer to { limit, offset }: the rows at these positions.
Page == {i \in DOMAIN table : offset < i /\ i <= offset + Limit}

\* A faulty form of Fetched: only one redirect URI of each platform is taken.
FetchedOneUri ==
    PutAll(out, [i \in Page |-> {c \in ClientsOf(table[i]) :
                                   \A d \in ClientsOf(table[i]) : c.uri <= d.uri}])

Fetched == PutAll(out, [i \in Page |-> ClientsOf(table[i])])

\* A faulty form of FetchPage: a full page ends the fetch, too, as with <= for <.
FetchPageOnce ==
    /\ phase = "fetching"
    /\ out' = Fetched
    /\ phase' = "validating" /\ allowed' = Merged(out')
    /\ UNCHANGED <<config, indexer, failed, offset, shown, steady, gap>>

\* One page; a short one is the last.
FetchPage ==
    /\ phase = "fetching"
    /\ out' = Fetched
    /\ IF Len(table) < offset + Limit
       THEN phase' = "validating" /\ allowed' = Merged(out') /\ UNCHANGED offset
       ELSE offset' = offset + Limit /\ UNCHANGED <<phase, allowed>>
    /\ UNCHANGED <<config, indexer, failed, shown, steady, gap>>

\* No data, null platforms, errors without a text: taken for an empty page.
FetchNothing ==
    /\ phase = "fetching"
    /\ phase' = "validating"
    /\ allowed' = Merged(out)
    /\ gap' = TRUE
    /\ UNCHANGED <<config, indexer, failed, offset, out, shown, steady>>

\* A faulty form of FetchFails: start over until it works.
FetchFailsRetries ==
    /\ phase = "fetching"
    /\ offset' = 0 /\ out' = Nothing
    /\ UNCHANGED <<config, indexer, phase, allowed, failed, shown, steady, gap>>

\* Timeout, HTTP status, bad JSON or an error with a text: what was fetched is
\* dropped and the environment alone counts, unmerged.
FetchFails ==
    /\ phase = "fetching"
    /\ phase' = "validating"
    /\ allowed' = Range(config.env)
    /\ failed' = TRUE
    /\ UNCHANGED <<config, indexer, fetch>>

\* Without a global callback every client needs a URI of its own.
Valid == config.callback = 0 => \A c \in allowed : c.uri # 0

Validate ==
    /\ phase = "validating"
    /\ phase' = IF Valid THEN "serving" ELSE "refused"
    /\ UNCHANGED <<config, indexer, fetch, allowed, failed>>

\* The process ends: refused, crashed or redeployed.
Exit ==
    /\ phase # "down"
    /\ phase' = "down"
    /\ allowed' = {} /\ failed' = FALSE
    /\ offset' = 0 /\ out' = Nothing
    /\ shown' = {} /\ steady' = {} /\ gap' = FALSE
    /\ UNCHANGED <<config, indexer>>

-----------------------------------------------------------------------------
(* The indexer's table, at any time; every platform has one row. *)

Register(row, i) ==
    /\ changes < MaxChanges /\ Len(table) < MaxRows
    /\ \A r \in Range(table) : r.id # row.id
    /\ table' = InsertAt(table, i, row)
    /\ changes' = changes + 1
    /\ shown' = IF phase = "fetching" THEN shown \cup {row} ELSE shown
    /\ UNCHANGED <<config, phase, offset, out, steady, gap, allowed, failed>>

\* Withdrawn, or no longer approved.
Withdraw(i) ==
    /\ changes < MaxChanges
    /\ table' = RemoveAt(table, i)
    /\ changes' = changes + 1
    /\ IF phase = "fetching"
       THEN steady' = steady \ {table[i]} /\ gap' = TRUE
       ELSE UNCHANGED <<steady, gap>>
    /\ UNCHANGED <<config, phase, offset, out, shown, allowed, failed>>

Requests == FetchPage \/ FetchNothing \/ FetchFails

Next ==
    \/ Start \/ Requests \/ Validate \/ Exit
    \/ \E row \in Rows, i \in 1 .. Len(table) + 1 : Register(row, i)
    \/ \E i \in DOMAIN table : Withdraw(i)

\* Every request of the fetch ends, by its timeout of 30 seconds at the latest.
Spec == Init /\ [][Next]_vars /\ WF_vars(Requests)

-----------------------------------------------------------------------------

\* Every variable has its type.
TypeOK ==
    /\ config \in Configs
    /\ table \in Seq(Rows)
    /\ changes \in 0 .. MaxChanges
    /\ phase \in {"down", "fetching", "validating", "serving", "refused"}
    /\ offset \in Nat
    /\ \A k \in DOMAIN out : k \in Ids \X Uris /\ out[k] \in Uris
    /\ allowed \subseteq Client
    /\ failed \in BOOLEAN /\ gap \in BOOLEAN
    /\ shown \subseteq Rows /\ steady \subseteq shown

\* A client is let in only when the operator named it, or the indexer showed it
\* with an accepted status during the fetch of this very start.
ServedApproved ==
    \A c \in allowed :
        \/ c \in Range(config.env)
        \/ /\ ~failed
           /\ \E r \in shown : /\ r.id = c.id /\ Passes(r)
                               /\ c.uri \in Range(r.uris) \cup {0}

\* Paging by offset over a table that changes loses no platform that was there
\* all along, unless some row left it, or a page came without data, meanwhile.
ListedUnlessShifted ==
    phase \in {"validating", "serving"} /\ config.url /\ ~failed /\ ~gap =>
        \A r \in steady : \A c \in ClientsOf(r) :
            \E d \in allowed : Key(d) = Key(c)

\* The merge keys that the rows of S bring.
KeysOf(S) == {Key(c) : c \in UNION {ClientsOf(r) : r \in S}}

\* Whatever the indexer answers, it cannot keep the process from starting: a
\* refused configuration has a client without URI in ALLOWED_CLIENTS itself.
IndexerCannotRefuse ==
    phase = "refused" =>
        config.callback = 0 /\ \E c \in Range(config.env) : c.uri = 0

\* However the fetch ends, with the whole list, cut short by an answer without
\* data, or in an error: every client of ALLOWED_CLIENTS is let in, with the
\* redirect URI it has there and not the indexer's spelling of it.
EnvironmentKept ==
    phase \in {"validating", "serving"} =>
        \A c \in Range(config.env) :
            \E d \in Range(config.env) : Key(d) = Key(c) /\ d \in allowed

\* However the table changes between the pages, and wherever an answer without
\* data cuts the fetch short, the list is what a single page with some of the
\* rows shown would have brought: a platform has all of its redirect URIs in it
\* or none that ALLOWED_CLIENTS does not bring.  While no row leaves and no page
\* fails to come, these rows are at least those that were there all the time, so
\* that the page limit makes no difference to a table that does not change.
AsOnePage ==
    phase \in {"validating", "serving"} /\ config.url /\ ~failed =>
        \E S \in SUBSET shown :
            /\ {Key(c) : c \in allowed} =
                  {Key(c) : c \in Range(config.env)} \cup KeysOf(S)
            /\ ~gap => steady \subseteq S

\* The fetch ends, however the table changes meanwhile.
FetchEnds == phase = "fetching" ~> phase # "fetching"

\* README.md:124: "Startup fails if the URL is set and the GraphQL request
\* errors (HTTP or top-level errors)."
StartupFailsOnError == failed => phase # "serving"
=============================================================================
