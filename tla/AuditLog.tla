------------------------------ MODULE AuditLog ------------------------------
(***************************************************************************)
(* The audit log and the administrator who pages through it:               *)
(* AuditLogRepository, DashboardService.get_audit_logs and the audit log   *)
(* page of api/routers/dashboard.py with its Next link.                    *)
(*                                                                         *)
(* A page is one handler with two queries, the count and the list.  The    *)
(* handler does not await between them, so all that can happen there is    *)
(* what a dependency does on another thread: a refused API key is audited. *)
(* Between two pages anything may be audited, and a client deleted.        *)
(***************************************************************************)
EXTENDS Naturals, Sequences, FiniteSets

CONSTANTS
    Clients,
    NoClient,       \* client_id of a row that names no client any more, or never did
    Unset,          \* a filter that is not set
    PageSize,
    SecondsPerDay,
    MaxRows,        \* bound: how many rows are written
    MaxTime         \* bound: how far the clock goes, in seconds

Days == 0..(MaxTime \div SecondsPerDay)

\* The query string: a client, the first and the last day.  Rows of the same
\* second come in the order the database finds them in, which is the same for
\* every page of one query.
Filters == [client : Clients \cup {Unset}, from : Days \cup {Unset}, to : Days \cup {Unset},
            newestFirst : BOOLEAN]
NoFilter == [client |-> Unset, from |-> Unset, to |-> Unset, newestFirst |-> TRUE]

ASSUME AuditLogAssumption ==
    /\ PageSize \in Nat \ {0} /\ SecondsPerDay \in Nat \ {0}
    /\ MaxRows \in Nat /\ MaxTime \in Nat
    /\ NoClient \notin Clients /\ Unset \notin Clients /\ Unset \notin Nat

VARIABLES
    log,         \* the rows of audit_logs in the order they were written
    registered,  \* the clients that have a row in `clients`
    now,         \* the database's clock, in seconds
    reading,     \* what the administrator does: away, list (between the queries), shown
    filter,      \* the filter of the pages being read
    page,        \* the number of the page
    total,       \* `total` of the page
    slipped,     \* history: rows written between the two queries of the page
    wanted,      \* history: the rows there were when the reading began
    seen         \* history: the rows shown since

readerVars == <<reading, filter, page, total, slipped, wanted, seen>>
auditLogVars == <<log, registered, now, readerVars>>

-----------------------------------------------------------------------------
(* The queries.                                                            *)

\* _day_range_to_datetimes: the last microsecond of the day.
UntilEndOfDay(at, day) == at < (day + 1) * SecondsPerDay

\* The stored timestamp has no fraction and the bound has one.  SQLite compares
\* them as text, and so finds the first second of the day before the bound.
FromStartOfDay(at, day) == at > day * SecondsPerDay

\* _apply_filters
Matching(f) ==
    {i \in DOMAIN log :
        /\ f.client \in {Unset, log[i].client}
        /\ f.from # Unset => FromStartOfDay(log[i].at, f.from)
        /\ f.to # Unset => UntilEndOfDay(log[i].at, f.to)}

\* ORDER BY timestamp DESC
ListedBefore(i, j, f) ==
    \/ log[i].at > log[j].at
    \/ log[i].at = log[j].at /\ IF f.newestFirst THEN i > j ELSE i < j

\* LIMIT and OFFSET
RowsOfPage(rows, f, p) ==
    {i \in rows : Cardinality({j \in rows : ListedBefore(j, i, f)})
                    \in ((p - 1) * PageSize)..(p * PageSize - 1)}

TotalPages(n) == (n + PageSize - 1) \div PageSize

AuditLogTypeOK ==
    /\ log \in Seq([at : 0..MaxTime, client : Clients \cup {NoClient}]) /\ Len(log) =< MaxRows
    /\ registered \subseteq Clients
    /\ now \in 0..MaxTime
    /\ reading \in {"away", "list", "shown"}
    /\ filter \in Filters
    /\ page \in Nat \ {0} /\ total \in 0..Len(log) /\ slipped \in 0..Len(log)
    /\ page = 1 \/ page =< TotalPages(Len(log))
    /\ wanted \subseteq DOMAIN log /\ seen \subseteq DOMAIN log

AuditLogInit ==
    /\ log = <<>> /\ registered = Clients /\ now = 0
    /\ reading = "away" /\ filter = NoFilter /\ page = 1 /\ total = 0
    /\ slipped = 0 /\ wanted = {} /\ seen = {}

-----------------------------------------------------------------------------
(* What is audited.                                                        *)

Write(client) == log' = Append(log, [at |-> now, client |-> client])

\* An operation writes a row, of a client or of none.
AuditEvent(client) ==
    /\ reading # "list" /\ Len(log) < MaxRows
    /\ client \in registered \cup {NoClient}
    /\ Write(client)
    /\ UNCHANGED <<registered, now, readerVars>>

\* CLIENT_AUTH_FAILURE, from a dependency on another thread.
AuditRefusedKey ==
    /\ reading = "list" /\ Len(log) < MaxRows
    /\ Write(NoClient)
    /\ slipped' = slipped + 1
    /\ UNCHANGED <<registered, now, reading, filter, page, total, wanted, seen>>

\* Mutant: a cascade deletes the client's audit rows.
DeleteClientAndRows(c) ==
    LET OfOther(row) == row.client # c
    IN  /\ reading # "list" /\ c \in registered
        /\ registered' = registered \ {c}
        /\ log' = SelectSeq(log, OfOther)
        /\ UNCHANGED <<now, readerVars>>

Cleared(row, c) == IF row.client = c THEN [row EXCEPT !.client = NoClient] ELSE row

\* The deletion is audited first.  Deleting the row of a client clears it in
\* its audit rows, the one just written included.
DeleteClient(c) ==
    /\ reading # "list" /\ Len(log) < MaxRows
    /\ c \in registered
    /\ registered' = registered \ {c}
    /\ LET written == Append(log, [at |-> now, client |-> c])
       IN  log' = [i \in DOMAIN written |-> Cleared(written[i], c)]
    /\ UNCHANGED <<now, readerVars>>

Tick ==
    /\ now < MaxTime /\ now' = now + 1
    /\ UNCHANGED <<log, registered, readerVars>>

-----------------------------------------------------------------------------
(* The administrator reads page after page.                                *)

\* count_logs, the first query of page p.
CountLogs(f, p) ==
    /\ reading' = "list" /\ filter' = f /\ page' = p
    /\ total' = Cardinality(Matching(f))
    /\ slipped' = 0

OpenLog(f) ==
    /\ reading = "away"
    /\ CountLogs(f, 1)
    /\ wanted' = DOMAIN log /\ seen' = {}
    /\ UNCHANGED <<log, registered, now>>

\* Mutant: the link is not disabled on the last page.
NextPageAlways ==
    /\ reading = "shown"
    /\ CountLogs(filter, page + 1)
    /\ UNCHANGED <<log, registered, now, wanted, seen>>

\* The Next link, which is there unless this is the last page.
NextPage ==
    /\ reading = "shown" /\ page < TotalPages(total)
    /\ CountLogs(filter, page + 1)
    /\ UNCHANGED <<log, registered, now, wanted, seen>>

\* Mutant: an inner join leaves out the rows without a client.
ListLogsOfClients ==
    /\ reading = "list" /\ reading' = "shown"
    /\ seen' = seen \cup RowsOfPage({i \in Matching(filter) : log[i].client # NoClient}, filter, page)
    /\ UNCHANGED <<log, registered, now, filter, page, total, slipped, wanted>>

\* list_log_details, the second query.
ListLogs ==
    /\ reading = "list" /\ reading' = "shown"
    /\ seen' = seen \cup RowsOfPage(Matching(filter), filter, page)
    /\ UNCHANGED <<log, registered, now, filter, page, total, slipped, wanted>>

Leave ==
    /\ reading = "shown" /\ reading' = "away" /\ filter' = NoFilter
    /\ page' = 1 /\ total' = 0 /\ slipped' = 0 /\ wanted' = {} /\ seen' = {}
    /\ UNCHANGED <<log, registered, now>>

AuditLogNext ==
    \/ \E client \in Clients \cup {NoClient} : AuditEvent(client)
    \/ AuditRefusedKey
    \/ \E c \in Clients : DeleteClient(c)
    \/ Tick
    \/ \E f \in Filters : OpenLog(f)
    \/ NextPage \/ ListLogs \/ Leave

AuditLogSpec == AuditLogInit /\ [][AuditLogNext]_auditLogVars

-----------------------------------------------------------------------------
(* Properties.                                                             *)

DayOf(i) == log[i].at \div SecondsPerDay

\* The rows _day_range_to_datetimes speaks of, the events of the given days,
\* less those of the very second the first day begins with (see README).
Described(f) ==
    {i \in DOMAIN log :
        /\ f.client \in {Unset, log[i].client}
        /\ f.from # Unset => DayOf(i) >= f.from /\ log[i].at # f.from * SecondsPerDay
        /\ f.to # Unset => DayOf(i) =< f.to}

\* Whoever follows the Next link to the last page has seen every row that was
\* there at the start and fits the filter, although rows are written and
\* clients deleted meanwhile and every page is counted and listed apart: at
\* most as many are missing as were written between the last two queries.
NothingSkipped ==
    reading = "shown" /\ page >= TotalPages(total) =>
        Cardinality((wanted \cap Described(filter)) \ seen) =< slipped

\* Removing a client never destroys audit rows (models/audit_log.py): a row
\* keeps its time and its client, or loses a client that is gone.
HistoryIsKept ==
    [][\A i \in DOMAIN log :
            /\ i \in DOMAIN log' /\ log'[i].at = log[i].at
            /\ log'[i].client # log[i].client =>
                    log'[i].client = NoClient /\ log[i].client \notin registered']_auditLogVars

=============================================================================
