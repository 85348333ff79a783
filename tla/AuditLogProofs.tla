--------------------------- MODULE AuditLogProofs ---------------------------
(* What holds of the audit log and its pages for every set of clients, every *)
(* page size and every number of rows.                                       *)
EXTENDS AuditLog, Integers, FiniteSetTheorems, TLAPS

-----------------------------------------------------------------------------
(* Rows, pages and days.                                                    *)

Row == [at : 0..MaxTime, client : Clients \cup {NoClient}]

\* More rows never make fewer pages.
LEMMA MorePages ==
    ASSUME NEW m \in Nat, NEW n \in Nat, m =< n
    PROVE  TotalPages(m) \in Nat /\ TotalPages(m) =< TotalPages(n)
BY AuditLogAssumption DEF TotalPages

\* The pages hold all the rows there are.
LEMMA PagesHold ==
    ASSUME NEW n \in Nat, NEW p \in Nat, p >= TotalPages(n)
    PROVE  n =< p * PageSize
BY AuditLogAssumption DEF TotalPages

LEMMA DayEnds ==
    ASSUME NEW at \in Nat, NEW day \in Nat, at \div SecondsPerDay =< day
    PROVE  at < (day + 1) * SecondsPerDay
<1> DEFINE d == at \div SecondsPerDay
<1>1. d \in Nat /\ at < d * SecondsPerDay + SecondsPerDay
  BY AuditLogAssumption
<1>2. \A e \in Nat : d =< e => d * SecondsPerDay =< e * SecondsPerDay
  BY <1>1, AuditLogAssumption
<1>3. (day + 1) * SecondsPerDay = day * SecondsPerDay + SecondsPerDay
  BY AuditLogAssumption
<1>4. day * SecondsPerDay \in Nat /\ d * SecondsPerDay \in Nat
  BY <1>1, AuditLogAssumption
<1>5. d * SecondsPerDay =< day * SecondsPerDay
  BY <1>2
<1> HIDE DEF d
<1> QED
  BY <1>1, <1>3, <1>4, <1>5, AuditLogAssumption

\* The events of the days asked for are found, but for those of the very
\* second the first day begins with.
LEMMA DescribedMatch ==
    ASSUME log \in Seq(Row), NEW f \in Filters
    PROVE  Described(f) \subseteq Matching(f)
<1> SUFFICES ASSUME NEW i \in Described(f) PROVE i \in Matching(f)
  OBVIOUS
<1>1. log[i].at \in Nat /\ i \in DOMAIN log
  <2>1. i \in DOMAIN log
    BY DEF Described
  <2>2. log[i] \in Row
    BY <2>1
  <2> QED
    BY <2>1, <2>2, AuditLogAssumption DEF Row
<1>2. ASSUME f.from # Unset PROVE FromStartOfDay(log[i].at, f.from)
  <2>1. f.from \in Nat /\ DayOf(i) >= f.from /\ log[i].at # f.from * SecondsPerDay
    BY <1>2 DEF Filters, Days, Described
  <2> QED
    BY <1>1, <2>1, AuditLogAssumption DEF DayOf, FromStartOfDay
<1>3. ASSUME f.to # Unset PROVE UntilEndOfDay(log[i].at, f.to)
  <2>1. f.to \in Nat /\ DayOf(i) =< f.to
    BY <1>3 DEF Filters, Days, Described
  <2> QED
    BY <1>1, <2>1, DayEnds DEF DayOf, UntilEndOfDay
<1> QED
  BY <1>1, <1>2, <1>3 DEF Matching, Described

LEMMA LogFinite ==
    ASSUME NEW s \in Seq(Row)
    PROVE  IsFiniteSet(DOMAIN s) /\ Cardinality(DOMAIN s) = Len(s) /\ Len(s) \in Nat
<1>1. DOMAIN s = 1..Len(s) /\ Len(s) \in Nat
  OBVIOUS
<1>2. IsFiniteSet(1..Len(s)) /\ Cardinality(1..Len(s)) = Len(s)
  BY <1>1, FS_Interval
<1> QED
  BY <1>1, <1>2

LEMMA RowsFinite ==
    ASSUME log \in Seq(Row), NEW f
    PROVE  /\ IsFiniteSet(Matching(f)) /\ Cardinality(Matching(f)) \in 0..Len(log)
<1>1. Matching(f) \subseteq DOMAIN log
  BY DEF Matching
<1>2. IsFiniteSet(DOMAIN log) /\ Cardinality(DOMAIN log) = Len(log) /\ Len(log) \in Nat
  BY LogFinite
<1> QED
  BY <1>1, <1>2, FS_Subset, FS_CardinalityType
-----------------------------------------------------------------------------
(* What a step does to the log.                                             *)

\* The rows stay as they are, perhaps with a new one behind them, or a client
\* is deleted and cleared in them.
LEMMA LogSteps ==
    ASSUME log \in Seq(Row), [AuditLogNext]_auditLogVars
    PROVE  \/ UNCHANGED <<log, registered>>
           \/ \E client \in Clients \cup {NoClient} :
                Write(client) /\ Len(log) < MaxRows /\ UNCHANGED registered
           \/ \E c \in Clients : DeleteClient(c)
<1>1. ASSUME NEW client \in Clients \cup {NoClient}, AuditEvent(client)
      PROVE  Write(client) /\ Len(log) < MaxRows /\ UNCHANGED registered
  BY <1>1 DEF AuditEvent
<1>2. ASSUME AuditRefusedKey
      PROVE  Write(NoClient) /\ Len(log) < MaxRows /\ UNCHANGED registered
  BY <1>2 DEF AuditRefusedKey
<1> QED
  BY <1>1, <1>2 DEF AuditLogNext, auditLogVars, Tick, OpenLog, NextPage, ListLogs, Leave

LEMMA Written ==
    ASSUME log \in Seq(Row), now \in 0..MaxTime,
           NEW client \in Clients \cup {NoClient}, Write(client)
    PROVE  /\ log' \in Seq(Row) /\ Len(log') = Len(log) + 1
           /\ log'[Len(log) + 1] = [at |-> now, client |-> client]
           /\ \A i \in DOMAIN log : i \in DOMAIN log' /\ log'[i] = log[i]
BY DEF Write, Row

LEMMA Deleted ==
    ASSUME log \in Seq(Row), now \in 0..MaxTime, NEW c \in Clients, DeleteClient(c)
    PROVE  /\ log' \in Seq(Row) /\ Len(log') = Len(log) + 1 /\ Len(log) < MaxRows
           /\ log'[Len(log) + 1] = [at |-> now, client |-> NoClient]
           /\ \A i \in DOMAIN log :
                i \in DOMAIN log' /\ log'[i].at = log[i].at
                    /\ log'[i].client = IF log[i].client = c THEN NoClient ELSE log[i].client
<1> DEFINE written == Append(log, [at |-> now, client |-> c])
<1>1. /\ written \in Seq(Row) /\ Len(written) = Len(log) + 1
      /\ written[Len(log) + 1] = [at |-> now, client |-> c]
      /\ \A i \in DOMAIN log : i \in DOMAIN written /\ written[i] = log[i]
  BY DEF Row
<1>2. log' = [i \in DOMAIN written |-> Cleared(written[i], c)] /\ Len(log) < MaxRows
  BY DEF DeleteClient
<1>3. DOMAIN written = 1..(Len(log) + 1) /\ Len(log) + 1 \in Nat
  BY <1>1
<1>4. \A i \in DOMAIN written : written[i] \in Row
  BY <1>1
<1> HIDE DEF written
<1>5. \A row \in Row :
        /\ Cleared(row, c) \in Row /\ Cleared(row, c).at = row.at
        /\ Cleared(row, c).client = IF row.client = c THEN NoClient ELSE row.client
  BY DEF Cleared, Row
<1>6. log' \in Seq(Row) /\ Len(log') = Len(log) + 1
  <2>1. log' = [i \in 1..(Len(log) + 1) |-> Cleared(written[i], c)]
    BY <1>2, <1>3
  <2>2. log' \in [1..(Len(log) + 1) -> Row]
    BY <1>3, <1>4, <1>5, <2>1
  <2> QED
    BY <1>3, <2>2
<1>7. log'[Len(log) + 1] = [at |-> now, client |-> NoClient]
  <2>1. log'[Len(log) + 1] = Cleared([at |-> now, client |-> c], c)
    BY <1>1, <1>2, <1>3
  <2> QED
    BY <2>1 DEF Cleared
<1>8. \A i \in DOMAIN log : log'[i] = Cleared(log[i], c) /\ log[i] \in Row
  BY <1>1, <1>2
<1>9. \A i \in DOMAIN log : i \in DOMAIN log'
  BY <1>1, <1>2
<1> QED
  BY <1>2, <1>5, <1>6, <1>7, <1>8, <1>9

LEMMA NextLog ==
    ASSUME AuditLogTypeOK, [AuditLogNext]_auditLogVars
    PROVE  /\ log' \in Seq(Row) /\ Len(log') =< MaxRows /\ Len(log) =< Len(log')
           /\ DOMAIN log \subseteq DOMAIN log'
<1>1. log \in Seq(Row) /\ now \in 0..MaxTime /\ Len(log) =< MaxRows /\ MaxRows \in Nat
  BY AuditLogAssumption DEF AuditLogTypeOK, Row
<1>2. ASSUME NEW client \in Clients \cup {NoClient}, Write(client), Len(log) < MaxRows
      PROVE  /\ log' \in Seq(Row) /\ Len(log') =< MaxRows /\ Len(log) =< Len(log')
             /\ DOMAIN log \subseteq DOMAIN log'
  <2>1. /\ log' \in Seq(Row) /\ Len(log') = Len(log) + 1
        /\ \A i \in DOMAIN log : i \in DOMAIN log'
    BY <1>1, <1>2, Written
  <2> QED
    BY <1>1, <1>2, <2>1
<1>3. ASSUME NEW c \in Clients, DeleteClient(c)
      PROVE  /\ log' \in Seq(Row) /\ Len(log') =< MaxRows /\ Len(log) =< Len(log')
             /\ DOMAIN log \subseteq DOMAIN log'
  <2>1. /\ log' \in Seq(Row) /\ Len(log') = Len(log) + 1 /\ Len(log) < MaxRows
        /\ \A i \in DOMAIN log : i \in DOMAIN log'
    BY <1>1, <1>3, Deleted
  <2> QED
    BY <1>1, <2>1
<1> QED
  BY <1>1, <1>2, <1>3, LogSteps

\* Removing a client never destroys audit rows: a row keeps its time and its
\* client, or loses a client that is gone.
LEMMA NextHistory ==
    ASSUME AuditLogTypeOK, [AuditLogNext]_auditLogVars, NEW i \in DOMAIN log
    PROVE  /\ i \in DOMAIN log' /\ log'[i].at = log[i].at
           /\ log'[i].client # log[i].client =>
                    log'[i].client = NoClient /\ log[i].client \notin registered'
<1>1. log \in Seq(Row) /\ now \in 0..MaxTime
  BY DEF AuditLogTypeOK, Row
<1>2. ASSUME NEW client \in Clients \cup {NoClient}, Write(client)
      PROVE  i \in DOMAIN log' /\ log'[i] = log[i]
  BY <1>1, <1>2, Written
<1>3. ASSUME NEW c \in Clients, DeleteClient(c)
      PROVE  /\ i \in DOMAIN log' /\ log'[i].at = log[i].at /\ c \notin registered'
             /\ log'[i].client = IF log[i].client = c THEN NoClient ELSE log[i].client
  <2>1. c \notin registered'
    BY <1>3 DEF DeleteClient
  <2> QED
    BY <1>1, <1>3, <2>1, Deleted
<1> QED
  BY <1>1, <1>2, <1>3, LogSteps
-----------------------------------------------------------------------------
(* Type correctness, and the promise of the model: history is kept.         *)

LEMMA AuditLogInitType == AuditLogInit => AuditLogTypeOK
<1> SUFFICES ASSUME AuditLogInit PROVE AuditLogTypeOK
  OBVIOUS
<1>1. NoFilter \in Filters
  BY DEF NoFilter, Filters
<1>2. log = <<>> /\ Len(log) = 0 /\ log \in Seq(Row)
  BY DEF AuditLogInit
<1> QED
  BY <1>1, <1>2, AuditLogAssumption DEF AuditLogInit, AuditLogTypeOK, Row

\* What the queries of a page leave behind.
LEMMA CountType ==
    ASSUME AuditLogTypeOK, NEW f \in Filters, NEW p \in Nat \ {0}, CountLogs(f, p)
    PROVE  /\ reading' = "list" /\ filter' \in Filters /\ page' = p
           /\ total' \in 0..Len(log) /\ slipped' = 0
BY RowsFinite DEF CountLogs, AuditLogTypeOK, Row

LEMMA AuditLogNextType ==
    AuditLogTypeOK /\ [AuditLogNext]_auditLogVars => AuditLogTypeOK'
<1> SUFFICES ASSUME AuditLogTypeOK, [AuditLogNext]_auditLogVars PROVE AuditLogTypeOK'
  OBVIOUS
<1>1. /\ log' \in Seq(Row) /\ Len(log') =< MaxRows /\ Len(log) =< Len(log')
      /\ DOMAIN log \subseteq DOMAIN log' /\ Len(log) \in Nat /\ Len(log') \in Nat
  <2>1. log \in Seq(Row)
    BY DEF AuditLogTypeOK, Row
  <2>2. log' \in Seq(Row)
    BY NextLog
  <2> QED
    BY <2>1, <2>2, NextLog
<1>2. registered' \subseteq Clients /\ now' \in 0..MaxTime
  <2>1. registered' \subseteq registered
    BY DEF AuditLogNext, AuditEvent, AuditRefusedKey, DeleteClient, Tick, OpenLog, NextPage,
           ListLogs, Leave, auditLogVars
  <2>2. now' = now \/ (now < MaxTime /\ now' = now + 1)
    BY DEF AuditLogNext, AuditEvent, AuditRefusedKey, DeleteClient, Tick, OpenLog, NextPage,
           ListLogs, Leave, auditLogVars
  <2> QED
    BY <2>1, <2>2, AuditLogAssumption DEF AuditLogTypeOK
<1>3. TotalPages(Len(log)) \in Nat /\ TotalPages(Len(log)) =< TotalPages(Len(log'))
      /\ TotalPages(Len(log')) \in Nat
  BY <1>1, MorePages
<1> DEFINE ReaderOK ==
             /\ reading' \in {"away", "list", "shown"} /\ filter' \in Filters
             /\ page' \in Nat \ {0} /\ total' \in 0..Len(log') /\ slipped' \in 0..Len(log')
             /\ page' = 1 \/ page' =< TotalPages(Len(log'))
             /\ wanted' \subseteq DOMAIN log' /\ seen' \subseteq DOMAIN log'
<1>4. ASSUME UNCHANGED readerVars PROVE ReaderOK
  BY <1>1, <1>3, <1>4 DEF AuditLogTypeOK, readerVars
<1>5. ASSUME AuditRefusedKey PROVE ReaderOK
  <2>1. Len(log') = Len(log) + 1
    BY <1>5, Written DEF AuditRefusedKey, AuditLogTypeOK, Row
  <2> QED
    BY <1>1, <1>3, <1>5, <2>1 DEF AuditLogTypeOK, AuditRefusedKey
<1>6. ASSUME NEW f \in Filters, OpenLog(f) PROVE ReaderOK
  <2>1. CountLogs(f, 1) /\ wanted' = DOMAIN log /\ seen' = {} /\ log' = log
    BY <1>6 DEF OpenLog
  <2> QED
    BY <1>1, <2>1, CountType
<1>7. ASSUME NextPage PROVE ReaderOK
  <2>1. /\ CountLogs(filter, page + 1) /\ page + 1 \in Nat \ {0} /\ log' = log
        /\ page < TotalPages(total) /\ UNCHANGED <<wanted, seen>>
    BY <1>7 DEF NextPage, AuditLogTypeOK
  <2>2. /\ reading' = "list" /\ filter' \in Filters /\ page' = page + 1
        /\ total' \in 0..Len(log) /\ slipped' = 0
    BY <2>1, CountType DEF AuditLogTypeOK
  <2>3. TotalPages(total) =< TotalPages(Len(log)) /\ TotalPages(total) \in Nat
    BY <1>1, MorePages DEF AuditLogTypeOK
  <2> QED
    BY <1>1, <1>3, <2>1, <2>2, <2>3 DEF AuditLogTypeOK
<1>8. ASSUME ListLogs PROVE ReaderOK
  <2>1. RowsOfPage(Matching(filter), filter, page) \subseteq DOMAIN log
    BY DEF RowsOfPage, Matching
  <2> QED
    BY <1>1, <1>3, <1>8, <2>1 DEF ListLogs, AuditLogTypeOK
<1>9. ASSUME Leave PROVE ReaderOK
  <2>1. NoFilter \in Filters
    BY DEF NoFilter, Filters
  <2> QED
    BY <1>1, <1>9, <2>1 DEF Leave
<1>10. ReaderOK
  <2> HIDE DEF ReaderOK
  <2> QED
    BY <1>4, <1>5, <1>6, <1>7, <1>8, <1>9
       DEF AuditLogNext, AuditEvent, DeleteClient, Tick, auditLogVars
<1> QED
  BY <1>1, <1>2, <1>10 DEF AuditLogTypeOK, Row

\* The pages stay within the log, which only grows: there is no page behind the
\* last one its rows could fill.
THEOREM AuditLogTypeCorrect == AuditLogSpec => []AuditLogTypeOK
BY AuditLogInitType, AuditLogNextType, PTL DEF AuditLogSpec

\* No step, and the deletion of a client least of all, removes an audit row or
\* changes it, except that it forgets a client that is gone.
THEOREM AuditHistoryKept == AuditLogSpec => HistoryIsKept
<1>1. AuditLogTypeOK /\ [AuditLogNext]_auditLogVars =>
        [\A i \in DOMAIN log :
            /\ i \in DOMAIN log' /\ log'[i].at = log[i].at
            /\ log'[i].client # log[i].client =>
                    log'[i].client = NoClient /\ log[i].client \notin registered']_auditLogVars
  BY NextHistory
<1> QED
  BY <1>1, AuditLogTypeCorrect, PTL DEF AuditLogSpec, HistoryIsKept

-----------------------------------------------------------------------------
(* The order of the list.                                                   *)

LEMMA ListOrder ==
    ASSUME log \in Seq(Row), NEW f \in Filters, NEW i \in DOMAIN log, NEW j \in DOMAIN log
    PROVE  /\ ~ListedBefore(i, i, f)
           /\ i # j => ListedBefore(i, j, f) \/ ListedBefore(j, i, f)
           /\ \A k \in DOMAIN log :
                ListedBefore(i, j, f) /\ ListedBefore(j, k, f) => ListedBefore(i, k, f)
<1>1. \A k \in DOMAIN log : log[k].at \in Nat /\ k \in Nat
  <2> TAKE k \in DOMAIN log
  <2>1. log[k] \in Row
    OBVIOUS
  <2> QED
    BY <2>1, AuditLogAssumption DEF Row
<1> QED
  BY <1>1 DEF ListedBefore

\* The matching rows that are listed before row i.
Before(i, f) == {j \in Matching(f) : ListedBefore(j, i, f)}

LEMMA BeforeFinite ==
    ASSUME log \in Seq(Row), NEW f, NEW i
    PROVE  IsFiniteSet(Before(i, f)) /\ Cardinality(Before(i, f)) \in Nat
BY RowsFinite, FS_Subset, FS_CardinalityType DEF Before

\* A row that is listed before another has fewer rows before it.
LEMMA FewerBefore ==
    ASSUME log \in Seq(Row), NEW f \in Filters, NEW i \in Matching(f), NEW j \in Matching(f),
           ListedBefore(i, j, f)
    PROVE  Cardinality(Before(i, f)) < Cardinality(Before(j, f))
<1>1. i \in DOMAIN log /\ j \in DOMAIN log
  BY DEF Matching
<1>2. Before(i, f) \cup {i} \subseteq Before(j, f) /\ i \notin Before(i, f)
  BY <1>1, ListOrder DEF Before, Matching
<1>3. Cardinality(Before(i, f) \cup {i}) = Cardinality(Before(i, f)) + 1
  BY <1>2, BeforeFinite, FS_AddElement
<1>4. Cardinality(Before(i, f) \cup {i}) =< Cardinality(Before(j, f))
  BY <1>2, BeforeFinite, FS_Subset
<1> QED
  BY <1>3, <1>4, BeforeFinite

\* At most so many rows are listed behind the first k as there are more than k.
LEMMA FewBehind ==
    ASSUME log \in Seq(Row), NEW f \in Filters, NEW k \in Nat, NEW n \in Nat,
           Cardinality(Matching(f)) =< k + n,
           NEW S \in SUBSET Matching(f), \A i \in S : Cardinality(Before(i, f)) >= k
    PROVE  IsFiniteSet(S) /\ Cardinality(S) =< n
<1> DEFINE M == Cardinality(Matching(f))
           rank == [i \in S |-> Cardinality(Before(i, f))]
<1>1. M \in Nat /\ IsFiniteSet(Matching(f))
  BY RowsFinite, FS_CardinalityType
<1>2. ASSUME NEW i \in S PROVE rank[i] \in k..(M - 1)
  <2>1. Before(i, f) \subseteq Matching(f) \ {i}
    BY ListOrder DEF Before, Matching
  <2>2. IsFiniteSet(Matching(f) \ {i}) /\ Cardinality(Matching(f) \ {i}) = M - 1
    BY <1>1, FS_RemoveElement
  <2>3. Cardinality(Before(i, f)) =< M - 1
    BY <2>1, <2>2, FS_Subset
  <2> QED
    BY <1>1, <2>3, BeforeFinite
<1>3. ASSUME NEW i \in S, NEW j \in S, rank[i] = rank[j] PROVE i = j
  <2>1. i \in DOMAIN log /\ j \in DOMAIN log
    BY DEF Matching
  <2>2. ~ListedBefore(i, j, f) /\ ~ListedBefore(j, i, f)
    BY <1>3, FewerBefore, BeforeFinite
  <2> QED
    BY <2>1, <2>2, ListOrder
<1>4. rank \in Injection(S, k..(M - 1))
  BY <1>2, <1>3 DEF Injection, IsInjective
<1> HIDE DEF M, rank
<1>5. /\ IsFiniteSet(k..(M - 1))
      /\ Cardinality(k..(M - 1)) = IF k > M - 1 THEN 0 ELSE (M - 1) - k + 1
  <2>1. k \in Int /\ M - 1 \in Int
    BY <1>1
  <2> QED
    BY <2>1, FS_Interval
<1>6. IsFiniteSet(S) /\ Cardinality(S) =< Cardinality(k..(M - 1))
  BY <1>4, <1>5, FS_Injection
<1>7. Cardinality(S) \in Nat
  BY <1>6, FS_CardinalityType
<1> QED
  BY <1>1, <1>5, <1>6, <1>7 DEF M

-----------------------------------------------------------------------------
(* Nothing is skipped.  The pages shown so far hold the first rows of the   *)
(* list as it is now, of those there were at the start: a row written       *)
(* meanwhile can only push others down, to a page that is yet to come.      *)

SeenBelow(k) ==
    \A i \in wanted \cap Matching(filter) : Cardinality(Before(i, filter)) < k => i \in seen

PagingInv ==
    /\ reading = "list" => /\ SeenBelow((page - 1) * PageSize)
                           /\ Cardinality(Matching(filter)) =< total + slipped
    /\ reading = "shown" => SeenBelow(page * PageSize) /\ NothingSkipped

\* What a filter finds after a step, of the rows there were before: the same,
\* or nothing any more if it asks for a client that has been deleted.
LEMMA StillMatching ==
    ASSUME AuditLogTypeOK, [AuditLogNext]_auditLogVars, NEW f \in Filters
    PROVE  /\ Matching(f)' \cap DOMAIN log \in {Matching(f), {}}
           /\ Described(f)' \cap DOMAIN log \subseteq Described(f)
           /\ reading = "list" => Matching(f)' \cap DOMAIN log = Matching(f)
<1>1. log \in Seq(Row) /\ now \in 0..MaxTime
  BY DEF AuditLogTypeOK, Row
<1>2. ASSUME \A i \in DOMAIN log : i \in DOMAIN log' /\ log'[i] = log[i]
      PROVE  /\ Matching(f)' \cap DOMAIN log = Matching(f)
             /\ Described(f)' \cap DOMAIN log \subseteq Described(f)
  BY <1>2 DEF Matching, Described, DayOf
<1>3. ASSUME NEW client \in Clients \cup {NoClient}, Write(client)
      PROVE  \A i \in DOMAIN log : i \in DOMAIN log' /\ log'[i] = log[i]
  BY <1>1, <1>3, Written
<1>4. ASSUME NEW c \in Clients, DeleteClient(c)
      PROVE  /\ Matching(f)' \cap DOMAIN log \in {Matching(f), {}}
             /\ Described(f)' \cap DOMAIN log \subseteq Described(f)
             /\ reading # "list"
  <2>1. \A i \in DOMAIN log :
            /\ i \in DOMAIN log' /\ log'[i].at = log[i].at
            /\ log'[i].client = IF log[i].client = c THEN NoClient ELSE log[i].client
    BY <1>1, <1>4, Deleted
  <2>2. /\ f.client \in Clients \cup {Unset}
        /\ NoClient \notin Clients /\ c # NoClient /\ c # Unset
    BY AuditLogAssumption DEF Filters
  <2>3. CASE f.client = c
    <3>1. Matching(f)' \cap DOMAIN log = {}
      BY <2>1, <2>2, <2>3 DEF Matching
    <3>2. Described(f)' \cap DOMAIN log = {}
      BY <2>1, <2>2, <2>3 DEF Described
    <3> QED
      BY <1>4, <3>1, <3>2 DEF DeleteClient
  <2>4. CASE f.client # c
    <3>1. \A i \in DOMAIN log : f.client \in {Unset, log'[i].client}
                                    <=> f.client \in {Unset, log[i].client}
      BY <2>1, <2>2, <2>4
    <3>2. Matching(f)' \cap DOMAIN log = Matching(f)
      BY <2>1, <3>1 DEF Matching
    <3>3. Described(f)' \cap DOMAIN log \subseteq Described(f)
      BY <2>1, <3>1 DEF Described, DayOf
    <3> QED
      BY <1>4, <3>2, <3>3 DEF DeleteClient
  <2> QED
    BY <2>3, <2>4
<1> QED
  BY <1>1, <1>2, <1>3, <1>4, LogSteps

\* A row that is still found was found before, with no more rows before it.
LEMMA PushedDown ==
    ASSUME AuditLogTypeOK, [AuditLogNext]_auditLogVars, NEW f \in Filters,
           NEW i \in Matching(f)' \cap DOMAIN log
    PROVE  /\ i \in Matching(f) /\ Cardinality(Before(i, f)') \in Nat
           /\ Cardinality(Before(i, f)) =< Cardinality(Before(i, f)')
<1>1. log \in Seq(Row) /\ log' \in Seq(Row)
  BY NextLog DEF AuditLogTypeOK, Row
<1>2. Matching(f)' \cap DOMAIN log = Matching(f)
  BY StillMatching
<1>3. \A j \in DOMAIN log : log'[j].at = log[j].at
  BY NextHistory
<1>4. Before(i, f) \subseteq Before(i, f)'
  BY <1>2, <1>3 DEF Before, ListedBefore, Matching
<1>5. IsFiniteSet(Before(i, f)')
  <2>1. IsFiniteSet(DOMAIN log') /\ Before(i, f)' \subseteq DOMAIN log'
    BY <1>1, LogFinite DEF Before, Matching
  <2> QED
    BY <2>1, FS_Subset
<1>6. Cardinality(Before(i, f)') \in Nat
  BY <1>5, FS_CardinalityType
<1> QED
  BY <1>2, <1>4, <1>5, <1>6, FS_Subset

\* The reader stands still while the log may change: what was seen stays so.
LEMMA NextStanding ==
    ASSUME AuditLogTypeOK, PagingInv, [AuditLogNext]_auditLogVars, UNCHANGED readerVars,
           reading = "list" => UNCHANGED log
    PROVE  PagingInv'
<1> USE DEF readerVars
<1>1. filter \in Filters /\ wanted \subseteq DOMAIN log /\ page \in Nat \ {0}
  BY DEF AuditLogTypeOK
<1>2. CASE reading = "list"
  BY <1>2 DEF PagingInv, SeenBelow, Matching, Before, ListedBefore
<1>3. CASE reading = "shown"
  <2>1. SeenBelow(page * PageSize)'
    <3>1. ASSUME NEW i \in wanted \cap Matching(filter)',
                 Cardinality(Before(i, filter)') < page * PageSize
          PROVE  i \in seen
      <4>1. PICK f \in Filters : f = filter /\ f = filter'
        BY <1>1
      <4>2. /\ i \in Matching(filter) /\ Cardinality(Before(i, filter)') \in Nat
            /\ Cardinality(Before(i, filter)) =< Cardinality(Before(i, filter)')
        <5>1. i \in Matching(f)' \cap DOMAIN log
          BY <1>1, <4>1
        <5> QED
          BY <4>1, <5>1, PushedDown
      <4>3. Cardinality(Before(i, filter)) \in Nat /\ page * PageSize \in Nat
        BY <1>1, AuditLogAssumption, BeforeFinite DEF AuditLogTypeOK, Row
      <4>4. Cardinality(Before(i, filter)) < page * PageSize
        BY <3>1, <4>2, <4>3
      <4> QED
        BY <1>3, <4>2, <4>4 DEF PagingInv, SeenBelow
    <3> QED
      BY <3>1 DEF SeenBelow
  <2>2. NothingSkipped'
    <3> SUFFICES ASSUME page >= TotalPages(total)
                 PROVE  Cardinality((wanted \cap Described(filter)') \ seen) =< slipped
      BY DEF NothingSkipped
    <3>1. Cardinality((wanted \cap Described(filter)) \ seen) =< slipped
      BY <1>3 DEF PagingInv, NothingSkipped
    <3>2. (wanted \cap Described(filter)') \ seen \subseteq (wanted \cap Described(filter)) \ seen
      BY <1>1, StillMatching
    <3>3. IsFiniteSet((wanted \cap Described(filter)) \ seen)
      BY <1>1, LogFinite, FS_Subset DEF AuditLogTypeOK, Row
    <3>4. /\ IsFiniteSet((wanted \cap Described(filter)') \ seen)
          /\ Cardinality((wanted \cap Described(filter)') \ seen)
                =< Cardinality((wanted \cap Described(filter)) \ seen)
      BY <3>2, <3>3, FS_Subset
    <3>5. /\ Cardinality((wanted \cap Described(filter)') \ seen) \in Nat
          /\ Cardinality((wanted \cap Described(filter)) \ seen) \in Nat
      BY <3>3, <3>4, FS_CardinalityType
    <3>6. slipped \in Nat
      BY DEF AuditLogTypeOK
    <3> QED
      BY <3>1, <3>4, <3>5, <3>6
  <2> QED
    BY <1>3, <2>1, <2>2 DEF PagingInv
<1>4. CASE reading = "away"
  BY <1>4 DEF PagingInv
<1> QED
  BY <1>2, <1>3, <1>4 DEF AuditLogTypeOK

\* A refused key is audited between the count and the list of a page.
LEMMA NextRefused ==
    ASSUME AuditLogTypeOK, PagingInv, AuditRefusedKey
    PROVE  PagingInv'
<1>1. /\ reading = "list" /\ UNCHANGED <<reading, filter, page, total, wanted, seen>>
      /\ slipped' = slipped + 1 /\ Write(NoClient)
  BY DEF AuditRefusedKey
<1>2. [AuditLogNext]_auditLogVars
  BY DEF AuditLogNext
<1>3. PICK f \in Filters : f = filter /\ f = filter'
  BY <1>1 DEF AuditLogTypeOK
<1>4. log \in Seq(Row) /\ now \in 0..MaxTime /\ wanted \subseteq DOMAIN log
  BY DEF AuditLogTypeOK, Row
<1>5. /\ \A i \in wanted \cap Matching(filter) :
            Cardinality(Before(i, filter)) < (page - 1) * PageSize => i \in seen
      /\ Cardinality(Matching(filter)) =< total + slipped
      /\ (page - 1) * PageSize \in Nat
  BY <1>1, AuditLogAssumption DEF AuditLogTypeOK, PagingInv, SeenBelow
<1>6. ASSUME NEW i \in wanted \cap Matching(f)',
             Cardinality(Before(i, f)') < (page - 1) * PageSize
      PROVE  i \in seen
  <2>1. /\ i \in Matching(f) /\ Cardinality(Before(i, f)') \in Nat
        /\ Cardinality(Before(i, f)) =< Cardinality(Before(i, f)')
    BY <1>2, <1>4, PushedDown
  <2>2. Cardinality(Before(i, f)) \in Nat
    BY <1>4, BeforeFinite
  <2>3. Cardinality(Before(i, f)) < (page - 1) * PageSize
    BY <1>5, <1>6, <2>1, <2>2
  <2> QED
    BY <1>3, <1>5, <2>1, <2>3
<1>7. Cardinality(Matching(f)') =< Cardinality(Matching(f)) + 1
  <2>1. Matching(f)' \subseteq Matching(f) \cup {Len(log) + 1}
    <3>1. log' \in Seq(Row) /\ Len(log') = Len(log) + 1 /\ Len(log) \in Nat
      <4>1. Len(log) \in Nat /\ NoClient \in Clients \cup {NoClient}
        BY <1>4
      <4> QED
        BY <1>1, <1>4, <4>1, Written
    <3>2. DOMAIN log' = DOMAIN log \cup {Len(log) + 1}
      BY <1>4, <3>1
    <3>3. Matching(f)' \cap DOMAIN log = Matching(f)
      BY <1>1, <1>2, StillMatching
    <3> QED
      BY <3>2, <3>3 DEF Matching
  <2>2. /\ IsFiniteSet(Matching(f)) /\ Cardinality(Matching(f)) \in Nat
    BY <1>4, RowsFinite, FS_CardinalityType
  <2>3. /\ IsFiniteSet(Matching(f) \cup {Len(log) + 1})
        /\ Cardinality(Matching(f) \cup {Len(log) + 1}) =< Cardinality(Matching(f)) + 1
    BY <2>2, FS_AddElement
  <2>4. /\ IsFiniteSet(Matching(f)')
        /\ Cardinality(Matching(f)') =< Cardinality(Matching(f) \cup {Len(log) + 1})
    BY <2>1, <2>3, FS_Subset
  <2>5. Cardinality(Matching(f)') \in Nat /\ Cardinality(Matching(f) \cup {Len(log) + 1}) \in Nat
    BY <2>3, <2>4, FS_CardinalityType
  <2> QED
    BY <2>2, <2>3, <2>4, <2>5
<1>8. Cardinality(Matching(f)') =< total + (slipped + 1)
  <2>1. Cardinality(Matching(f)) \in Nat /\ total \in Nat /\ slipped \in Nat
    BY <1>4, RowsFinite, FS_CardinalityType DEF AuditLogTypeOK
  <2>2. Cardinality(Matching(f)') \in Nat
    <3>1. log' \in Seq(Row)
      BY <1>1, <1>4, Written
    <3>2. IsFiniteSet(DOMAIN log') /\ Matching(f)' \subseteq DOMAIN log'
      BY <3>1, LogFinite DEF Matching
    <3> QED
      BY <3>2, FS_Subset, FS_CardinalityType
  <2>3. Cardinality(Matching(f)) =< total + slipped
    BY <1>3, <1>5
  <2> QED
    BY <1>7, <2>1, <2>2, <2>3
<1>9. SeenBelow((page - 1) * PageSize)'
  BY <1>1, <1>3, <1>6 DEF SeenBelow
<1>10. Cardinality(Matching(filter)') =< total' + slipped'
  BY <1>1, <1>3, <1>8
<1> QED
  BY <1>1, <1>9, <1>10 DEF PagingInv

\* The rows of the page are seen; if it is the last, hardly any is left.
LEMMA NextListed ==
    ASSUME AuditLogTypeOK, PagingInv, ListLogs
    PROVE  PagingInv'
<1>1. /\ reading = "list" /\ reading' = "shown"
      /\ seen' = seen \cup RowsOfPage(Matching(filter), filter, page)
      /\ UNCHANGED <<log, filter, page, total, slipped, wanted>>
  BY DEF ListLogs
<1>2. /\ log \in Seq(Row) /\ filter \in Filters /\ page \in Nat \ {0}
      /\ total \in Nat /\ slipped \in Nat /\ PageSize \in Nat \ {0}
  BY AuditLogAssumption DEF AuditLogTypeOK, Row
<1>3. page * PageSize \in Nat /\ (page - 1) * PageSize \in Nat
  BY <1>2
<1>4. ASSUME NEW i \in wanted \cap Matching(filter), i \notin seen'
      PROVE  Cardinality(Before(i, filter)) >= page * PageSize
  <2>1. Cardinality(Before(i, filter)) \in Nat
    BY <1>2, BeforeFinite
  <2>2. ~(Cardinality(Before(i, filter)) < (page - 1) * PageSize)
    BY <1>1, <1>4 DEF PagingInv, SeenBelow
  <2>3. Cardinality(Before(i, filter)) \notin ((page - 1) * PageSize)..(page * PageSize - 1)
    BY <1>1, <1>4 DEF RowsOfPage, Before
  <2> QED
    BY <1>3, <2>1, <2>2, <2>3
<1>5. \A i \in wanted \cap Matching(filter) :
            Cardinality(Before(i, filter)) < page * PageSize => i \in seen'
  BY <1>2, <1>3, <1>4, BeforeFinite
<1>6. SeenBelow(page * PageSize)'
  BY <1>1, <1>5 DEF SeenBelow, Matching, Before, ListedBefore
<1>7. ASSUME page >= TotalPages(total)
      PROVE  Cardinality((wanted \cap Described(filter)) \ seen') =< slipped
  <2> DEFINE missing == (wanted \cap Described(filter)) \ seen'
  <2>1. missing \in SUBSET Matching(filter)
    BY <1>2, DescribedMatch
  <2>2. \A i \in missing : Cardinality(Before(i, filter)) >= page * PageSize
    BY <1>4, <2>1
  <2>3. Cardinality(Matching(filter)) =< page * PageSize + slipped
    <3>1. total =< page * PageSize
      BY <1>2, <1>7, PagesHold
    <3>2. Cardinality(Matching(filter)) =< total + slipped
      BY <1>1 DEF PagingInv
    <3>3. Cardinality(Matching(filter)) \in Nat
      BY <1>2, RowsFinite, FS_CardinalityType
    <3> QED
      BY <1>2, <1>3, <3>1, <3>2, <3>3
  <2> HIDE DEF missing
  <2>4. Cardinality(missing) =< slipped
    BY <1>2, <1>3, <2>1, <2>2, <2>3, FewBehind
  <2> QED
    BY <2>4 DEF missing
<1>8. NothingSkipped'
  BY <1>1, <1>7 DEF NothingSkipped, TotalPages, Described, DayOf
<1> QED
  BY <1>1, <1>6, <1>8 DEF PagingInv

LEMMA NextPaging ==
    AuditLogTypeOK /\ PagingInv /\ [AuditLogNext]_auditLogVars => PagingInv'
<1> SUFFICES ASSUME AuditLogTypeOK, PagingInv, [AuditLogNext]_auditLogVars PROVE PagingInv'
  OBVIOUS
<1>1. ASSUME NEW client \in Clients \cup {NoClient}, AuditEvent(client) PROVE PagingInv'
  BY <1>1, NextStanding DEF AuditEvent
<1>2. ASSUME AuditRefusedKey PROVE PagingInv'
  BY <1>2, NextRefused
<1>3. ASSUME NEW c \in Clients, DeleteClient(c) PROVE PagingInv'
  BY <1>3, NextStanding DEF DeleteClient
<1>4. ASSUME Tick \/ UNCHANGED auditLogVars PROVE PagingInv'
  BY <1>4, NextStanding DEF Tick, auditLogVars
<1>5. ASSUME NEW f \in Filters, NEW p \in Nat \ {0}, CountLogs(f, p), UNCHANGED log,
             \A i \in wanted' \cap Matching(f) :
                Cardinality(Before(i, f)) < (p - 1) * PageSize => i \in seen'
      PROVE  PagingInv'
  <2>1. /\ reading' = "list" /\ filter' = f /\ page' = p /\ slipped' = 0
        /\ total' = Cardinality(Matching(f))
    BY <1>5 DEF CountLogs
  <2>2. Cardinality(Matching(f)) \in Nat
    BY RowsFinite DEF AuditLogTypeOK, Row
  <2>3. SeenBelow((page - 1) * PageSize)'
    BY <1>5, <2>1 DEF SeenBelow, Matching, Before, ListedBefore
  <2>4. Cardinality(Matching(filter)') =< total' + slipped'
    BY <1>5, <2>1, <2>2 DEF Matching
  <2> QED
    BY <2>1, <2>3, <2>4 DEF PagingInv
<1>6. ASSUME NEW f \in Filters, OpenLog(f) PROVE PagingInv'
  <2>1. CountLogs(f, 1) /\ UNCHANGED log
    BY <1>6 DEF OpenLog
  <2>2. (1 - 1) * PageSize = 0
    BY AuditLogAssumption
  <2>3. \A i : Cardinality(Before(i, f)) \in Nat
    BY BeforeFinite DEF AuditLogTypeOK, Row
  <2> QED
    BY <1>5, <2>1, <2>2, <2>3
<1>7. ASSUME NextPage PROVE PagingInv'
  <2>1. reading = "shown" /\ CountLogs(filter, page + 1) /\ UNCHANGED <<log, wanted, seen>>
    BY <1>7 DEF NextPage
  <2>2. /\ page + 1 \in Nat \ {0} /\ (page + 1) - 1 = page /\ filter \in Filters
    BY DEF AuditLogTypeOK
  <2>3. \A i \in wanted' \cap Matching(filter) :
            Cardinality(Before(i, filter)) < ((page + 1) - 1) * PageSize => i \in seen'
    BY <2>1, <2>2 DEF PagingInv, SeenBelow
  <2> QED
    BY <1>5, <2>1, <2>2, <2>3
<1>8. ASSUME ListLogs PROVE PagingInv'
  BY <1>8, NextListed
<1>9. ASSUME Leave PROVE PagingInv'
  BY <1>9 DEF Leave, PagingInv
<1> QED
  BY <1>1, <1>2, <1>3, <1>4, <1>6, <1>7, <1>8, <1>9 DEF AuditLogNext

\* Whoever pages to the end has seen every row there was at the start, less at
\* most as many as slipped in between the count and the list of the last page,
\* for any page size and whatever is written or deleted between the pages.
THEOREM PagesSkipNothing == AuditLogSpec => []NothingSkipped
<1>1. AuditLogInit => PagingInv
  BY DEF AuditLogInit, PagingInv
<1>2. AuditLogTypeOK /\ PagingInv => NothingSkipped
  BY DEF PagingInv, NothingSkipped
<1> QED
  BY <1>1, <1>2, AuditLogInitType, AuditLogNextType, NextPaging, PTL DEF AuditLogSpec

=============================================================================
