----------------------- MODULE ClientInventoryProofs -----------------------
(***************************************************************************)
(* Keys are claimed once and deleted clients stay deleted, for every set   *)
(* of keys, GUIDs and inventories and every bound.                         *)
(***************************************************************************)
EXTENDS ClientInventory, FiniteSetTheorems, WellFoundedInduction, TLAPS

Issued(k) == <<"CLIENT_KEY_PROVISIONED", k>> \in audit
Deleted(r) == <<"CLIENT_DELETED", r>> \in audit

\* A key may be provisioned only once, and a client is registered only with a
\* provisioned key: so every key in the tables must be on record as issued,
\* or a new key could be one that was claimed.
RegistryInv ==
    /\ provisioned \subseteq Keys
    /\ clients \subseteq ClientRows
    /\ \A k \in provisioned : Issued(k)
    /\ \A r \in Registered : Issued(r.key)
    /\ \A r \in ClientRows : Deleted(r) => r \in Registered
    /\ KeyClaimedOnce
    /\ DeletedStaysDeleted

LEMMA LifeLogged ==
    ASSUME NEW event \in LifeEvents, NEW subject, Log(event, subject)
    PROVE  audit' = audit \cup {<<event, subject>>}
BY RegistryAssumption DEF Log

\* An audit row of another event leaves the invariant as it is.
LEMMA OthersLogged ==
    ASSUME RegistryInv, UNCHANGED <<provisioned, clients>>,
           NEW event \in OtherEvents, NEW subject,
           Log(event, subject) \/ UNCHANGED audit
    PROVE  RegistryInv'
<1>1. event \notin {"CLIENT_KEY_PROVISIONED", "CLIENT_REGISTERED", "CLIENT_DELETED"}
    BY DEF OtherEvents
<1>2. /\ \A k : Issued(k)' <=> Issued(k)
      /\ \A r : Deleted(r)' <=> Deleted(r)
      /\ \A r : <<"CLIENT_REGISTERED", r>> \in audit' <=> <<"CLIENT_REGISTERED", r>> \in audit
    BY <1>1 DEF Log, Issued, Deleted
<1>3. Registered' = Registered
    BY <1>2 DEF Registered
<1> QED
    BY <1>2, <1>3 DEF RegistryInv, KeyClaimedOnce, DeletedStaysDeleted, Deleted

LEMMA RegistryInvInit == RegistryInit => RegistryInv
BY DEF RegistryInit, RegistryInv, Registered, Issued, Deleted, KeyClaimedOnce, DeletedStaysDeleted

LEMMA RegistryInvNext == RegistryInv /\ [RegistryNext]_registryVars => RegistryInv'
<1> SUFFICES ASSUME RegistryInv, [RegistryNext]_registryVars PROVE RegistryInv'
    OBVIOUS
<1>1. ASSUME NEW k \in Keys, ProvisionKey(k) PROVE RegistryInv'
  <2>1. audit' = audit \cup {<<"CLIENT_KEY_PROVISIONED", k>>}
    BY <1>1, LifeLogged DEF ProvisionKey, LifeEvents
  <2>2. /\ Registered' = Registered
        /\ \A r : Deleted(r)' <=> Deleted(r)
        /\ \A j : Issued(j)' <=> Issued(j) \/ j = k
    BY <2>1 DEF Registered, Deleted, Issued
  <2> QED
    BY <1>1, <2>2 DEF ProvisionKey, RegistryInv, KeyClaimedOnce, DeletedStaysDeleted, Deleted, Issued
<1>2. ASSUME NEW k \in Keys, RejectUnknownKey(k) PROVE RegistryInv'
    BY <1>2, OthersLogged DEF RejectUnknownKey, OtherEvents
<1>3. ASSUME NEW k \in Keys, NEW g \in Guids, UpdateRegistration(k, g) PROVE RegistryInv'
    BY <1>3, OthersLogged DEF UpdateRegistration, OtherEvents
<1>4. ASSUME NEW k \in Keys, NEW g \in Guids, RejectConflict(k, g) PROVE RegistryInv'
    BY <1>4, OthersLogged DEF RejectConflict, OtherEvents
<1>5. ASSUME NEW k \in Keys, NEW g \in Guids, Register(k, g) PROVE RegistryInv'
  <2> DEFINE new == [key |-> k, guid |-> g]
  <2>1. new \in ClientRows /\ new.key = k /\ new.guid = g
    BY DEF ClientRows
  <2>2. audit' = audit \cup {<<"CLIENT_REGISTERED", new>>}
    BY <1>5, LifeLogged DEF Register, LifeEvents
  <2>3. clients' = clients \cup {new} /\ provisioned' = provisioned \ {k}
    BY <1>5 DEF Register
  <2>4. /\ k \in provisioned
        /\ \A r \in clients : r.guid # g
    BY <1>5 DEF Register, get_by_agent_guid
  <2> HIDE DEF new
  <2>5. /\ Registered' = Registered \cup {new}
        /\ \A r : Deleted(r)' <=> Deleted(r)
        /\ \A j : Issued(j)' <=> Issued(j)
    BY <2>1, <2>2 DEF Registered, Deleted, Issued
  <2>6. /\ \A r \in Registered : r.key # k
        /\ ~Deleted(new)
    BY <2>1, <2>4 DEF RegistryInv, KeyClaimedOnce
  <2>7. KeyClaimedOnce'
    BY <2>1, <2>3, <2>5, <2>6 DEF RegistryInv, KeyClaimedOnce
  <2>8. DeletedStaysDeleted'
    BY <2>1, <2>3, <2>4, <2>5, <2>6 DEF RegistryInv, DeletedStaysDeleted, Deleted
  <2> QED
    BY <2>1, <2>3, <2>4, <2>5, <2>7, <2>8 DEF RegistryInv
<1>6. ASSUME NEW r \in clients, DeleteClient(r) PROVE RegistryInv'
  <2>1. audit' = audit \cup {<<"CLIENT_DELETED", r>>}
    BY <1>6, LifeLogged DEF DeleteClient, LifeEvents
  <2>2. /\ Registered' = Registered
        /\ \A s : Deleted(s)' <=> Deleted(s) \/ s = r
        /\ \A j : Issued(j)' <=> Issued(j)
    BY <2>1 DEF Registered, Deleted, Issued
  <2>3. r \in Registered
    BY DEF RegistryInv, KeyClaimedOnce
  <2> QED
    BY <1>6, <2>2, <2>3
       DEF DeleteClient, RegistryInv, KeyClaimedOnce, DeletedStaysDeleted, Deleted
<1>7. CASE UNCHANGED registryVars
  <2>1. Registered' = Registered
    BY <1>7 DEF registryVars, Registered
  <2> QED
    BY <1>7, <2>1
       DEF registryVars, RegistryInv, KeyClaimedOnce, DeletedStaysDeleted, Issued, Deleted
<1> QED
    BY <1>1, <1>2, <1>3, <1>4, <1>5, <1>6, <1>7 DEF RegistryNext

-----------------------------------------------------------------------------
(* The registry below the inventory.                                       *)

LEMMA InventoryKeepsRegistry == RegistryInv /\ [InventoryNext]_inventoryVars => RegistryInv'
<1> SUFFICES ASSUME RegistryInv, [InventoryNext]_inventoryVars PROVE RegistryInv'
    OBVIOUS
<1>1. CASE RegistryStep
    BY <1>1, RegistryInvNext DEF RegistryStep
<1>2. ASSUME NEW u \in uploads, RejectUpload(u) PROVE RegistryInv'
    BY <1>2, OthersLogged DEF RejectUpload, OtherEvents
<1>3. ASSUME NEW u \in uploads, HandleUpload(u) PROVE RegistryInv'
    BY <1>3, OthersLogged DEF HandleUpload, OtherEvents
<1>4. CASE UNCHANGED registryVars
    BY <1>4, RegistryInvNext
<1> QED
    BY <1>1, <1>2, <1>3, <1>4
       DEF InventoryNext, ChangeSoftware, RunAgent, ServerNext, LoseUpload, RefuseUpload,
           AuthenticateUpload, FailUpload, inventoryVars

LEMMA RegistryInvariant == InventorySpec => []RegistryInv
<1>1. InventoryInit => RegistryInv
    BY RegistryInvInit DEF InventoryInit
<1> QED
    BY <1>1, InventoryKeepsRegistry, PTL DEF InventorySpec

\* A key identifies one client for ever, whatever is registered, refused and
\* deleted (ClientService.register, ClientAuthService).
THEOREM KeysAreClaimedOnce == InventorySpec => []KeyClaimedOnce
<1>1. RegistryInv => KeyClaimedOnce
    BY DEF RegistryInv
<1> QED
    BY <1>1, RegistryInvariant, PTL

\* A deleted client never comes back, and no two clients share a GUID
\* (ClientService.register, delete_client).
THEOREM DeletedClientsStayDeleted == InventorySpec => []DeletedStaysDeleted
<1>1. RegistryInv => DeletedStaysDeleted
    BY DEF RegistryInv
<1> QED
    BY <1>1, RegistryInvariant, PTL

-----------------------------------------------------------------------------
(* The inventory.                                                          *)

LEMMA LogTyped ==
    ASSUME audit \subseteq AuditRows, NEW event \in LifeEvents \cup OtherEvents,
           NEW subject \in Keys \cup ClientRows \cup {NoRow}, Log(event, subject)
    PROVE  audit' \subseteq AuditRows
BY DEF Log, AuditRows

LEMMA RegistryTypeNext ==
    ASSUME RegistryTypeOK, RegistryNext PROVE RegistryTypeOK'
<1>1. ASSUME NEW k \in Keys, ProvisionKey(k) PROVE RegistryTypeOK'
    BY <1>1, LogTyped DEF RegistryTypeOK, ProvisionKey, LifeEvents
<1>2. ASSUME NEW k \in Keys, RejectUnknownKey(k) PROVE RegistryTypeOK'
    BY <1>2, LogTyped DEF RegistryTypeOK, RejectUnknownKey, OtherEvents
<1>3. ASSUME NEW k \in Keys, NEW g \in Guids, UpdateRegistration(k, g) PROVE RegistryTypeOK'
    BY <1>3, LogTyped DEF RegistryTypeOK, UpdateRegistration, get_by_agent_guid, OtherEvents
<1>4. ASSUME NEW k \in Keys, NEW g \in Guids, RejectConflict(k, g) PROVE RegistryTypeOK'
    BY <1>4, LogTyped DEF RegistryTypeOK, RejectConflict, OtherEvents
<1>5. ASSUME NEW k \in Keys, NEW g \in Guids, Register(k, g) PROVE RegistryTypeOK'
  <2>1. [key |-> k, guid |-> g] \in ClientRows
    BY DEF ClientRows
  <2> QED
    BY <1>5, <2>1, LogTyped DEF RegistryTypeOK, Register, LifeEvents
<1>6. ASSUME NEW r \in clients, DeleteClient(r) PROVE RegistryTypeOK'
    BY <1>6, LogTyped DEF RegistryTypeOK, DeleteClient, LifeEvents
<1> QED
    BY <1>1, <1>2, <1>3, <1>4, <1>5, <1>6 DEF RegistryNext

-----------------------------------------------------------------------------
(* One upload, item by item.                                               *)

\* Induction up to a bound, from the least number that would break it.
LEMMA UpTo ==
    ASSUME NEW m \in Nat, NEW T, 0 \in T,
           \A n \in 1..m : n - 1 \in T => n \in T
    PROVE  m \in T
<1> DEFINE Wrong == {n \in 0..m : n \notin T}
           R == OpToRel(<, Nat)
<1> SUFFICES ASSUME m \notin T PROVE FALSE
    OBVIOUS
<1>1. Wrong \subseteq Nat /\ m \in Wrong
    OBVIOUS
<1>2. PICK n \in Wrong : \A k \in Wrong : <<k, n>> \notin R
    BY <1>1, NatLessThanWellFounded, WFMin
<1>3. \A j, k \in Nat : j < k => <<j, k>> \in R
    BY DEF OpToRel
<1>4. n \in 1..m /\ n - 1 \in 0..m /\ n - 1 < n
  <2>1. n \in 0..m /\ n # 0
    OBVIOUS
  <2> QED
    BY <2>1
<1>5. n - 1 \in Wrong
    BY <1>2, <1>4
<1> HIDE DEF R, Wrong
<1> QED
    BY <1>1, <1>2, <1>3, <1>4, <1>5

\* The merge after n items, given the one before.
Merge(h, rows, order, n) == IF n = 0 THEN rows ELSE Written(h[n - 1], order[n])

\* Merged is the last of a sequence of sets of rows: its definition has a
\* solution, as one that goes up to n - 1 can be continued.
LEMMA MergedSteps ==
    ASSUME NEW rows, NEW order, Len(order) \in Nat
    PROVE  \E h : /\ h[0] = rows
                  /\ \A n \in 1..Len(order) : h[n] = Written(h[n - 1], order[n])
                  /\ Merged(rows, order) = h[Len(order)]
<1> DEFINE T == {m \in Nat : \E h : h = [n \in 0..m |-> Merge(h, rows, order, n)]}
<1>1. 0 \in T
  <2>1. [n \in 0..0 |-> rows] = [n \in 0..0 |-> Merge([i \in 0..0 |-> rows], rows, order, n)]
    BY DEF Merge
  <2> QED
    BY <2>1
<1>2. ASSUME NEW m \in 1..Len(order), m - 1 \in T PROVE m \in T
  <2>1. PICK f : f = [n \in 0..(m - 1) |-> Merge(f, rows, order, n)]
    BY <1>2
  <2> DEFINE g == [n \in 0..m |-> IF n = m THEN Merge(f, rows, order, n) ELSE f[n]]
  <2>2. ASSUME NEW n \in 0..m PROVE g[n] = Merge(g, rows, order, n)
    <3>1. n # 0 => g[n - 1] = f[n - 1]
      OBVIOUS
    <3>2. Merge(g, rows, order, n) = Merge(f, rows, order, n)
      BY <3>1 DEF Merge
    <3>3. CASE n = m
      BY <3>2, <3>3
    <3>4. CASE n # m
      <4>1. n \in 0..(m - 1)
        BY <3>4
      <4>2. f[n] = Merge(f, rows, order, n)
        BY <2>1, <4>1
      <4> QED
        BY <3>2, <3>4, <4>2
    <3> QED
      BY <3>3, <3>4
  <2>3. g = [n \in 0..m |-> Merge(g, rows, order, n)]
    BY <2>2
  <2> HIDE DEF g
  <2>4. \E h : h = [n \in 0..m |-> Merge(h, rows, order, n)]
    BY <2>3
  <2> QED
    BY <2>4
<1> HIDE DEF T
<1>3. Len(order) \in T
    BY <1>1, <1>2, UpTo
<1>4. PICK f : f = [n \in 0..Len(order) |-> Merge(f, rows, order, n)]
    BY <1>3 DEF T
<1>5. f = [n \in 0..Len(order) |-> IF n = 0 THEN rows ELSE Written(f[n - 1], order[n])]
    BY <1>4 DEF Merge
<1> DEFINE h == CHOOSE g : g = [n \in 0..Len(order) |->
                            IF n = 0 THEN rows ELSE Written(g[n - 1], order[n])]
<1>6. h = [n \in 0..Len(order) |-> IF n = 0 THEN rows ELSE Written(h[n - 1], order[n])]
    BY <1>5
<1>7. Merged(rows, order) = h[Len(order)]
    BY DEF Merged
<1> HIDE DEF h
<1>8. h[0] = rows /\ \A n \in 1..Len(order) : h[n] = Written(h[n - 1], order[n])
    BY <1>6
<1> QED
    BY <1>7, <1>8

\* Writing an item leaves one row of its name, and the others alone.
LEMMA WrittenRows ==
    ASSUME NEW rows, NEW p
    PROVE  /\ p \in Written(rows, p)
           /\ \A x \in Written(rows, p) : x[1] = p[1] => x = p
           /\ \A x : x[1] # p[1] => (x \in Written(rows, p) <=> x \in rows)
<1>1. CASE p[1] \in NamesOf(rows)
  <2>1. Written(rows, p) = {IF q[1] = p[1] THEN p ELSE q : q \in rows}
    BY <1>1 DEF Written
  <2>2. \E q \in rows : q[1] = p[1]
    BY <1>1 DEF NamesOf
  <2> QED
    BY <2>1, <2>2
<1>2. CASE p[1] \notin NamesOf(rows)
    BY <1>2 DEF Written, NamesOf
<1> QED
    BY <1>1, <1>2

\* What an upload leaves is its own scan, whatever the rows were before.
LEMMA SyncedRows ==
    ASSUME NEW items \in Installations, NEW old, NEW rows \in Synced(old, items)
    PROVE  rows \subseteq Software /\ rows \in ScanRows(items)
<1> DEFINE N == Cardinality(items)
<1>1. PICK order \in Orders(items) :
            rows = {p \in Merged(old, order) : p[1] \in NamesOf(items)}
    BY DEF Synced
<1>2. N \in Nat
    BY InventoryAssumption, FS_CardinalityType
<1>3. /\ order \in [1..N -> items]
      /\ \A p \in items : \E i \in 1..N : order[i] = p
    BY DEF Orders, Bijection, Injection, Surjection
<1> HIDE DEF N
<1>4. Len(order) = N
    BY <1>2, <1>3
<1>5. PICK h : /\ h[0] = old
               /\ \A n \in 1..N : h[n] = Written(h[n - 1], order[n])
               /\ Merged(old, order) = h[N]
    BY <1>2, <1>4, MergedSteps
<1> DEFINE Names(n) == {order[i][1] : i \in 1..n}
           Right(n) == /\ Names(n) \subseteq NamesOf(h[n])
                       /\ \A p \in h[n] : p[1] \in Names(n) => p \in items
                       /\ \A p, q \in h[n] : p[1] = q[1] /\ p[1] \in Names(n) => p = q
           T == {n \in 0..N : Right(n)}
<1>6. 0 \in T
    BY <1>2
<1>7. ASSUME NEW n \in 1..N, n - 1 \in T PROVE n \in T
  <2> DEFINE p == order[n]
  <2>1. Right(n - 1) /\ p \in items /\ h[n] = Written(h[n - 1], p)
    BY <1>3, <1>5, <1>7
  <2>2. Names(n) = Names(n - 1) \cup {p[1]}
    <3>1. 1..n = 1..(n - 1) \cup {n}
      BY <1>2
    <3> QED
      BY <3>1
  <2> HIDE DEF p, Names
  <2>3. Names(n) \subseteq NamesOf(h[n])
    <3> SUFFICES ASSUME NEW a \in Names(n) PROVE \E q \in h[n] : q[1] = a
      BY DEF NamesOf
    <3>1. CASE a = p[1]
      BY <2>1, <3>1, WrittenRows
    <3>2. CASE a # p[1]
      <4>1. PICK q \in h[n - 1] : q[1] = a
        BY <2>1, <2>2, <3>2 DEF NamesOf
      <4> QED
        BY <2>1, <3>2, <4>1, WrittenRows
    <3> QED
      BY <3>1, <3>2
  <2>4. \A q \in h[n] : q[1] \in Names(n) => q \in items
    BY <2>1, <2>2, WrittenRows
  <2>5. \A q, r \in h[n] : q[1] = r[1] /\ q[1] \in Names(n) => q = r
    BY <2>1, <2>2, WrittenRows
  <2> QED
    BY <1>2, <2>3, <2>4, <2>5
<1> HIDE DEF T
<1>8. N \in T
    BY <1>2, <1>6, <1>7, UpTo
<1>9. Right(N)
    BY <1>8 DEF T
<1>10. Names(N) = NamesOf(items)
    BY <1>3 DEF NamesOf
<1> HIDE DEF Names
<1>11. rows \in ScanRows(items)
  <2>1. rows \subseteq items
    BY <1>1, <1>5, <1>9, <1>10
  <2>2. NamesOf(rows) = NamesOf(items)
    BY <1>1, <1>5, <1>9, <1>10 DEF NamesOf
  <2>3. \A p, q \in rows : p[1] = q[1] => p = q
    BY <1>1, <1>5, <1>9, <1>10
  <2> QED
    BY <2>1, <2>2, <2>3 DEF ScanRows
<1> QED
    BY <1>11 DEF ScanRows, Software

-----------------------------------------------------------------------------
(* The inventory.                                                          *)

LEMMA InventoryTypeNext ==
    InventoryTypeOK /\ [InventoryNext]_inventoryVars => InventoryTypeOK'
<1> SUFFICES ASSUME InventoryTypeOK, [InventoryNext]_inventoryVars PROVE InventoryTypeOK'
    OBVIOUS
<1> USE InventoryAssumption
<1>1. CASE RegistryStep
  <2>1. RegistryTypeOK'
    BY <1>1, RegistryTypeNext DEF RegistryStep, InventoryTypeOK
  <2>2. /\ inventory' \in [ClientRows -> SUBSET Software]
        /\ \A r \in ClientRows : r \notin clients' => inventory'[r] = {}
    BY <1>1 DEF RegistryStep, InventoryTypeOK
  <2> QED
    BY <1>1, <2>1, <2>2 DEF RegistryStep, InventoryTypeOK
<1>2. ASSUME NEW g \in Scanned, ChangeSoftware(g) PROVE InventoryTypeOK'
    BY <1>2 DEF ChangeSoftware, InventoryTypeOK, RegistryTypeOK, registryVars
<1>3. ASSUME NEW r \in Registered, RunAgent(r) PROVE InventoryTypeOK'
  <2>1. [row |-> r, items |-> installed[r.guid], stage |-> "sent"] \in UploadRequests
    BY <1>3 DEF RunAgent, InventoryTypeOK, UploadRequests, Registered
  <2> QED
    BY <1>3, <2>1 DEF RunAgent, InventoryTypeOK, RegistryTypeOK, registryVars
<1>4. ASSUME NEW u \in uploads, LoseUpload(u) PROVE InventoryTypeOK'
    BY <1>4 DEF LoseUpload, InventoryTypeOK, RegistryTypeOK, registryVars
<1>5. ASSUME NEW u \in uploads, RejectUpload(u) PROVE InventoryTypeOK'
    BY <1>5, LogTyped DEF RejectUpload, InventoryTypeOK, RegistryTypeOK, OtherEvents
<1>6. ASSUME NEW u \in uploads, RefuseUpload(u) \/ FailUpload(u) PROVE InventoryTypeOK'
    BY <1>6 DEF RefuseUpload, FailUpload, InventoryTypeOK, RegistryTypeOK, registryVars
<1>7. ASSUME NEW u \in uploads, AuthenticateUpload(u) PROVE InventoryTypeOK'
  <2>1. [u EXCEPT !.stage = "authenticated"] \in UploadRequests
    BY DEF InventoryTypeOK, UploadRequests
  <2> QED
    BY <1>7, <2>1 DEF AuthenticateUpload, InventoryTypeOK, RegistryTypeOK, registryVars
<1>8. ASSUME NEW u \in uploads, HandleUpload(u) PROVE InventoryTypeOK'
  <2>1. u.row \in ClientRows /\ u.items \in Installations
    BY DEF InventoryTypeOK, UploadRequests
  <2>2. PICK rows \in Synced(inventory[u.row], u.items) :
            inventory' = [inventory EXCEPT ![u.row] = rows]
    BY <1>8 DEF HandleUpload
  <2>3. /\ inventory' \in [ClientRows -> SUBSET Software]
        /\ \A r \in ClientRows : r \notin clients => inventory'[r] = {}
    BY <1>8, <2>1, <2>2, SyncedRows DEF HandleUpload, InventoryTypeOK
  <2>4. audit' \subseteq AuditRows
    BY <1>8, <2>1, LogTyped DEF HandleUpload, InventoryTypeOK, RegistryTypeOK, OtherEvents
  <2> QED
    BY <1>8, <2>3, <2>4 DEF HandleUpload, InventoryTypeOK, RegistryTypeOK
<1>9. CASE UNCHANGED inventoryVars
    BY <1>9 DEF inventoryVars, InventoryTypeOK, RegistryTypeOK, registryVars
<1> QED
    BY <1>1, <1>2, <1>3, <1>4, <1>5, <1>6, <1>7, <1>8, <1>9 DEF InventoryNext, ServerNext

LEMMA InventoryTypeInit == InventoryInit => InventoryTypeOK
BY InventoryAssumption DEF InventoryInit, InventoryTypeOK, RegistryInit, RegistryTypeOK

\* The variables keep their types, and a deleted client has no inventory rows.
THEOREM InventoryTypeCorrect == InventorySpec => []InventoryTypeOK
BY InventoryTypeInit, InventoryTypeNext, PTL DEF InventorySpec

LEMMA OneScanNext ==
    InventoryTypeOK /\ OneScanPerClient /\ [InventoryNext]_inventoryVars => OneScanPerClient'
<1> SUFFICES ASSUME InventoryTypeOK, OneScanPerClient, [InventoryNext]_inventoryVars
             PROVE  OneScanPerClient'
    OBVIOUS
<1>0. \A items : ScanRows(items)' = ScanRows(items)
    BY DEF ScanRows, NamesOf
<1>1. CASE RegistryStep
  <2>1. RegistryTypeOK'
    BY <1>1, RegistryTypeNext DEF RegistryStep, InventoryTypeOK
  <2>2. \A r \in clients' : inventory'[r] = inventory[r] /\ (r \notin clients => inventory[r] = {})
    BY <1>1, <2>1 DEF RegistryStep, RegistryTypeOK, InventoryTypeOK
  <2> QED
    BY <1>0, <2>2 DEF OneScanPerClient
<1>2. ASSUME NEW u \in uploads, HandleUpload(u) PROVE OneScanPerClient'
  <2>1. u.row \in ClientRows /\ u.items \in Installations
    BY DEF InventoryTypeOK, UploadRequests
  <2>2. PICK rows \in Synced(inventory[u.row], u.items) :
            inventory' = [inventory EXCEPT ![u.row] = rows]
    BY <1>2 DEF HandleUpload
  <2>3. rows \in ScanRows(u.items) /\ clients' = clients /\ clients \subseteq ClientRows
    BY <1>2, <2>1, SyncedRows DEF HandleUpload, InventoryTypeOK, RegistryTypeOK
  <2>4. \A r \in clients : inventory'[r] = IF r = u.row THEN rows ELSE inventory[r]
    BY <2>2, <2>3 DEF InventoryTypeOK
  <2> QED
    BY <1>0, <2>1, <2>3, <2>4 DEF OneScanPerClient
<1>3. CASE UNCHANGED <<clients, inventory>>
    BY <1>0, <1>3 DEF OneScanPerClient
<1> QED
    BY <1>1, <1>2, <1>3
       DEF InventoryNext, ChangeSoftware, RunAgent, ServerNext, LoseUpload, RejectUpload,
           RefuseUpload, AuthenticateUpload, FailUpload, inventoryVars, registryVars

\* The inventory is one whole scan, whichever upload was late or overtaken
\* (InventoryService.upload_inventory).
THEOREM InventoryIsOneScan == InventorySpec => []OneScanPerClient
<1>1. InventoryInit => OneScanPerClient
    BY DEF InventoryInit, RegistryInit, OneScanPerClient
<1> QED
    BY <1>1, InventoryTypeInit, InventoryTypeNext, OneScanNext, PTL DEF InventorySpec

=============================================================================
