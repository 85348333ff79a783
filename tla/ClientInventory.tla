--------------------------- MODULE ClientInventory --------------------------
(***************************************************************************)
(* The software inventory: the agent's scan and upload (agent/main.py,     *)
(* agent/scanner, agent/communication/inventory_client.py) and             *)
(* InventoryService.upload_inventory, over the clients of ClientRegistry.  *)
(*                                                                         *)
(* An installed program is a <<name, version>> pair; Blank is the version  *)
(* of an entry that has no DisplayVersion.  One run of the agent is one    *)
(* scan and one upload.  The agent keeps nothing between runs, so it does  *)
(* not matter to it whether an upload was handled, refused or lost; a new  *)
(* run may start while the server still has the upload of an earlier one,  *)
(* which timed out at the agent.                                           *)
(***************************************************************************)
EXTENDS ClientRegistry, Sequences, Functions

CONSTANTS
    Installations,\* the sets of programs a machine may have
    Blank,        \* the version of a program that reports none
    Scanned,      \* bound: the GUIDs whose agents scan, of the others only keys matter
    MaxUploads,   \* bound: how many uploads of one client are under way
    MaxLosses     \* bound: how many uploads are lost

ASSUME InventoryAssumption ==
    /\ \A programs \in Installations : IsFiniteSet(programs)
    /\ Scanned \subseteq Guids
    /\ MaxUploads \in Nat
    /\ MaxLosses \in Nat

Software == UNION Installations
NamesOf(programs) == {p[1] : p \in programs}

VARIABLES
    installed, \* the programs in the registry of each machine
    inventory, \* the software_inventory rows of each client
    uploads,   \* the uploads under way
    losses     \* number of uploads lost

inventoryVars == <<registryVars, installed, inventory, uploads, losses>>

\* An upload is sent; then its key is resolved and its body validated, on a
\* thread of its own; then its handler runs for the client found.
UploadRequests == [row : ClientRows, items : Installations, stage : {"sent", "authenticated"}]

InventoryTypeOK ==
    /\ RegistryTypeOK
    /\ installed \in [Scanned -> Installations]
    /\ inventory \in [ClientRows -> SUBSET Software]
    /\ uploads \subseteq UploadRequests
    /\ losses \in 0..MaxLosses
    /\ \A r \in ClientRows : r \notin clients => inventory[r] = {}

InventoryInit ==
    /\ RegistryInit
    /\ installed \in [Scanned -> Installations]
    /\ inventory = [r \in ClientRows |-> {}]
    /\ uploads = {}
    /\ losses = 0

-----------------------------------------------------------------------------
(* The agent.                                                              *)

\* Software is installed, updated or removed.
ChangeSoftware(g) ==
    /\ \E programs \in Installations \ {installed[g]} :
            installed' = [installed EXCEPT ![g] = programs]
    /\ UNCHANGED <<registryVars, inventory, uploads, losses>>

\* The agent of client r, which claimed its key earlier, scans and uploads.
\* Entries that agree in name and version are one; side-by-side versions of a
\* program are both sent.
RunAgent(r) ==
    /\ r \in Registered
    /\ r.guid \in Scanned
    /\ Cardinality({u \in uploads : u.row = r}) < MaxUploads
    /\ uploads' = uploads \cup
            {[row |-> r, items |-> installed[r.guid], stage |-> "sent"]}
    /\ UNCHANGED <<registryVars, installed, inventory, losses>>

LoseUpload(u) ==
    /\ u \in uploads
    /\ u.stage = "sent"
    /\ losses < MaxLosses
    /\ losses' = losses + 1
    /\ uploads' = uploads \ {u}
    /\ UNCHANGED <<registryVars, installed, inventory>>

-----------------------------------------------------------------------------
(* The server.                                                             *)

\* SoftwareInventoryItem.not_blank holds of every item.
Acceptable(items) == \A p \in items : p[2] # Blank

\* No client has the key: 401.
RejectUpload(u) ==
    /\ u \in uploads
    /\ u.stage = "sent"
    /\ get_by_api_key_hash(u.row.key) = {}
    /\ uploads' = uploads \ {u}
    /\ Log("CLIENT_AUTH_FAILURE", NoRow)
    /\ UNCHANGED <<provisioned, clients, installed, inventory, losses>>

\* One item without a version and the whole upload is refused: 422.
RefuseUpload(u) ==
    /\ u \in uploads
    /\ u.stage = "sent"
    /\ get_by_api_key_hash(u.row.key) # {}
    /\ ~Acceptable(u.items)
    /\ uploads' = uploads \ {u}
    /\ UNCHANGED <<registryVars, installed, inventory, losses>>

AuthenticateUpload(u) ==
    /\ u \in uploads
    /\ u.stage = "sent"
    /\ get_by_api_key_hash(u.row.key) # {}
    /\ Acceptable(u.items)
    /\ uploads' = (uploads \ {u}) \cup {[u EXCEPT !.stage = "authenticated"]}
    /\ UNCHANGED <<registryVars, installed, inventory, losses>>

\* Mutant: software that has a row already is passed over.
WrittenOnce(rows, p) == IF p[1] \in NamesOf(rows) THEN rows ELSE rows \cup {p}

\* The rows after one item of an upload: the row of that name is updated, or
\* one is created.  A client has one row per name.
Written(rows, p) ==
    IF p[1] \in NamesOf(rows)
    THEN {IF q[1] = p[1] THEN p ELSE q : q \in rows}
    ELSE rows \cup {p}

\* The rows after all items of an upload, in this order.
Merged(rows, order) ==
    LET merged[n \in 0..Len(order)] ==
            IF n = 0 THEN rows ELSE Written(merged[n - 1], order[n])
    IN  merged[Len(order)]

\* The items in every order the registry may have them in.
Orders(items) == Bijection(1..Cardinality(items), items)

\* Mutant: rows of software that is gone are kept.
SyncedKeepingOld(rows, items) == {Merged(rows, order) : order \in Orders(items)}

\* What `rows` may become: the items are written, and then the rows are removed
\* whose name was not among them.
Synced(rows, items) ==
    {{p \in Merged(rows, order) : p[1] \in NamesOf(items)} : order \in Orders(items)}

\* Mutant: foreign keys are not enforced.
HandleUploadUnchecked(u) ==
    /\ u \in uploads
    /\ u.stage = "authenticated"
    /\ \E rows \in Synced(inventory[u.row], u.items) :
            inventory' = [inventory EXCEPT ![u.row] = rows]
    /\ uploads' = uploads \ {u}
    /\ Log("INVENTORY_UPLOADED", u.row)
    /\ UNCHANGED <<provisioned, clients, installed, losses>>

HandleUpload(u) ==
    /\ u \in uploads
    /\ u.stage = "authenticated"
    /\ u.row \in clients
    /\ \E rows \in Synced(inventory[u.row], u.items) :
            inventory' = [inventory EXCEPT ![u.row] = rows]
    /\ uploads' = uploads \ {u}
    /\ Log("INVENTORY_UPLOADED", u.row)
    /\ UNCHANGED <<provisioned, clients, installed, losses>>

\* The client was deleted meanwhile: a foreign key fails, nothing is committed.
FailUpload(u) ==
    /\ u \in uploads
    /\ u.stage = "authenticated"
    /\ u.row \notin clients
    /\ uploads' = uploads \ {u}
    /\ UNCHANGED <<registryVars, installed, inventory, losses>>

\* The rows of a deleted client go with it (ON DELETE CASCADE).
RegistryStep ==
    /\ RegistryNext
    /\ inventory' = [r \in ClientRows |-> IF r \in clients' THEN inventory[r] ELSE {}]
    /\ UNCHANGED <<installed, uploads, losses>>

ServerNext(u) ==
    RejectUpload(u) \/ RefuseUpload(u) \/ AuthenticateUpload(u) \/ HandleUpload(u) \/ FailUpload(u)

InventoryNext ==
    \/ RegistryStep
    \/ \E g \in Scanned : ChangeSoftware(g)
    \/ \E r \in Registered : RunAgent(r)
    \/ \E u \in uploads : ServerNext(u) \/ LoseUpload(u)

InventorySpec == InventoryInit /\ [][InventoryNext]_inventoryVars

\* Assumed of the surroundings: the agent of every client is run again and
\* again, which agent/main.py leaves to a scheduler.  The server handles what
\* it has received.
FairInventorySpec ==
    /\ InventorySpec
    /\ \A r \in ClientRows : WF_inventoryVars(RunAgent(r))
    /\ \A u \in UploadRequests : WF_inventoryVars(ServerNext(u))

-----------------------------------------------------------------------------
(* Properties.                                                             *)

\* One scan as rows: one for each name, with a version that the scan found.
ScanRows(items) ==
    {rows \in SUBSET items : /\ NamesOf(rows) = NamesOf(items)
                             /\ \A p, q \in rows : p[1] = q[1] => p = q}

\* The inventory of a client is one whole scan, never a mixture of two
\* uploads, whichever of them was late or overtook the other
\* (InventoryService.upload_inventory): its updates, insertions and removals leave
\* nothing of the scans before.
OneScanPerClient ==
    \A r \in clients :
        \/ inventory[r] = {}
        \/ \E items \in Installations : inventory[r] \in ScanRows(items)

\* When the software of a machine and its registration no longer change and
\* every program reports a version, the inventory becomes and stays what is
\* installed, lost and late uploads notwithstanding (FR-005, "the administrator
\* can view the latest software inventory").
InventoryConverges ==
    \A r \in {row \in ClientRows : row.guid \in Scanned}, programs \in Installations :
        Acceptable(programs) =>
            (<>[](r \in clients /\ installed[r.guid] = programs)
                => <>[](inventory[r] \in ScanRows(programs)))

=============================================================================
