--------------------------- MODULE ClientRegistry ---------------------------
(***************************************************************************)
(* Client API keys and the clients that hold them: ClientAuthService       *)
(* (provisioning and resolving keys), ClientService (registration and      *)
(* deletion) and their repositories.                                       *)
(*                                                                         *)
(* A row of `clients` is identified by the key and the Agent GUID it was   *)
(* created with, neither of which is ever changed.  Keys are random        *)
(* tokens, so a new key was never issued before.  The audit trail is the   *)
(* set of the audit rows there is at least one of, for the events in       *)
(* AuditedEvents.                                                          *)
(***************************************************************************)
EXTENDS Naturals, FiniteSets

CONSTANTS
    Keys,  \* client API keys
    Guids, \* Agent GUIDs, one per installation of the agent
    NoRow, \* the subject of an audit row that names no client
    AuditedEvents \* bound: the events whose audit rows are kept

ClientRows == [key : Keys, guid : Guids]

\* Events in the life of a key or client, and the others.
LifeEvents == {"CLIENT_KEY_PROVISIONED", "CLIENT_REGISTERED", "CLIENT_DELETED"}
OtherEvents == {"CLIENT_REGISTRATION_UPDATED", "CLIENT_REGISTRATION_CONFLICT",
                "CLIENT_AUTH_FAILURE", "INVENTORY_UPLOADED"}

ASSUME RegistryAssumption == LifeEvents \subseteq AuditedEvents

AuditRows == (LifeEvents \cup OtherEvents) \X (Keys \cup ClientRows \cup {NoRow})

VARIABLES
    provisioned, \* the hashes in client_provisioning_keys, unclaimed keys
    clients,     \* the rows of `clients`
    audit        \* audit_logs, as a set

registryVars == <<provisioned, clients, audit>>

RegistryTypeOK ==
    /\ provisioned \subseteq Keys
    /\ clients \subseteq ClientRows
    /\ audit \subseteq AuditRows

RegistryInit ==
    /\ provisioned = {}
    /\ clients = {}
    /\ audit = {}

Log(event, subject) ==
    audit' = IF event \in AuditedEvents THEN audit \cup {<<event, subject>>} ELSE audit

\* The rows that were ever created, deleted ones included.
Registered == {r \in ClientRows : <<"CLIENT_REGISTERED", r>> \in audit}

get_by_api_key_hash(k) == {r \in clients : r.key = k}
get_by_agent_guid(g) == {r \in clients : r.guid = g}

-----------------------------------------------------------------------------
(* An administrator issues a key.                                          *)

ProvisionKey(k) ==
    /\ <<"CLIENT_KEY_PROVISIONED", k>> \notin audit
    /\ provisioned' = provisioned \cup {k}
    /\ Log("CLIENT_KEY_PROVISIONED", k)
    /\ UNCHANGED clients

-----------------------------------------------------------------------------
(* POST /api/register with key k and GUID g: the key is resolved and the   *)
(* client created or updated in one handler.                               *)

\* The key of no client and of no unclaimed provisioning row.
RejectUnknownKey(k) ==
    /\ get_by_api_key_hash(k) = {}
    /\ k \notin provisioned
    /\ Log("CLIENT_AUTH_FAILURE", NoRow)
    /\ UNCHANGED <<provisioned, clients>>

\* The GUID has a client and the key is that client's own.
UpdateRegistration(k, g) ==
    /\ \E r \in get_by_agent_guid(g) :
            /\ r \in get_by_api_key_hash(k)
            /\ Log("CLIENT_REGISTRATION_UPDATED", r)
    /\ UNCHANGED <<provisioned, clients>>

\* The GUID has a client the key does not belong to, or the GUID is new and
\* the key belongs to another client.  A provisioned key stays unclaimed.
RejectConflict(k, g) ==
    /\ get_by_api_key_hash(k) # {} \/ k \in provisioned
    /\ IF get_by_agent_guid(g) # {}
       THEN get_by_api_key_hash(k) # get_by_agent_guid(g)
       ELSE get_by_api_key_hash(k) # {}
    /\ Log("CLIENT_REGISTRATION_CONFLICT", NoRow)
    /\ UNCHANGED <<provisioned, clients>>

\* Mutant: the provisioning row is kept when the key is claimed.
RegisterKeepingKey(k, g) ==
    /\ get_by_agent_guid(g) = {}
    /\ get_by_api_key_hash(k) = {}
    /\ k \in provisioned
    /\ clients' = clients \cup {[key |-> k, guid |-> g]}
    /\ Log("CLIENT_REGISTERED", [key |-> k, guid |-> g])
    /\ UNCHANGED provisioned

\* Mutant: a provisioned key is claimed although the GUID has a client.
RegisterAgain(k, g) ==
    /\ get_by_api_key_hash(k) = {}
    /\ k \in provisioned
    /\ clients' = clients \cup {[key |-> k, guid |-> g]}
    /\ provisioned' = provisioned \ {k}
    /\ Log("CLIENT_REGISTERED", [key |-> k, guid |-> g])

\* A new GUID claims a provisioned key, whose provisioning row is removed.
Register(k, g) ==
    /\ get_by_agent_guid(g) = {}
    /\ get_by_api_key_hash(k) = {}
    /\ k \in provisioned
    /\ clients' = clients \cup {[key |-> k, guid |-> g]}
    /\ provisioned' = provisioned \ {k}
    /\ Log("CLIENT_REGISTERED", [key |-> k, guid |-> g])

-----------------------------------------------------------------------------
(* An administrator deletes a client.                                      *)

DeleteClient(r) ==
    /\ r \in clients
    /\ clients' = clients \ {r}
    /\ Log("CLIENT_DELETED", r)
    /\ UNCHANGED provisioned

RegistryNext ==
    \/ \E k \in Keys : ProvisionKey(k) \/ RejectUnknownKey(k)
    \/ \E k \in Keys, g \in Guids :
            UpdateRegistration(k, g) \/ RejectConflict(k, g) \/ Register(k, g)
    \/ \E r \in clients : DeleteClient(r)

RegistrySpec == RegistryInit /\ [][RegistryNext]_registryVars

-----------------------------------------------------------------------------
(* Properties.                                                             *)

\* A key identifies one client for ever: it is issued before it is used, and
\* once claimed it is not free again, not even after its client was deleted,
\* so no second client, of the same or another GUID, is created under it
\* (ClientService.register, ClientProvisioningKeyRepository.delete).
KeyClaimedOnce ==
    /\ \A r, s \in Registered : r.key = s.key => r = s
    /\ \A r \in Registered : r.key \notin provisioned
    /\ clients \subseteq Registered

\* Of the clients of one GUID all but the latest have been deleted, each of
\* them on record: a deleted client never comes back under its old identity
\* (ClientService.register, delete_client).
DeletedStaysDeleted ==
    /\ \A r \in Registered : r \notin clients <=> <<"CLIENT_DELETED", r>> \in audit
    /\ \A r, s \in clients : r.guid = s.guid => r = s

=============================================================================
