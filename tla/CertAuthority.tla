---------------------------- MODULE CertAuthority ---------------------------
(***************************************************************************)
(* The certificate authority and the identities made from it, over restarts *)
(* of the node: App::initialize loads or generates the root CA, writes the *)
(* broker's TLS files and the node's own client identity as far as this    *)
(* start's configuration asks for them, and then the gateway signs the     *)
(* CSRs of devices and clients, several at a time.  What initialize does   *)
(* between these steps is in Startup.                                      *)
(*                                                                         *)
(* A private key is a member of Keys; a certificate names the key it is    *)
(* for and the key of the CA that signed it.  The database and the files   *)
(* outlive a crash, everything else does not.                              *)
(*                                                                         *)
(* The certificate files are in one directory, as the default paths have   *)
(* it: ca.crt, broker.crt, client.crt, and {host}.crt of every device.  A  *)
(* device may have the name of one of the first three.                     *)
(***************************************************************************)
EXTENDS Naturals, FiniteSets

CONSTANTS CaKeys, BrokerKeys, NodeKeys,     \* private keys by their use
          DeviceKeys, ClientKeys,   \* those of the CSRs included
          Hosts,       \* mDNS host names of devices, "ca", "broker" or "client" among
                       \* them or not
          Clients,     \* uuids given to registered clients
          Workers,     \* connections served at a time
          Faults,      \* whether the node crashes and writes fail
          None

Keys == CaKeys \cup BrokerKeys \cup NodeKeys \cup DeviceKeys \cup ClientKeys

ASSUME NoneIsNoKey == None \notin Keys
ASSUME ClientsAreNoHosts == Hosts \cap Clients = {} /\ Faults \in BOOLEAN

VARIABLES db,       \* ca_keys, node_identity and device_certs
          files,    \* the directory of certificates, and the key files
          phase,    \* how far App::initialize has come
          made,     \* the identity initialize is about to write to files
          mode,     \* what the configuration of this start asks for
          work,     \* the handshakes in progress
          given     \* who has been sent a certificate

vars == <<db, files, phase, made, mode, work, given>>

\* A certificate file is None if there is none, or if it is truncated.
Names == Hosts \cup {"ca", "broker", "client"}
Cert == [key : Keys, ca : Keys]
Row == [cert : Cert, revoked : BOOLEAN]

ASSUME NoneIsNoRow == None \notin Cert /\ None \notin Row

Steps == {"down", "ca", "broker ca", "broker cert", "broker key",
          "node", "node cert", "node key", "serving"}
Idle == [at |-> "idle"]

\* broker: mqtt_brokerage.tls_enabled.  client: mqtt_client.tls_mode is Mutual,
\* which the same variable asks for.  record: the gateway has a brokerage handle.
Modes == {m \in [broker : BOOLEAN, client : BOOLEAN, record : BOOLEAN] :
            m.client => m.broker}

TypeOK ==
    /\ db \in [ca : Keys \cup {None}, node : Cert \cup {None},
               certs : [Hosts \cup Clients -> Row \cup {None}]]
    /\ files \in [dir : BOOLEAN, crt : [Names -> Cert \cup {None}],
                  key : [{"broker", "client"} -> Keys \cup {None}]]
    /\ phase \in Steps
    /\ made \in Cert \cup {None}
    /\ mode \in Modes
    /\ work \in [Workers -> {Idle} \cup
                             [at : {"signed", "detached"}, host : Hosts, cert : Cert]]
    /\ given \subseteq Hosts \cup Clients

Init ==
    /\ db = [ca |-> None, node |-> None, certs |-> [d \in Hosts \cup Clients |-> None]]
    /\ files = [dir |-> FALSE, crt |-> [n \in Names |-> None],
                key |-> [n \in {"broker", "client"} |-> None]]
    /\ phase = "down"
    /\ made = None
    /\ mode = [broker |-> FALSE, client |-> FALSE, record |-> FALSE]
    /\ work = [w \in Workers |-> Idle]
    /\ given = {}

\* A key the node makes is none of those in use; which one is no matter.
Stored(c) == IF c = None THEN {} ELSE {c.key}
InFiles == UNION {Stored(files.crt[n]) : n \in Names}
           \cup {files.key["broker"], files.key["client"]}
InUse == {db.ca} \cup Stored(db.node) \cup InFiles \cup Stored(made)
NewKeys(pool) == {k \in pool \ InUse : k = CHOOSE j \in pool \ InUse : TRUE}

-----------------------------------------------------------------------------
(* App::initialize.                                                        *)

\* The process starts and reads its configuration, which may have been changed.
Boot(m) ==
    /\ phase = "down"
    /\ phase' = "ca"
    /\ mode' = m
    /\ UNCHANGED <<db, files, made, work, given>>

\* The two steps of provisioning are each taken if configured.
AfterBroker == IF mode.client THEN "node" ELSE "serving"

\* load_or_generate_ca: the CA in memory is the one in the database.
CaAnew == NewKeys(CaKeys)
CaChoices == IF db.ca # None THEN {db.ca} ELSE NewKeys(CaKeys)
LoadOrGenerateCa ==
    /\ phase = "ca"
    /\ \E k \in CaChoices : db' = [db EXCEPT !.ca = k]
    /\ phase' = IF mode.broker THEN "broker ca" ELSE AfterBroker
    /\ UNCHANGED <<files, made, mode, work, given>>

\* provision_mqtt_broker_cert: the directory, the CA file, then a certificate
\* made for this start, then its key.
WriteBrokerCa ==
    /\ phase = "broker ca"
    /\ files' = [files EXCEPT !.dir = TRUE, !.crt["ca"] = [key |-> db.ca, ca |-> db.ca]]
    /\ \E k \in NewKeys(BrokerKeys) : made' = [key |-> k, ca |-> db.ca]
    /\ phase' = "broker cert"
    /\ UNCHANGED <<db, mode, work, given>>

KeptBrokerCert == IF files.crt["broker"] = None THEN made ELSE files.crt["broker"]
FreshBrokerCert == made
WriteBrokerCert ==
    /\ phase = "broker cert"
    /\ files' = [files EXCEPT !.crt["broker"] = FreshBrokerCert]
    /\ phase' = "broker key"
    /\ UNCHANGED <<db, made, mode, work, given>>

WriteBrokerKey ==
    /\ phase = "broker key"
    /\ files' = [files EXCEPT !.key["broker"] = made.key]
    /\ made' = None
    /\ phase' = AfterBroker
    /\ UNCHANGED <<db, mode, work, given>>

\* ensure_node_identity: what is stored, or a new identity that is stored first.
NodeAnew == [key : NewKeys(NodeKeys), ca : {db.ca}]
NodeChoices == IF db.node # None THEN {db.node} ELSE [key : NewKeys(NodeKeys), ca : {db.ca}]
EnsureNodeIdentity ==
    /\ phase = "node"
    /\ \E n \in NodeChoices : db' = [db EXCEPT !.node = n] /\ made' = n
    /\ phase' = "node cert"
    /\ UNCHANGED <<files, mode, work, given>>

\* provision_node_identity writes the certificate, then the key.
WriteNodeCert ==
    /\ phase = "node cert"
    /\ files' = [files EXCEPT !.crt["client"] = made]
    /\ phase' = "node key"
    /\ UNCHANGED <<db, made, mode, work, given>>

WriteNodeKey ==
    /\ phase = "node key"
    /\ files' = [files EXCEPT !.key["client"] = made.key]
    /\ made' = None
    /\ phase' = "serving"
    /\ UNCHANGED <<db, mode, work, given>>

\* fs::write truncates the file before it writes: what is being written may be
\* left without content.
WritingCrt ==
    CASE phase = "broker ca"   -> {"ca"}
      [] phase = "broker cert" -> {"broker"}
      [] phase = "node cert"   -> {"client"}
      [] phase = "serving" /\ mode.record /\ files.dir ->
            {work[w].host : w \in {v \in Workers : work[v] # Idle}}
      [] OTHER -> {}
WritingKey ==
    CASE phase = "broker key" -> {"broker"}
      [] phase = "node key"   -> {"client"}
      [] OTHER -> {}
Truncated(f, names) == [n \in DOMAIN f |-> IF n \in names THEN None ELSE f[n]]

\* A crash, or the exit(1) after a step of initialize that fails.
Crash ==
    /\ Faults /\ phase # "down"
    /\ phase' = "down"
    /\ made' = None
    /\ work' = [w \in Workers |-> Idle]
    /\ \E c \in SUBSET WritingCrt, k \in SUBSET WritingKey :
          files' = [dir |-> files.dir \/ c # {},
                    crt |-> Truncated(files.crt, c), key |-> Truncated(files.key, k)]
    /\ UNCHANGED <<db, mode, given>>

-----------------------------------------------------------------------------
(* The gateway's handlers.                                                 *)

\* CaService::sign_csr: the row of the device is replaced, and not revoked.  A
\* request that is refused, or fails before this step, leaves nothing behind.
UpsertNothing(id, cert) == db
UpsertClearingAll(id, cert) ==
    [db EXCEPT !.certs = [d \in Hosts \cup Clients |->
        IF d # id /\ db.certs[d] = None THEN None
        ELSE [cert |-> IF d = id THEN cert ELSE db.certs[d].cert, revoked |-> FALSE]]]
Upsert(id, cert) == [db EXCEPT !.certs[id] = [cert |-> cert, revoked |-> FALSE]]

\* handle_device_init up to the signed certificate, for the key of any CSR.
DeviceInit(w, h) ==
    /\ phase = "serving" /\ work[w] = Idle
    /\ \E k \in DeviceKeys :
          LET cert == [key |-> k, ca |-> db.ca]
          IN  /\ db' = Upsert(h, cert)
              /\ work' = [work EXCEPT ![w] = [at |-> "signed", host |-> h, cert |-> cert]]
    /\ UNCHANGED <<files, phase, made, mode, given>>

\* The rest of it: register_cert_identity writes {host}.crt into the directory of
\* the CA file, unless there is no broker, and the device gets its certificate.
RegisterCertIdentity(w) ==
    /\ phase = "serving" /\ work[w] # Idle
    /\ mode.record => files.dir
    /\ files' = IF mode.record
                THEN [files EXCEPT !.crt[work[w].host] = work[w].cert] ELSE files
    /\ work' = [work EXCEPT ![w] = Idle]
    /\ given' = IF work[w].at = "signed" THEN given \cup {work[w].host} ELSE given
    /\ UNCHANGED <<db, phase, made, mode>>

\* The write fails, without the directory always: the device gets a 500, its new
\* certificate stays stored, and a file that was opened is left truncated.
RegisterFails(w) ==
    /\ phase = "serving" /\ work[w] # Idle
    /\ mode.record
    /\ Faults \/ ~files.dir
    /\ \/ UNCHANGED files
       \/ files.dir /\ files' = [files EXCEPT !.crt[work[w].host] = None]
    /\ work' = [work EXCEPT ![w] = Idle]
    /\ UNCHANGED <<db, phase, made, mode, given>>

\* The connection closes and hyper drops the handler: the device gets no answer,
\* but the write runs on a thread of its own and is not cancelled.
ConnectionCloses(w) ==
    /\ phase = "serving" /\ work[w] # Idle
    /\ work[w].at = "signed"
    /\ work' = [work EXCEPT ![w] = IF mode.record THEN [@ EXCEPT !.at = "detached"]
                                   ELSE Idle]
    /\ UNCHANGED <<db, files, phase, made, mode, given>>

\* handle_client_register, with a uuid nobody has; the connection may close
\* before the answer.
ClientRegister(w, c) ==
    /\ phase = "serving" /\ work[w] = Idle
    /\ db.certs[c] = None
    /\ \E k \in ClientKeys : db' = Upsert(c, [key |-> k, ca |-> db.ca])
    /\ given' \in {given, given \cup {c}}
    /\ UNCHANGED <<files, phase, made, mode, work>>

\* CaService::get_cert and is_revoked.
GetCert(d) == IF db.certs[d] = None THEN None ELSE db.certs[d].cert
IsRevoked(d) == db.certs[d] # None /\ db.certs[d].revoked

\* CaService::revoke; it is an error if the device is unknown.
Revoke(d) ==
    /\ phase = "serving"
    /\ db.certs[d] # None
    /\ db' = [db EXCEPT !.certs[d].revoked = TRUE]
    /\ UNCHANGED <<files, phase, made, mode, work, given>>

Provision ==
    \/ LoadOrGenerateCa
    \/ WriteBrokerCa \/ WriteBrokerCert \/ WriteBrokerKey
    \/ EnsureNodeIdentity \/ WriteNodeCert \/ WriteNodeKey

Handle ==
    \/ \E w \in Workers :
          \/ \E h \in Hosts : DeviceInit(w, h)
          \/ RegisterCertIdentity(w) \/ RegisterFails(w) \/ ConnectionCloses(w)
          \/ \E c \in Clients : ClientRegister(w, c)
    \/ \E d \in Hosts \cup Clients : Revoke(d)

Next ==
    \/ \E m \in Modes : Boot(m)
    \/ Provision
    \/ Handle
    \/ Crash

Spec == Init /\ [][Next]_vars

-----------------------------------------------------------------------------
(* Properties.                                                             *)

\* Every certificate the node has stored or is about to hand out is signed by
\* the CA in its database, whatever crashes came before: a restart never
\* invalidates the certificates of devices that are already in the field.
ChainsToStoredCa ==
    /\ db.node # None => db.node.ca = db.ca
    /\ \A d \in Hosts \cup Clients : db.certs[d] # None => db.certs[d].cert.ca = db.ca
    /\ \A n \in Names : files.crt[n] # None => files.crt[n].ca = db.ca
    /\ \A w \in Workers : work[w] # Idle => work[w].cert.ca = db.ca

\* Whatever a crash has left half-written, whatever an earlier start was
\* configured to write, and whatever devices were called, once provisioning is
\* over the files this start uses fit together: the broker's key its certificate,
\* the client's key its own, both certificates the CA file, and the client
\* identity is the stored one.  While the gateway serves they stay so, except a
\* file that a device shares its name with, which its handshake overwrites.
CaFits == files.crt["ca"] = [key |-> db.ca, ca |-> db.ca]
BrokerFits == files.crt["broker"] = [key |-> files.key["broker"], ca |-> db.ca]
ClientFits == /\ files.crt["client"] = [key |-> files.key["client"], ca |-> db.ca]
              /\ files.crt["client"] = db.node
Shared(n) == phase = "serving" /\ n \in Hosts
FilesMatchWhenServing ==
    [][phase' = "serving" =>
          /\ mode'.broker => (Shared("ca") \/ CaFits') /\ (Shared("broker") \/ BrokerFits')
          /\ mode'.client => (Shared("client") \/ ClientFits')]_vars

\* ensure_node_identity: "the identity is stable across restarts".
NodeIdentityStable == [][db.node # None => db'.node = db.node]_vars

\* Only the next handshake of the same device takes a revocation back, as it
\* stores its certificate, which may be for the same key: no crash, no restart
\* and no handshake of another does, and for a client nothing does (sign_csr and
\* revoke, in any order).
SignedAgain(d) == \E w \in Workers :
    /\ work[w] = Idle /\ work'[w] # Idle
    /\ work'[w].host = d /\ GetCert(d)' = work'[w].cert
RevocationHolds ==
    [][\A d \in Hosts \cup Clients :
          IsRevoked(d) => IsRevoked(d)' \/ (d \in Hosts /\ SignedAgain(d))]_vars

\* Whoever got a certificate is in the database, so that get_cert and revoke
\* reach it: the row is stored before the answer goes out, and no crash or
\* failure of a later handshake takes it away (both handlers).
GivenIsStored == \A d \in given : GetCert(d) # None

\* register_cert_identity writes the certificate "to record the device's MQTT
\* identity": when no handshake is going on, the record is the certificate
\* that the database has for the device.
RecordIsCurrent ==
    (\A w \in Workers : work[w] = Idle) =>
        \A h \in Hosts : files.crt[h] # None => files.crt[h] = GetCert(h)
=============================================================================
