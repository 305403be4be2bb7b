------------------------- MODULE CertAuthorityProofs ------------------------
(***************************************************************************)
(* Proofs about CertAuthority, for any sets of keys, devices and clients   *)
(* and any number of connections served at a time.                         *)
(***************************************************************************)
EXTENDS CertAuthority, TLAPS

Ids == Hosts \cup Clients
Db == [ca : Keys \cup {None}, node : Cert \cup {None},
       certs : [Hosts \cup Clients -> Row \cup {None}]]
Files == [dir : BOOLEAN, crt : [Names -> Cert \cup {None}],
          key : [{"broker", "client"} -> Keys \cup {None}]]
Handshake == [at : {"signed", "detached"}, host : Hosts, cert : Cert]

(***************************************************************************)
(* Types.                                                                  *)
(***************************************************************************)

\* The parts of the state, as TypeOK has them.
LEMMA Parts ==
    ASSUME TypeOK
    PROVE  /\ db.ca \in Keys \cup {None} /\ db.node \in Cert \cup {None}
           /\ \A d \in Ids : db.certs[d] \in Row \cup {None}
           /\ made \in Cert \cup {None}
           /\ \A w \in Workers : work[w] # Idle =>
                 /\ work[w].at \in {"signed", "detached"}
                 /\ work[w].host \in Hosts /\ work[w].cert \in Cert
<1>1. db.ca \in Keys \cup {None} /\ db.node \in Cert \cup {None} /\ db.certs \in [Ids -> Row \cup {None}]
  BY DEF TypeOK, Ids
<1>2. \A w \in Workers : work[w] # Idle => work[w] \in Handshake
  BY DEF TypeOK, Handshake
<1>3. made \in Cert \cup {None}
  BY DEF TypeOK
<1> QED
  BY <1>1, <1>2, <1>3 DEF Handshake

\* sign_csr replaces one row and leaves the CA and the node identity alone.
LEMMA UpsertRow ==
    ASSUME TypeOK, NEW id \in Ids, NEW c \in Cert
    PROVE  LET u == Upsert(id, c)
           IN  /\ u \in Db
               /\ u.ca = db.ca /\ u.node = db.node
               /\ u.certs[id] = [cert |-> c, revoked |-> FALSE]
               /\ \A d \in Ids \ {id} : u.certs[d] = db.certs[d]
<1>1. [cert |-> c, revoked |-> FALSE] \in Row
  BY DEF Row
<1> QED
  BY <1>1, Zenon DEF TypeOK, Upsert, Ids, Db

\* Writing one certificate file, or truncating it, leaves the others alone.
LEMMA WriteCrt ==
    ASSUME NEW f \in Files, NEW n \in Names, NEW c \in Cert \cup {None}
    PROVE  LET g == [f EXCEPT !.crt[n] = c]
           IN  /\ g \in Files /\ g.key = f.key
               /\ g.crt[n] = c
               /\ \A m \in Names \ {n} : g.crt[m] = f.crt[m]
BY DEF Files

\* Writing one key file.
LEMMA WriteKey ==
    ASSUME NEW f \in Files, NEW n \in {"broker", "client"}, NEW k \in Keys
    PROVE  LET g == [f EXCEPT !.key[n] = k]
           IN  /\ g \in Files /\ g.crt = f.crt
               /\ g.key[n] = k
               /\ \A m \in {"broker", "client"} \ {n} : g.key[m] = f.key[m]
BY DEF Files

\* What a crash leaves of the files.
LEMMA CrashFiles ==
    ASSUME NEW f \in Files, NEW c, NEW k, NEW b \in BOOLEAN
    PROVE  LET g == [dir |-> b, crt |-> Truncated(f.crt, c), key |-> Truncated(f.key, k)]
           IN  g \in Files /\ \A n \in Names : g.crt[n] \in {f.crt[n], None}
BY DEF Files, Truncated

\* The fixed names of the directory.
LEMMA FixedNames == {"ca", "broker", "client"} \subseteq Names /\ Hosts \subseteq Names
BY DEF Names

\* What the generators of keys return (rcgen's KeyPair::generate).
LEMMA NewKeysFresh ==
    ASSUME NEW pool, pool \subseteq Keys, NEW k \in NewKeys(pool)
    PROVE  k \in Keys
BY DEF NewKeys

\* A certificate that is made has a key and a CA.
LEMMA MadeCert ==
    ASSUME NEW k \in Keys, NEW a \in Keys
    PROVE  /\ [key |-> k, ca |-> a] \in Cert
           /\ [key |-> k, ca |-> a].key = k /\ [key |-> k, ca |-> a].ca = a
BY DEF Cert

\* Once the CA is loaded it is there until the process ends, and handshakes go
\* on only while the gateway serves (App::initialize runs before the gateway).
CaLoaded ==
    /\ phase \notin {"down", "ca"} => db.ca # None
    /\ phase # "serving" => \A w \in Workers : work[w] = Idle
    /\ phase \in {"broker cert", "broker key", "node cert", "node key"} => made # None

\* Every step of initialize and of the handlers keeps the state well formed.
LEMMA TypeStep == ASSUME TypeOK, CaLoaded, [Next]_vars PROVE TypeOK' /\ CaLoaded'
<1>t. /\ db \in Db /\ files \in Files /\ phase \in Steps /\ mode \in Modes
      /\ work \in [Workers -> {Idle} \cup Handshake] /\ made \in Cert \cup {None}
      /\ given \subseteq Ids
  BY DEF TypeOK, Db, Files, Handshake, Ids
<1>n. Idle \in {Idle} \cup Handshake
  OBVIOUS
<1>p. CaKeys \subseteq Keys /\ BrokerKeys \subseteq Keys /\ NodeKeys \subseteq Keys
      /\ DeviceKeys \subseteq Keys /\ ClientKeys \subseteq Keys
  BY DEF Keys
<1>a. AfterBroker \in {"node", "serving"}
  BY DEF AfterBroker
<1>0. CASE UNCHANGED vars
  <2>1. /\ db' = db /\ files' = files /\ phase' = phase /\ made' = made
        /\ mode' = mode /\ work' = work /\ given' = given
    BY <1>0 DEF vars
  <2>2. TypeOK'
    BY <2>1 DEF TypeOK
  <2>3. CaLoaded'
    BY <2>1 DEF CaLoaded
  <2> QED
    BY <2>2, <2>3
<1>1. ASSUME NEW m \in Modes, Boot(m) PROVE TypeOK' /\ CaLoaded'
  BY <1>1 DEF Boot, TypeOK, CaLoaded, Steps
<1>2. CASE LoadOrGenerateCa
  <2>1. PICK k \in CaChoices : db' = [db EXCEPT !.ca = k]
    BY <1>2 DEF LoadOrGenerateCa
  <2>2. k \in Keys /\ k # None
    BY <1>t, <1>p, <2>1, NewKeysFresh, NoneIsNoKey DEF CaChoices, Db
  <2>3. db' \in Db /\ db'.ca = k
    BY <1>t, <2>1, <2>2 DEF Db
  <2>4. phase' \in {"broker ca", "node", "serving"}
    BY <1>2, <1>a DEF LoadOrGenerateCa
  <2>5. TypeOK'
    BY <1>2, <2>3, <2>4 DEF LoadOrGenerateCa, TypeOK, Db, Steps
  <2> QED
    BY <1>2, <2>2, <2>3, <2>4, <2>5 DEF LoadOrGenerateCa, CaLoaded
<1>3. CASE WriteBrokerCa
  <2>1. PICK k \in NewKeys(BrokerKeys) : made' = [key |-> k, ca |-> db.ca]
    BY <1>3 DEF WriteBrokerCa
  <2>2. k \in Keys /\ db.ca \in Keys
    BY <1>3, <1>t, <1>p, NewKeysFresh DEF WriteBrokerCa, CaLoaded, Db
  <2>3. made' \in Cert /\ made' # None
    BY <2>1, <2>2, MadeCert, NoneIsNoRow
  <2>4. files' \in Files
    <3>1. [key |-> db.ca, ca |-> db.ca] \in Cert
      BY <2>2, MadeCert
    <3> QED
      BY <1>3, <1>t, <3>1, FixedNames DEF WriteBrokerCa, Files
  <2> QED
    BY <1>3, <2>3, <2>4 DEF WriteBrokerCa, TypeOK, CaLoaded, Files, Steps
<1>4. CASE WriteBrokerCert
  <2>1. files' \in Files
    BY <1>4, <1>t, WriteCrt, FixedNames DEF WriteBrokerCert, FreshBrokerCert
  <2> QED
    BY <1>4, <2>1 DEF WriteBrokerCert, TypeOK, CaLoaded, Files, Steps
<1>5. CASE WriteBrokerKey \/ WriteNodeKey
  <2>1. made.key \in Keys
    BY <1>5, <1>t DEF WriteBrokerKey, WriteNodeKey, CaLoaded, Cert
  <2>2. files' \in Files
    <3>1. ASSUME NEW n \in {"broker", "client"}, files' = [files EXCEPT !.key[n] = made.key]
          PROVE  files' \in Files
      BY <1>t, <2>1, <3>1, WriteKey
    <3> QED
      BY <1>5, <3>1, Zenon DEF WriteBrokerKey, WriteNodeKey
  <2> QED
    BY <1>5, <1>a, <2>2 DEF WriteBrokerKey, WriteNodeKey, TypeOK, CaLoaded, Files, Steps
<1>6. CASE EnsureNodeIdentity
  <2>1. PICK n \in NodeChoices : db' = [db EXCEPT !.node = n] /\ made' = n
    BY <1>6 DEF EnsureNodeIdentity
  <2>2. db.ca \in Keys
    BY <1>6, <1>t DEF EnsureNodeIdentity, CaLoaded, Db
  <2>3. [key : NewKeys(NodeKeys), ca : {db.ca}] \subseteq Cert
    BY <1>p, <2>2, NewKeysFresh DEF Cert
  <2>4. n \in Cert /\ n # None
    BY <1>t, <2>1, <2>3, NoneIsNoRow DEF NodeChoices, Db
  <2>5. db' \in Db /\ db'.ca = db.ca
    BY <1>t, <2>1, <2>4 DEF Db
  <2> QED
    BY <1>6, <2>1, <2>4, <2>5 DEF EnsureNodeIdentity, TypeOK, CaLoaded, Db, Steps
<1>7. CASE WriteNodeCert
  <2>1. files' \in Files
    BY <1>7, <1>t, WriteCrt, FixedNames DEF WriteNodeCert
  <2> QED
    BY <1>7, <2>1 DEF WriteNodeCert, TypeOK, CaLoaded, Files, Steps
<1>8. CASE Crash
  <2>1. files' \in Files
    <3>1. PICK c \in SUBSET WritingCrt, k \in SUBSET WritingKey :
             files' = [dir |-> files.dir \/ c # {},
                       crt |-> Truncated(files.crt, c), key |-> Truncated(files.key, k)]
      BY <1>8 DEF Crash
    <3>2. (files.dir \/ c # {}) \in BOOLEAN
      OBVIOUS
    <3> QED
      BY <1>t, <3>1, <3>2, CrashFiles
  <2> QED
    BY <1>8, <2>1 DEF Crash, TypeOK, CaLoaded, Steps, Files
<1>9. ASSUME NEW w \in Workers, NEW h \in Hosts, DeviceInit(w, h) PROVE TypeOK' /\ CaLoaded'
  <2>1. PICK k \in DeviceKeys :
           /\ db' = Upsert(h, [key |-> k, ca |-> db.ca])
           /\ work' = [work EXCEPT ![w] = [at |-> "signed", host |-> h,
                                           cert |-> [key |-> k, ca |-> db.ca]]]
    BY <1>9, Zenon DEF DeviceInit
  <2>2. [key |-> k, ca |-> db.ca] \in Cert
    BY <1>9, <1>t, <1>p, MadeCert DEF DeviceInit, CaLoaded, Db
  <2>3. db' \in Db /\ db'.ca = db.ca
    BY <2>1, <2>2, UpsertRow, Zenon DEF Ids
  <2>4. work' \in [Workers -> {Idle} \cup Handshake]
    BY <1>t, <2>1, <2>2 DEF Handshake
  <2> QED
    BY <1>9, <2>3, <2>4 DEF DeviceInit, TypeOK, CaLoaded, Db, Handshake
<1>10. ASSUME NEW w \in Workers, RegisterCertIdentity(w) PROVE TypeOK' /\ CaLoaded'
  <2>1. work[w].host \in Hosts /\ work[w].cert \in Cert
    BY <1>10, Parts DEF RegisterCertIdentity
  <2>2. files' \in Files
    BY <1>10, <1>t, <2>1, WriteCrt, FixedNames DEF RegisterCertIdentity
  <2>3. work' \in [Workers -> {Idle} \cup Handshake] /\ given' \subseteq Ids
    BY <1>10, <1>t, <2>1 DEF RegisterCertIdentity, Ids
  <2> QED
    BY <1>10, <2>2, <2>3 DEF RegisterCertIdentity, TypeOK, CaLoaded, Files, Handshake, Ids
<1>11. ASSUME NEW w \in Workers, RegisterFails(w) \/ ConnectionCloses(w) PROVE TypeOK' /\ CaLoaded'
  <2>1. work[w] \in Handshake /\ [work[w] EXCEPT !.at = "detached"] \in Handshake
    BY <1>11, <1>t DEF RegisterFails, ConnectionCloses, Handshake
  <2>2. work' \in [Workers -> {Idle} \cup Handshake]
    BY <1>11, <1>t, <2>1 DEF RegisterFails, ConnectionCloses
  <2>3. files' \in Files
    <3>1. work[w].host \in Names
      BY <2>1, FixedNames DEF Handshake
    <3> QED
      BY <1>11, <1>t, <3>1, WriteCrt DEF RegisterFails, ConnectionCloses
  <2> QED
    BY <1>11, <2>2, <2>3 DEF RegisterFails, ConnectionCloses, TypeOK, CaLoaded, Handshake, Files
<1>12. ASSUME NEW w \in Workers, NEW c \in Clients, ClientRegister(w, c) PROVE TypeOK' /\ CaLoaded'
  <2>1. PICK k \in ClientKeys : db' = Upsert(c, [key |-> k, ca |-> db.ca])
    BY <1>12 DEF ClientRegister
  <2>2. [key |-> k, ca |-> db.ca] \in Cert
    BY <1>12, <1>t, <1>p, MadeCert DEF ClientRegister, CaLoaded, Db
  <2>3. db' \in Db /\ db'.ca = db.ca
    BY <2>1, <2>2, UpsertRow, Zenon DEF Ids
  <2> QED
    BY <1>12, <2>3 DEF ClientRegister, TypeOK, CaLoaded, Db, Ids
<1>13. ASSUME NEW d \in Ids, Revoke(d) PROVE TypeOK' /\ CaLoaded'
  <2>1. db.certs[d] \in Row /\ [db.certs[d] EXCEPT !.revoked = TRUE] \in Row
    BY <1>13, Parts, Zenon DEF Revoke, Row
  <2>2. db' \in Db /\ db'.ca = db.ca
    BY <1>13, <1>t, <2>1, Zenon DEF Revoke, Db, Ids
  <2> QED
    BY <1>13, <2>2, Zenon DEF Revoke, TypeOK, CaLoaded, Db
<1> QED
  BY <1>0, <1>1, <1>2, <1>3, <1>4, <1>5, <1>6, <1>7, <1>8, <1>9, <1>10, <1>11, <1>12, <1>13
  DEF Next, Provision, Handle, Ids

\* Every reachable state is well formed, and the CA is there once it was loaded.
THEOREM TypeCorrect == Spec => [](TypeOK /\ CaLoaded)
<1>1. Init => TypeOK /\ CaLoaded
  BY DEF Init, TypeOK, CaLoaded, Steps, Modes
<1> QED
  BY <1>1, TypeStep, PTL DEF Spec

(***************************************************************************)
(* What each step does to the database.                                    *)
(***************************************************************************)

\* Only load_or_generate_ca sets the CA, and only if there was none.
LEMMA CaKept ==
    ASSUME TypeOK, CaLoaded, [Next]_vars
    PROVE  db.ca # None => db'.ca = db.ca
<1>1. CASE UNCHANGED db
  BY <1>1
<1>2. CASE LoadOrGenerateCa
  BY <1>2 DEF LoadOrGenerateCa, CaChoices, TypeOK
<1>3. CASE EnsureNodeIdentity
  BY <1>3 DEF EnsureNodeIdentity, TypeOK
<1>4. ASSUME NEW id \in Ids, NEW c, db' = Upsert(id, c) PROVE db'.ca = db.ca
  BY <1>4 DEF Upsert, TypeOK
<1>5. ASSUME NEW d \in Ids, Revoke(d) PROVE db'.ca = db.ca
  BY <1>5 DEF Revoke, TypeOK
<1> QED
  BY <1>1, <1>2, <1>3, <1>4, <1>5
  DEF Next, vars, Boot, Provision, Handle, WriteBrokerCa, WriteBrokerCert, WriteBrokerKey,
      WriteNodeCert, WriteNodeKey, Crash, DeviceInit, RegisterCertIdentity, RegisterFails,
      ConnectionCloses, ClientRegister, Ids

\* ensure_node_identity: a stored identity is used again.
LEMMA NodeKept ==
    ASSUME TypeOK, [Next]_vars
    PROVE  db.node # None => db'.node = db.node
<1>1. CASE UNCHANGED db
  BY <1>1
<1>2. CASE LoadOrGenerateCa
  BY <1>2 DEF LoadOrGenerateCa, TypeOK
<1>3. CASE EnsureNodeIdentity
  BY <1>3 DEF EnsureNodeIdentity, NodeChoices, TypeOK
<1>4. ASSUME NEW id \in Ids, NEW c, db' = Upsert(id, c) PROVE db'.node = db.node
  BY <1>4 DEF Upsert, TypeOK
<1>5. ASSUME NEW d \in Ids, Revoke(d) PROVE db'.node = db.node
  BY <1>5 DEF Revoke, TypeOK
<1> QED
  BY <1>1, <1>2, <1>3, <1>4, <1>5
  DEF Next, vars, Boot, Provision, Handle, WriteBrokerCa, WriteBrokerCert, WriteBrokerKey,
      WriteNodeCert, WriteNodeKey, Crash, DeviceInit, RegisterCertIdentity, RegisterFails,
      ConnectionCloses, ClientRegister, Ids

\* The node's identity survives restarts, crashes and changes of the
\* configuration (ensure_node_identity).
THEOREM NodeIdentityKept == Spec => NodeIdentityStable
<1>1. TypeOK /\ [Next]_vars => [db.node # None => db'.node = db.node]_vars
  BY NodeKept
<1>2. Spec => [][db.node # None => db'.node = db.node]_vars
  BY <1>1, TypeCorrect, PTL DEF Spec
<1> QED
  BY <1>2 DEF NodeIdentityStable

\* A step that writes device_certs writes one row.  Its certificate is that of a
\* handshake which begins, or the row is a new one, or it is now revoked (sign_csr
\* and revoke).
RowSigned(d) ==
    /\ db'.certs[d] \in Row /\ db'.certs[d].revoked = FALSE
    /\ db'.certs[d].cert.ca = db.ca /\ db'.ca = db.ca
RowRevoked(d) ==
    /\ db.certs[d] # None /\ db'.certs[d] \in Row /\ db'.ca = db.ca
    /\ db'.certs[d].revoked = TRUE /\ db'.certs[d].cert = db.certs[d].cert
LEMMA CertsChange ==
    ASSUME TypeOK, CaLoaded, [Next]_vars, NEW d \in Ids
    PROVE  \/ db'.certs[d] = db.certs[d]
           \/ RowSigned(d) /\ (db.certs[d] = None \/ (d \in Hosts /\ SignedAgain(d)))
           \/ RowRevoked(d)
<1> DEFINE Goal == \/ db'.certs[d] = db.certs[d]
                   \/ RowSigned(d) /\ (db.certs[d] = None \/ (d \in Hosts /\ SignedAgain(d)))
                   \/ RowRevoked(d)
<1>p. DeviceKeys \subseteq Keys /\ ClientKeys \subseteq Keys
  BY DEF Keys
<1>1. CASE UNCHANGED db
  BY <1>1
<1>2. CASE LoadOrGenerateCa
  BY <1>2 DEF LoadOrGenerateCa, TypeOK
<1>3. CASE EnsureNodeIdentity
  BY <1>3 DEF EnsureNodeIdentity, TypeOK
<1>4. ASSUME NEW id \in Ids, NEW k \in Keys, db.ca \in Keys,
             db' = Upsert(id, [key |-> k, ca |-> db.ca])
      PROVE  /\ RowSigned(id) /\ GetCert(id)' = [key |-> k, ca |-> db.ca]
             /\ d # id => db'.certs[d] = db.certs[d]
  <2> DEFINE c == [key |-> k, ca |-> db.ca]
  <2>1. c \in Cert /\ c.key = k /\ c.ca = db.ca
    BY <1>4, MadeCert
  <2> HIDE DEF c
  <2>2. /\ db'.ca = db.ca /\ db'.certs[id] = [cert |-> c, revoked |-> FALSE]
        /\ \A e \in Ids \ {id} : db'.certs[e] = db.certs[e]
    BY <1>4, <2>1, UpsertRow DEF c
  <2>3. [cert |-> c, revoked |-> FALSE] \in Row
    BY <2>1 DEF Row
  <2>4. db'.certs[id] \in Row /\ db'.certs[id].revoked = FALSE /\ db'.certs[id].cert = c
    BY <2>2, <2>3
  <2>5. GetCert(id)' = c
    BY <2>4, NoneIsNoRow DEF GetCert
  <2>6. GetCert(id)' = [key |-> k, ca |-> db.ca]
    BY <2>5 DEF c
  <2>7. RowSigned(id)
    BY <2>1, <2>2, <2>4 DEF RowSigned
  <2>8. d # id => db'.certs[d] = db.certs[d]
    BY <2>2
  <2> QED
    BY <2>6, <2>7, <2>8
<1>5. ASSUME NEW e \in Ids, Revoke(e) PROVE Goal
  <2>1. /\ db.certs[e] \in Row /\ db.certs[e] # None
        /\ [db.certs[e] EXCEPT !.revoked = TRUE] \in Row
        /\ [db.certs[e] EXCEPT !.revoked = TRUE].revoked = TRUE
        /\ [db.certs[e] EXCEPT !.revoked = TRUE].cert = db.certs[e].cert
    BY <1>5, Parts, Zenon DEF Revoke, Row
  <2>2. /\ db'.ca = db.ca /\ db'.certs[e] = [db.certs[e] EXCEPT !.revoked = TRUE]
        /\ \A f \in Ids \ {e} : db'.certs[f] = db.certs[f]
    BY <1>5, Zenon DEF Revoke, TypeOK, Ids
  <2>3. CASE d = e
    BY <2>1, <2>2, <2>3, Zenon DEF RowRevoked
  <2>4. CASE d # e
    BY <2>2, <2>4
  <2> QED
    BY <2>3, <2>4
<1>6. ASSUME NEW w \in Workers, NEW h \in Hosts, DeviceInit(w, h) PROVE Goal
  <2>1. db.ca \in Keys
    BY <1>6, Parts DEF DeviceInit, CaLoaded
  <2>2. PICK k \in DeviceKeys :
           /\ db' = Upsert(h, [key |-> k, ca |-> db.ca])
           /\ work' = [work EXCEPT ![w] = [at |-> "signed", host |-> h,
                                           cert |-> [key |-> k, ca |-> db.ca]]]
    BY <1>6, Zenon DEF DeviceInit
  <2>3. k \in Keys /\ h \in Ids
    BY <1>p DEF Ids
  <2>4. /\ RowSigned(h) /\ GetCert(h)' = [key |-> k, ca |-> db.ca]
        /\ d # h => db'.certs[d] = db.certs[d]
    BY <1>4, <2>1, <2>2, <2>3, Zenon
  <2>5. SignedAgain(h)
    <3>1. /\ work[w] = Idle
          /\ work'[w] = [at |-> "signed", host |-> h, cert |-> [key |-> k, ca |-> db.ca]]
      BY <1>6, <2>2 DEF DeviceInit, TypeOK
    <3>2. work'[w].host = h /\ work'[w].cert = [key |-> k, ca |-> db.ca] /\ work'[w].at = "signed"
      BY <3>1
    <3>3. work'[w] # Idle
      BY <3>2 DEF Idle
    <3> QED
      BY <2>4, <3>1, <3>2, <3>3, Zenon DEF SignedAgain
  <2>6. CASE d = h
    BY <2>4, <2>5, <2>6, Zenon
  <2>7. CASE d # h
    BY <2>4, <2>7
  <2> QED
    BY <2>6, <2>7
<1>7. ASSUME NEW w \in Workers, NEW c \in Clients, ClientRegister(w, c) PROVE Goal
  <2>1. db.ca \in Keys /\ db.certs[c] = None
    BY <1>7, Parts DEF ClientRegister, CaLoaded
  <2>2. PICK k \in ClientKeys : db' = Upsert(c, [key |-> k, ca |-> db.ca])
    BY <1>7 DEF ClientRegister
  <2>3. k \in Keys /\ c \in Ids
    BY <1>p DEF Ids
  <2>4. RowSigned(c) /\ (d # c => db'.certs[d] = db.certs[d])
    BY <1>4, <2>1, <2>2, <2>3, Zenon
  <2>5. CASE d = c
    BY <2>1, <2>4, <2>5, Zenon
  <2>6. CASE d # c
    BY <2>4, <2>6
  <2> QED
    BY <2>5, <2>6
<1> QED
  BY <1>1, <1>2, <1>3, <1>5, <1>6, <1>7
  DEF Next, vars, Boot, Provision, Handle, WriteBrokerCa, WriteBrokerCert, WriteBrokerKey,
      WriteNodeCert, WriteNodeKey, Crash, RegisterCertIdentity, RegisterFails,
      ConnectionCloses, Ids

\* Only the next handshake of the same device takes a revocation back; crashes,
\* restarts and the handshakes of others do not, and nothing takes back that of a
\* client (revoke, and sign_csr on the same row).
THEOREM RevokedStays == Spec => RevocationHolds
<1> DEFINE A == \A d \in Hosts \cup Clients :
                  IsRevoked(d) => IsRevoked(d)' \/ (d \in Hosts /\ SignedAgain(d))
<1>1. ASSUME TypeOK, CaLoaded, [Next]_vars PROVE A
  <2> SUFFICES ASSUME NEW d \in Ids, IsRevoked(d)
               PROVE  IsRevoked(d)' \/ (d \in Hosts /\ SignedAgain(d))
    BY DEF Ids
  <2>1. db.certs[d] # None /\ db.certs[d].revoked
    BY DEF IsRevoked
  <2>2. CASE db'.certs[d] = db.certs[d]
    BY <2>1, <2>2 DEF IsRevoked
  <2>3. CASE RowRevoked(d)
    BY <2>3, NoneIsNoRow DEF IsRevoked, RowRevoked
  <2>4. CASE RowSigned(d) /\ (db.certs[d] = None \/ (d \in Hosts /\ SignedAgain(d)))
    BY <2>1, <2>4, Zenon
  <2> QED
    BY <1>1, <2>2, <2>3, <2>4, CertsChange, Zenon
<1> HIDE DEF A
<1>2. Spec => [][A]_vars
  BY <1>1, TypeCorrect, PTL DEF Spec
<1> QED
  BY <1>2 DEF A, RevocationHolds

(***************************************************************************)
(* Who was given a certificate is in the database.                         *)
(***************************************************************************)

\* A device whose handshake is under way has its row already.
StoredInv ==
    /\ GivenIsStored
    /\ \A w \in Workers : work[w] # Idle => GetCert(work[w].host) # None

\* Rows are replaced and never deleted.
LEMMA RowsStay ==
    ASSUME TypeOK, CaLoaded, [Next]_vars, NEW d \in Ids, GetCert(d) # None
    PROVE  GetCert(d)' # None
<1>1. db.certs[d] # None
  BY DEF GetCert
<1>2. db'.certs[d] = db.certs[d] \/ db'.certs[d] \in Row
  BY CertsChange, Zenon DEF RowSigned, RowRevoked
<1>3. CASE db'.certs[d] = db.certs[d]
  BY <1>1, <1>3 DEF GetCert
<1>4. CASE db'.certs[d] \in Row
  BY <1>4, NoneIsNoRow DEF GetCert, Row
<1> QED
  BY <1>2, <1>3, <1>4

\* The row is written before the answer goes out, in both handlers.
LEMMA StoredStep == ASSUME TypeOK, CaLoaded, StoredInv, [Next]_vars PROVE StoredInv'
<1>t. given \subseteq Ids /\ \A w \in Workers : work[w] # Idle => work[w].host \in Ids
  BY Parts DEF TypeOK, Ids
<1>s. /\ \A d \in given : d \in Ids /\ GetCert(d)' # None
      /\ \A w \in Workers, d \in Ids :
            work[w] # Idle /\ work[w].host = d => GetCert(d)' # None
  <2>1. \A d \in Ids : GetCert(d) # None => GetCert(d)' # None
    BY RowsStay
  <2>2. \A d \in given : d \in Ids /\ GetCert(d) # None
    BY <1>t DEF StoredInv, GivenIsStored
  <2>3. \A w \in Workers, d \in Ids : work[w] # Idle /\ work[w].host = d => GetCert(d) # None
    BY DEF StoredInv
  <2> QED
    BY <2>1, <2>2, <2>3
<1>n. \A h \in Ids, c \in Cert : db' = Upsert(h, c) => GetCert(h)' # None
  <2> SUFFICES ASSUME NEW h \in Ids, NEW c \in Cert, db' = Upsert(h, c) PROVE GetCert(h)' # None
    OBVIOUS
  <2>1. db'.certs[h] = [cert |-> c, revoked |-> FALSE]
    BY UpsertRow
  <2>2. db'.certs[h] \in Row /\ db'.certs[h].cert = c
    BY <2>1 DEF Row
  <2> QED
    BY <2>2, NoneIsNoRow DEF GetCert
<1>p. DeviceKeys \subseteq Keys /\ ClientKeys \subseteq Keys
  BY DEF Keys
<1>1. CASE UNCHANGED <<work, given>>
  BY <1>1, <1>s, <1>t DEF StoredInv, GivenIsStored, GetCert
<1>2. CASE Crash
  BY <1>2, <1>s DEF Crash, StoredInv, GivenIsStored, GetCert
<1>3. ASSUME NEW w \in Workers, NEW h \in Hosts, DeviceInit(w, h) PROVE StoredInv'
  <2>1. PICK k \in DeviceKeys :
           /\ db' = Upsert(h, [key |-> k, ca |-> db.ca])
           /\ work' = [work EXCEPT ![w] = [at |-> "signed", host |-> h,
                                           cert |-> [key |-> k, ca |-> db.ca]]]
    BY <1>3, Zenon DEF DeviceInit
  <2>2. [key |-> k, ca |-> db.ca] \in Cert
    BY <1>3, <1>p, Parts, MadeCert DEF DeviceInit, CaLoaded
  <2>3. GetCert(h)' # None
    BY <2>1, <2>2, <1>n DEF Ids
  <2>4. /\ work'[w].host = h /\ \A v \in Workers \ {w} : work'[v] = work[v]
        /\ given' = given
    BY <1>3, <2>1 DEF TypeOK, DeviceInit
  <2> QED
    BY <2>3, <2>4, <1>s, <1>t DEF StoredInv, GivenIsStored, GetCert
<1>4. ASSUME NEW w \in Workers, RegisterCertIdentity(w) PROVE StoredInv'
  <2>1. /\ given' \subseteq given \cup {work[w].host} /\ work[w] # Idle
        /\ work'[w] = Idle /\ \A v \in Workers \ {w} : work'[v] = work[v]
    BY <1>4 DEF RegisterCertIdentity, TypeOK
  <2> QED
    BY <2>1, <1>s, <1>t DEF StoredInv, GivenIsStored, GetCert
<1>5. ASSUME NEW w \in Workers, RegisterFails(w) \/ ConnectionCloses(w) PROVE StoredInv'
  <2>1. /\ given' = given /\ work[w] # Idle
        /\ work'[w] \in {Idle, [work[w] EXCEPT !.at = "detached"]}
        /\ \A v \in Workers \ {w} : work'[v] = work[v]
    BY <1>5 DEF RegisterFails, ConnectionCloses, TypeOK
  <2>2. [work[w] EXCEPT !.at = "detached"].host = work[w].host
    BY <2>1 DEF TypeOK
  <2>3. \A v \in Workers : work'[v] # Idle => work[v] # Idle /\ work'[v].host = work[v].host
    BY <2>1, <2>2, Zenon
  <2>4. \A v \in Workers : work'[v] # Idle => GetCert(work[v].host)' # None
    <3> SUFFICES ASSUME NEW v \in Workers, work'[v] # Idle PROVE GetCert(work[v].host)' # None
      OBVIOUS
    <3>1. PICK d \in Ids : d = work[v].host
      BY <2>3, <1>t
    <3>2. GetCert(d)' # None /\ work'[v].host = d
      BY <3>1, <2>3, <1>s
    <3> QED
      BY <3>2 DEF GetCert
  <2>5. GivenIsStored'
    BY <2>1, <1>s DEF GivenIsStored, GetCert
  <2> QED
    BY <2>4, <2>5 DEF StoredInv
<1>6. ASSUME NEW w \in Workers, NEW c \in Clients, ClientRegister(w, c) PROVE StoredInv'
  <2>1. PICK k \in ClientKeys : db' = Upsert(c, [key |-> k, ca |-> db.ca])
    BY <1>6 DEF ClientRegister
  <2>2. [key |-> k, ca |-> db.ca] \in Cert
    BY <1>6, <1>p, Parts, MadeCert DEF ClientRegister, CaLoaded
  <2>3. GetCert(c)' # None
    BY <2>1, <2>2, <1>n DEF Ids
  <2>4. work' = work /\ given' \subseteq given \cup {c}
    BY <1>6 DEF ClientRegister
  <2> QED
    BY <2>3, <2>4, <1>s, <1>t DEF StoredInv, GivenIsStored, GetCert
<1> QED
  BY <1>1, <1>2, <1>3, <1>4, <1>5, <1>6
  DEF Next, vars, Boot, Provision, Handle, LoadOrGenerateCa, WriteBrokerCa, WriteBrokerCert,
      WriteBrokerKey, EnsureNodeIdentity, WriteNodeCert, WriteNodeKey, Revoke

\* Whoever was sent a certificate can be looked up and revoked (handle_device_init
\* and handle_client_register store before they answer; nothing deletes a row).
THEOREM GivenStored == Spec => []GivenIsStored
<1>1. Init => StoredInv
  BY DEF Init, StoredInv, GivenIsStored
<1>2. StoredInv => GivenIsStored
  BY DEF StoredInv
<1> QED
  BY <1>1, <1>2, TypeCorrect, StoredStep, PTL DEF Spec

(***************************************************************************)
(* Certificates chain to the stored CA, and files fit together.            *)
(***************************************************************************)

\* While a CA was never stored nothing signed by one can exist: a certificate
\* names its CA's key, and None is no key.
LEMMA NothingWithoutCa ==
    ASSUME TypeOK, ChainsToStoredCa, db.ca = None
    PROVE  /\ db.node = None /\ \A d \in Ids : db.certs[d] = None
           /\ \A n \in Names : files.crt[n] = None
<1>1. \A c \in Cert : c.ca # None
  BY NoneIsNoKey DEF Cert
<1>2. \A n \in Names : files.crt[n] \in Cert \cup {None}
  BY DEF TypeOK
<1> QED
  BY <1>1, <1>2, Parts DEF ChainsToStoredCa, Row, Ids

\* The identity that initialize is about to write is signed by the stored CA.
MadeInv == made # None => made.ca = db.ca

\* Every certificate made, and every one written, is signed by the stored CA.
LEMMA ChainsStep ==
    ASSUME TypeOK, CaLoaded, ChainsToStoredCa, MadeInv, [Next]_vars
    PROVE  ChainsToStoredCa' /\ MadeInv'
<1>c. \A d \in Ids : db'.certs[d] # None => db'.certs[d].cert.ca = db'.ca
  <2> SUFFICES ASSUME NEW d \in Ids, db'.certs[d] # None PROVE db'.certs[d].cert.ca = db'.ca
    OBVIOUS
  <2>1. CASE db'.certs[d] = db.certs[d]
    BY <2>1, CaKept, NothingWithoutCa DEF ChainsToStoredCa, Ids
  <2>2. CASE RowSigned(d)
    BY <2>2 DEF RowSigned
  <2>3. CASE RowRevoked(d)
    BY <2>3 DEF RowRevoked, ChainsToStoredCa, Ids
  <2> QED
    BY <2>1, <2>2, <2>3, CertsChange, Zenon
<1>n. db'.node # None => db'.node.ca = db'.ca
  <2>1. CASE EnsureNodeIdentity
    <3>1. PICK n \in NodeChoices : db' = [db EXCEPT !.node = n]
      BY <2>1 DEF EnsureNodeIdentity
    <3>2. db'.node = n /\ db'.ca = db.ca
      BY <3>1 DEF TypeOK
    <3>3. n.ca = db.ca
      BY <3>1 DEF NodeChoices, ChainsToStoredCa
    <3> QED
      BY <3>2, <3>3
  <2>2. CASE db'.node = db.node
    BY <2>2, CaKept, NothingWithoutCa DEF ChainsToStoredCa
  <2>3. CASE LoadOrGenerateCa
    BY <2>2, <2>3 DEF LoadOrGenerateCa, TypeOK
  <2>4. ASSUME NEW id \in Ids, NEW c, db' = Upsert(id, c) PROVE db'.node = db.node
    BY <2>4 DEF Upsert, TypeOK
  <2>5. ASSUME NEW d \in Ids, Revoke(d) PROVE db'.node = db.node
    BY <2>5 DEF Revoke, TypeOK
  <2> QED
    BY <2>1, <2>2, <2>3, <2>4, <2>5
    DEF Next, vars, Boot, Provision, Handle, WriteBrokerCa, WriteBrokerCert, WriteBrokerKey,
        WriteNodeCert, WriteNodeKey, Crash, DeviceInit, RegisterCertIdentity, RegisterFails,
        ConnectionCloses, ClientRegister, Ids
<1>f. \A n \in Names : files'.crt[n] # None => files'.crt[n].ca = db'.ca
  <2> DEFINE Goal == \A n \in Names : files'.crt[n] # None => files'.crt[n].ca = db'.ca
  <2>f. files \in Files
    BY DEF TypeOK, Files
  <2>0. ASSUME \A n \in Names : files'.crt[n] \in {files.crt[n], None} PROVE Goal
    BY <2>0, CaKept, NothingWithoutCa DEF ChainsToStoredCa
  <2>1. CASE files' = files \/ files'.crt = files.crt
    BY <2>1, CaKept, NothingWithoutCa DEF ChainsToStoredCa
  <2>2. ASSUME NEW n \in Names, NEW c \in Cert \cup {None}, c # None => c.ca = db.ca,
               files' = [files EXCEPT !.crt[n] = c], db' = db
        PROVE  Goal
    <3>1. files'.crt[n] = c /\ \A m \in Names \ {n} : files'.crt[m] = files.crt[m]
      BY <2>f, <2>2, WriteCrt
    <3> QED
      BY <2>2, <3>1 DEF ChainsToStoredCa
  <2>3. ASSUME NEW w \in Workers, RegisterCertIdentity(w) PROVE Goal
    <3>1. work[w].cert.ca = db.ca /\ work[w].cert \in Cert /\ work[w].host \in Names /\ db' = db
      BY <2>3, Parts, FixedNames DEF RegisterCertIdentity, ChainsToStoredCa
    <3> QED
      BY <2>1, <2>2, <2>3, <3>1 DEF RegisterCertIdentity
  <2>4. ASSUME NEW w \in Workers, RegisterFails(w) PROVE Goal
    <3>1. work[w].host \in Names /\ db' = db
      BY <2>4, Parts, FixedNames DEF RegisterFails
    <3> QED
      BY <2>1, <2>2, <2>4, <3>1 DEF RegisterFails
  <2>5. CASE WriteBrokerCa
    <3>1. db.ca \in Keys /\ db' = db
      BY <2>5, Parts DEF WriteBrokerCa, CaLoaded
    <3>2. [key |-> db.ca, ca |-> db.ca].ca = db.ca
      OBVIOUS
    <3>3. \A n \in Names : files'.crt[n] \in {files.crt[n], [key |-> db.ca, ca |-> db.ca]}
      BY <2>f, <2>5, FixedNames DEF WriteBrokerCa, Files
    <3> QED
      BY <3>1, <3>2, <3>3 DEF ChainsToStoredCa
  <2>6. CASE WriteBrokerCert \/ WriteNodeCert
    <3>1. made \in Cert /\ made.ca = db.ca /\ db' = db
      BY <2>6 DEF WriteBrokerCert, WriteNodeCert, CaLoaded, MadeInv, TypeOK
    <3>2. "broker" \in Names /\ "client" \in Names
      BY FixedNames
    <3> QED
      BY <2>2, <2>6, <3>1, <3>2 DEF WriteBrokerCert, FreshBrokerCert, WriteNodeCert
  <2>7. CASE WriteBrokerKey \/ WriteNodeKey
    <3>1. files'.crt = files.crt
      BY <2>f, <2>7 DEF WriteBrokerKey, WriteNodeKey, Files
    <3> QED
      BY <2>1, <3>1
  <2>8. CASE Crash
    <3>1. PICK c \in SUBSET WritingCrt, k \in SUBSET WritingKey :
             files' = [dir |-> files.dir \/ c # {},
                       crt |-> Truncated(files.crt, c), key |-> Truncated(files.key, k)]
      BY <2>8 DEF Crash
    <3>2. (files.dir \/ c # {}) \in BOOLEAN
      OBVIOUS
    <3>3. \A n \in Names : files'.crt[n] \in {files.crt[n], None}
      BY <2>f, <3>1, <3>2, CrashFiles
    <3> QED
      BY <2>0, <3>3
  <2> QED
    BY <2>1, <2>3, <2>4, <2>5, <2>6, <2>7, <2>8
    DEF Next, vars, Boot, Provision, Handle, LoadOrGenerateCa, EnsureNodeIdentity,
        DeviceInit, ConnectionCloses, ClientRegister, Revoke
<1>w. \A w \in Workers : work'[w] # Idle => work'[w].cert.ca = db'.ca
  <2>1. CASE work' = work
    <3>1. ASSUME NEW w \in Workers, work[w] # Idle PROVE work[w].cert.ca = db'.ca
      <4>1. phase = "serving" /\ db.ca # None
        BY <3>1 DEF CaLoaded
      <4> QED
        BY <3>1, <4>1, CaKept DEF ChainsToStoredCa
    <3> QED
      BY <2>1, <3>1
  <2>2. CASE Crash
    BY <2>2 DEF Crash
  <2>3. ASSUME NEW w \in Workers, NEW h \in Hosts, DeviceInit(w, h)
        PROVE  \A v \in Workers : work'[v] # Idle => work'[v].cert.ca = db'.ca
    <3>1. db.ca # None /\ db'.ca = db.ca
      BY <2>3, CaKept DEF DeviceInit, CaLoaded
    <3>2. work'[w].cert.ca = db.ca /\ \A v \in Workers \ {w} : work'[v] = work[v]
      BY <2>3 DEF DeviceInit, TypeOK
    <3> QED
      BY <3>1, <3>2 DEF ChainsToStoredCa
  <2>4. ASSUME NEW w \in Workers,
               RegisterCertIdentity(w) \/ RegisterFails(w) \/ ConnectionCloses(w)
        PROVE  \A v \in Workers : work'[v] # Idle => work'[v].cert.ca = db'.ca
    <3>1. /\ db' = db /\ work[w] # Idle
          /\ work'[w] \in {Idle, [work[w] EXCEPT !.at = "detached"]}
          /\ \A v \in Workers \ {w} : work'[v] = work[v]
      BY <2>4 DEF RegisterCertIdentity, RegisterFails, ConnectionCloses, TypeOK
    <3>2. [work[w] EXCEPT !.at = "detached"].cert = work[w].cert
      BY <3>1 DEF TypeOK
    <3>3. \A v \in Workers : work'[v] # Idle => work[v] # Idle /\ work'[v].cert = work[v].cert
      BY <3>1, <3>2, Zenon
    <3> QED
      BY <3>1, <3>3 DEF ChainsToStoredCa
  <2> QED
    BY <2>1, <2>2, <2>3, <2>4
    DEF Next, vars, Boot, Provision, Handle, LoadOrGenerateCa, WriteBrokerCa, WriteBrokerCert,
        WriteBrokerKey, EnsureNodeIdentity, WriteNodeCert, WriteNodeKey, ClientRegister, Revoke
<1>m. MadeInv'
  <2>1. CASE made' = None
    BY <2>1 DEF MadeInv
  <2>2. CASE WriteBrokerCa
    <3>1. PICK k \in NewKeys(BrokerKeys) : made' = [key |-> k, ca |-> db.ca]
      BY <2>2 DEF WriteBrokerCa
    <3>2. made'.ca = db.ca /\ db' = db
      BY <2>2, <3>1 DEF WriteBrokerCa
    <3> QED
      BY <3>2 DEF MadeInv
  <2>3. CASE EnsureNodeIdentity
    <3>1. made' = db'.node
      BY <2>3 DEF EnsureNodeIdentity, TypeOK
    <3> QED
      BY <3>1, <1>n DEF MadeInv
  <2>4. CASE made' = made
    <3>1. db.ca = None => made = None
      BY NoneIsNoKey DEF MadeInv, TypeOK, Cert
    <3> QED
      BY <2>4, <3>1, CaKept DEF MadeInv
  <2> QED
    BY <2>1, <2>2, <2>3, <2>4
    DEF Next, vars, Boot, Provision, Handle, LoadOrGenerateCa, WriteBrokerCert, WriteBrokerKey,
        WriteNodeCert, WriteNodeKey, Crash, DeviceInit, RegisterCertIdentity, RegisterFails,
        ConnectionCloses, ClientRegister, Revoke
<1> QED
  BY <1>c, <1>n, <1>f, <1>w, <1>m DEF ChainsToStoredCa, Ids

\* A restart never invalidates a certificate that is already in the field: all
\* chain to the CA in the database (load_or_generate_ca and whoever signs).
THEOREM ChainsHold == Spec => []ChainsToStoredCa
<1>1. Init => ChainsToStoredCa /\ MadeInv
  BY DEF Init, ChainsToStoredCa, MadeInv
<1> QED
  BY <1>1, TypeCorrect, ChainsStep, PTL DEF Spec

\* The files as initialize leaves them, step by step, and as the handlers do.
FilesInv ==
    /\ phase \in {"broker cert", "broker key"} => CaFits /\ made.ca = db.ca
    /\ phase = "broker key" => files.crt["broker"] = made
    /\ phase \in {"node", "node cert", "node key"} => CaFits /\ BrokerFits
    /\ phase \in {"node cert", "node key"} => made = db.node
    /\ phase = "node key" => files.crt["client"] = made
    /\ phase = "serving" =>
          /\ mode.broker => ("ca" \in Hosts \/ CaFits) /\ ("broker" \in Hosts \/ BrokerFits)
          /\ mode.client => ("client" \in Hosts \/ ClientFits)

\* All files that a start uses fit.
AllFit == (mode.broker => CaFits /\ BrokerFits) /\ (mode.client => ClientFits)

\* A handler writes the file of a host, and no other.
LEMMA HandlersKeepFiles ==
    ASSUME TypeOK, Handle
    PROVE  /\ files'.key = files.key
           /\ \A n \in Names \ Hosts : files'.crt[n] = files.crt[n]
<1>f. files \in Files
  BY DEF TypeOK, Files
<1>1. CASE files' = files
  BY <1>1
<1>2. ASSUME NEW h \in Hosts, NEW c \in Cert \cup {None}, files' = [files EXCEPT !.crt[h] = c]
      PROVE  /\ files'.key = files.key
             /\ \A n \in Names \ Hosts : files'.crt[n] = files.crt[n]
  BY <1>f, <1>2, WriteCrt, FixedNames
<1>3. ASSUME NEW w \in Workers, RegisterCertIdentity(w)
      PROVE  files' = files \/ \E h \in Hosts, c \in Cert \cup {None} :
                                  files' = [files EXCEPT !.crt[h] = c]
  <2>1. work[w].host \in Hosts /\ work[w].cert \in Cert \cup {None}
    BY <1>3, Parts DEF RegisterCertIdentity
  <2> QED
    BY <1>3, <2>1, Zenon DEF RegisterCertIdentity
<1>4. ASSUME NEW w \in Workers, RegisterFails(w)
      PROVE  files' = files \/ \E h \in Hosts, c \in Cert \cup {None} :
                                  files' = [files EXCEPT !.crt[h] = c]
  <2>1. work[w].host \in Hosts /\ None \in Cert \cup {None}
    BY <1>4, Parts DEF RegisterFails
  <2> QED
    BY <1>4, <2>1, Zenon DEF RegisterFails
<1>5. files' = files \/ \E h \in Hosts, c \in Cert \cup {None} : files' = [files EXCEPT !.crt[h] = c]
  BY <1>3, <1>4 DEF Handle, DeviceInit, ConnectionCloses, ClientRegister, Revoke
<1> QED
  BY <1>1, <1>2, <1>5

\* Each step of initialize establishes its part, and no later one undoes it; a
\* start that does not use TLS leaves the files of an earlier one alone.
LEMMA FilesStep ==
    ASSUME TypeOK, CaLoaded, ChainsToStoredCa, FilesInv, [Next]_vars
    PROVE  FilesInv' /\ (phase # "serving" /\ phase' = "serving" => AllFit')
<1> DEFINE Goal == FilesInv' /\ (phase # "serving" /\ phase' = "serving" => AllFit')
<1>f. files \in Files /\ db \in Db /\ mode \in Modes
  BY DEF TypeOK, Files, Db
<1>m. mode.client => mode.broker
  BY <1>f DEF Modes
<1>e. \A c \in Cert : c = [key |-> c.key, ca |-> c.ca]
  BY DEF Cert
<1>n. {"ca", "broker", "client"} \subseteq Names
  BY FixedNames
<1>0. CASE UNCHANGED vars
  BY <1>0 DEF vars, FilesInv, CaFits, BrokerFits, ClientFits
<1>1. ASSUME NEW m \in Modes, Boot(m) PROVE Goal
  BY <1>1 DEF Boot, FilesInv
<1>2. CASE LoadOrGenerateCa
  <2>1. /\ mode.broker => phase' = "broker ca"
        /\ ~mode.broker => phase' = "serving"
    BY <1>2, <1>m DEF LoadOrGenerateCa, AfterBroker
  <2> QED
    BY <1>2, <2>1, <1>m DEF LoadOrGenerateCa, FilesInv, AllFit
<1>3. CASE WriteBrokerCa
  <2>1. PICK k \in NewKeys(BrokerKeys) : made' = [key |-> k, ca |-> db.ca]
    BY <1>3 DEF WriteBrokerCa
  <2>2. made'.ca = db.ca /\ files'.crt["ca"] = [key |-> db.ca, ca |-> db.ca]
    BY <1>3, <1>f, <1>n, <2>1 DEF WriteBrokerCa, Files
  <2> QED
    BY <1>3, <2>2 DEF WriteBrokerCa, FilesInv, CaFits
<1>4. CASE WriteBrokerCert
  <2>1. files'.crt["ca"] = files.crt["ca"] /\ files'.crt["broker"] = made
    BY <1>4, <1>f, <1>n DEF WriteBrokerCert, FreshBrokerCert, Files
  <2> QED
    BY <1>4, <2>1 DEF WriteBrokerCert, FilesInv, CaFits
<1>5. CASE WriteBrokerKey
  <2>1. files'.crt = files.crt /\ files'.key["broker"] = made.key
    BY <1>5, <1>f DEF WriteBrokerKey, Files
  <2>2. made = [key |-> made.key, ca |-> db.ca] /\ CaFits /\ files.crt["broker"] = made
    BY <1>5, <1>e DEF WriteBrokerKey, CaLoaded, FilesInv, TypeOK
  <2>3. CaFits' /\ BrokerFits'
    BY <1>5, <2>1, <2>2 DEF WriteBrokerKey, CaFits, BrokerFits
  <2>4. phase' = IF mode.client THEN "node" ELSE "serving"
    BY <1>5 DEF WriteBrokerKey, AfterBroker
  <2> QED
    BY <1>5, <2>3, <2>4 DEF WriteBrokerKey, FilesInv, AllFit
<1>6. CASE EnsureNodeIdentity
  <2>1. PICK n \in NodeChoices : db' = [db EXCEPT !.node = n] /\ made' = n
    BY <1>6 DEF EnsureNodeIdentity
  <2>2. db'.node = made' /\ db'.ca = db.ca
    BY <1>f, <2>1 DEF Db
  <2> QED
    BY <1>6, <2>2 DEF EnsureNodeIdentity, FilesInv, CaFits, BrokerFits
<1>7. CASE WriteNodeCert
  <2>1. /\ files'.crt["ca"] = files.crt["ca"] /\ files'.crt["broker"] = files.crt["broker"]
        /\ files'.crt["client"] = made /\ files'.key = files.key
    BY <1>7, <1>f, <1>n DEF WriteNodeCert, Files
  <2> QED
    BY <1>7, <2>1 DEF WriteNodeCert, FilesInv, CaFits, BrokerFits
<1>8. CASE WriteNodeKey
  <2>1. /\ files'.crt = files.crt /\ files'.key["broker"] = files.key["broker"]
        /\ files'.key["client"] = made.key
    BY <1>8, <1>f DEF WriteNodeKey, Files
  <2>2. /\ made \in Cert /\ made = db.node /\ files.crt["client"] = made
        /\ CaFits /\ BrokerFits
    BY <1>8 DEF WriteNodeKey, CaLoaded, FilesInv, TypeOK
  <2>3. made = [key |-> made.key, ca |-> db.ca]
    BY <2>2, <1>e, NoneIsNoRow DEF ChainsToStoredCa
  <2>4. CaFits' /\ BrokerFits' /\ ClientFits'
    BY <1>8, <2>1, <2>2, <2>3 DEF WriteNodeKey, CaFits, BrokerFits, ClientFits
  <2> QED
    BY <1>8, <2>4 DEF WriteNodeKey, FilesInv, AllFit
<1>9. CASE Crash
  BY <1>9 DEF Crash, FilesInv
<1>10. CASE Handle
  <2>1. phase = "serving" /\ phase' = phase /\ mode' = mode
    BY <1>10 DEF Handle, DeviceInit, RegisterCertIdentity, RegisterFails, ConnectionCloses,
              ClientRegister, Revoke
  <2>2. /\ files'.key = files.key
        /\ \A n \in {"ca", "broker", "client"} : n \notin Hosts => files'.crt[n] = files.crt[n]
    BY <1>10, <1>n, HandlersKeepFiles
  <2>3. db'.ca = db.ca
    BY <2>1, CaKept DEF CaLoaded
  <2>4. db'.node = db.node
    <3>1. ASSUME NEW id \in Ids, NEW c, db' = Upsert(id, c) PROVE db'.node = db.node
      BY <3>1, <1>f DEF Upsert, Db
    <3>2. ASSUME NEW d \in Ids, Revoke(d) PROVE db'.node = db.node
      BY <3>2, <1>f DEF Revoke, Db
    <3> QED
      BY <1>10, <3>1, <3>2, Zenon DEF Handle, DeviceInit, RegisterCertIdentity, RegisterFails,
                ConnectionCloses, ClientRegister, Ids
  <2> QED
    BY <2>1, <2>2, <2>3, <2>4 DEF FilesInv, CaFits, BrokerFits, ClientFits
<1> QED
  BY <1>0, <1>1, <1>2, <1>3, <1>4, <1>5, <1>6, <1>7, <1>8, <1>9, <1>10 DEF Next, Provision

\* Whatever a crash left half-written, however the configuration changed, and
\* whatever devices were called, the files that a start uses fit together by the
\* time its services run, and stay so except where a device shares the name.
THEOREM FilesMatch == Spec => FilesMatchWhenServing
<1> DEFINE A == phase' = "serving" =>
                  /\ mode'.broker => (Shared("ca") \/ CaFits') /\ (Shared("broker") \/ BrokerFits')
                  /\ mode'.client => (Shared("client") \/ ClientFits')
<1>1. Init => FilesInv
  BY DEF Init, FilesInv
<1>2. ASSUME TypeOK, CaLoaded, ChainsToStoredCa, FilesInv, [Next]_vars PROVE A
  <2>1. CASE phase = "serving"
    BY <1>2, <2>1, FilesStep DEF FilesInv, Shared
  <2>2. CASE phase # "serving"
    BY <1>2, <2>2, FilesStep DEF AllFit
  <2> QED
    BY <2>1, <2>2
<1> HIDE DEF A
<1>3. Spec => [][A]_vars
  BY <1>1, <1>2, TypeCorrect, ChainsHold, FilesStep, PTL DEF Spec
<1> QED
  BY <1>3 DEF A, FilesMatchWhenServing
=============================================================================
