--------------------------- MODULE OperatorStartup ---------------------------
(***************************************************************************)
(* Startup of the operator replicas of a host and a member cluster       *)
(* (pkg/operator/options.go): Complete loads the kubeconfig and creates    *)
(* the client and the controller manager.  A host builds its cert manager  *)
(* from the CA secret and its API server; RunManager serves it.  A member  *)
(* fetches the CA from the host's API server, and initAPIClient either     *)
(* reuses the "api-client-tls" secret or enrolls:                          *)
(* createTLSSecretForClient has a CSR signed with the init token           *)
(* (SignCertByToken) and creates the secret.  Then RunManager starts the   *)
(* manager.  Complete runs before leader election, so every replica runs   *)
(* it.  A replica that returns an error or panics exits and is restarted.  *)
(*                                                                         *)
(* Abstraction: a certificate is a model value; the host signs only while  *)
(* the init token is valid; certificates and the token expire as          *)
(* environment steps.                                                      *)
(***************************************************************************)
EXTENDS Naturals, FiniteSets

CONSTANTS
    HostReplicas,    \* operator pods of the host cluster
    MemberReplicas,  \* operator pods of the member cluster
    Certs,         \* certificates the host can issue (fresh identities)
    None,          \* no secret / no certificate
    MaxFailures,   \* bound on failed API calls
    MaxCrashes,    \* bound on replicas killed between two steps
    MaxExpiries    \* bound on issued certificates that expire

ASSUME HostReplicas \cap MemberReplicas = {}
ASSUME None \notin Certs /\ MaxFailures \in Nat /\ MaxCrashes \in Nat
       /\ MaxExpiries \in Nat

VARIABLES
    pc,           \* the step each replica is at
    hasManager,   \* per replica: opts.Manager was created
    csrCert,      \* per replica: cert the host signed for its CSR
    clientCert,   \* per replica: cert its API client uses
    secret,       \* the api-client-tls secret in the member cluster
    issued,       \* certs the host has issued
    expired,      \* issued certs past their NotAfter
    tokenValid,   \* the init token is within its validity
    failures,
    crashes

vars == <<pc, hasManager, csrCert, clientCert, secret, issued, expired,
          tokenValid, failures, crashes>>

Replicas == HostReplicas \cup MemberReplicas

Steps == {"start", "kube", "hostCA", "apiServer", "getCA", "getSecret", "sign", "create", "client",
          "run", "running", "exited"}

Cert == Certs \cup {None}

CanFail == failures < MaxFailures

\* The host's API server answers: runAPIServer is a runnable of the manager
\* of some running host replica (the leader's).
HostServing == \E h \in HostReplicas : pc[h] = "running"

\* A replica's step: set its pc and leave the shared state alone.
Goto(r, s) == pc' = [pc EXCEPT ![r] = s]

\* A call of Complete returns its error ("log.Error; return err") and the
\* process exits.
Fail(r) ==
    /\ CanFail
    /\ failures' = failures + 1
    /\ Goto(r, "exited")

-----------------------------------------------------------------------------
Init ==
    /\ pc = [r \in Replicas |-> "start"]
    /\ hasManager = [r \in Replicas |-> FALSE]
    /\ csrCert = [r \in Replicas |-> None]
    /\ clientCert = [r \in Replicas |-> None]
    /\ secret = None
    /\ issued = {}
    /\ expired = {}
    /\ tokenValid = TRUE
    /\ failures = 0
    /\ crashes = 0

\* Complete: config.GetConfig(); on error it logs and returns nil, so the
\* caller goes on to RunManager without a manager.
LoadKubeconfig(r) ==
    /\ pc[r] = "start"
    /\ \/ Goto(r, "kube") /\ UNCHANGED failures
       \/ CanFail /\ failures' = failures + 1 /\ Goto(r, "run")
    /\ UNCHANGED <<hasManager, csrCert, clientCert, secret, issued, expired,
                   tokenValid, crashes>>

\* Complete: client.New and manager.New, an error is returned; then the
\* branch on ClusterRole.
CreateManager(r) ==
    /\ pc[r] = "kube"
    /\ \/ /\ Goto(r, IF r \in HostReplicas THEN "hostCA" ELSE "getCA")
          /\ hasManager' = [hasManager EXCEPT ![r] = TRUE]
          /\ UNCHANGED failures
       \/ Fail(r) /\ UNCHANGED hasManager
    /\ UNCHANGED <<csrCert, clientCert, secret, issued, expired, tokenValid,
                   crashes>>

\* Complete, host: createCertManager gets the CA secret and decodes and
\* parses its cert and key; any error is returned.
CreateCertManager(r) ==
    /\ pc[r] = "hostCA"
    /\ \/ Goto(r, "apiServer") /\ UNCHANGED failures
       \/ Fail(r)
    /\ UNCHANGED <<hasManager, csrCert, clientCert, secret, issued, expired,
                   tokenValid, crashes>>

\* Complete, host: apiserver.New and tls.LoadX509KeyPair of the server's
\* cert files; any error is returned.
NewAPIServer(r) ==
    /\ pc[r] = "apiServer"
    /\ \/ Goto(r, "run") /\ UNCHANGED failures
       \/ Fail(r)
    /\ UNCHANGED <<hasManager, csrCert, clientCert, secret, issued, expired,
                   tokenValid, crashes>>

\* Complete, member: fclient.GetCertificate fetches the CA from the host's
\* API server; it fails while no host replica serves.
GetCACert(r) ==
    /\ pc[r] = "getCA"
    /\ \/ HostServing /\ Goto(r, "getSecret") /\ UNCHANGED failures
       \/ ~HostServing /\ Goto(r, "exited") /\ UNCHANGED failures
       \/ Fail(r)
    /\ UNCHANGED <<hasManager, csrCert, clientCert, secret, issued, expired,
                   tokenValid, crashes>>

\* Mutant: the found secret is treated like a missing one.
GetClientSecretIgnoreFound(r) ==
    /\ pc[r] = "getSecret"
    /\ \/ Goto(r, "sign") /\ UNCHANGED <<clientCert, failures>>
       \/ Fail(r) /\ UNCHANGED clientCert
    /\ UNCHANGED <<hasManager, csrCert, secret, issued, expired, tokenValid,
                   crashes>>

\* initAPIClient: Get the secret; found: use its cert and key whatever its
\* NotAfter; NotFound: create it; any other error is returned.
GetClientSecret(r) ==
    /\ pc[r] = "getSecret"
    /\ \/ /\ secret # None
          /\ clientCert' = [clientCert EXCEPT ![r] = secret]
          /\ Goto(r, "client")
          /\ UNCHANGED failures
       \/ /\ secret = None
          /\ Goto(r, "sign")
          /\ UNCHANGED <<clientCert, failures>>
       \/ Fail(r) /\ UNCHANGED clientCert
    /\ UNCHANGED <<hasManager, csrCert, secret, issued, expired, tokenValid,
                   crashes>>

\* createTLSSecretForClient: a CSR for <cluster>.fabedge-client signed by
\* the host through SignCertByToken, which fails while no host replica
\* serves and which the host refuses once the token has expired.
SignCertByToken(r) ==
    /\ pc[r] = "sign"
    /\ \/ /\ HostServing /\ tokenValid
          /\ \E c \in Certs \ issued :
                /\ issued' = issued \cup {c}
                /\ csrCert' = [csrCert EXCEPT ![r] = c]
          /\ Goto(r, "create")
          /\ UNCHANGED failures
       \/ /\ ~HostServing \/ ~tokenValid
          /\ Goto(r, "exited")
          /\ UNCHANGED <<issued, csrCert, failures>>
       \/ Fail(r) /\ UNCHANGED <<issued, csrCert>>
    /\ UNCHANGED <<hasManager, clientCert, secret, expired, tokenValid,
                   crashes>>

\* Mutant: AlreadyExists from Create is ignored and the replica goes on
\* with the cert it had signed.
CreateClientSecretIgnoreExists(r) ==
    /\ pc[r] = "create"
    /\ secret' = IF secret = None THEN csrCert[r] ELSE secret
    /\ clientCert' = [clientCert EXCEPT ![r] = csrCert[r]]
    /\ Goto(r, "client")
    /\ UNCHANGED <<hasManager, csrCert, issued, expired, tokenValid,
                   failures, crashes>>

\* createTLSSecretForClient: kubeClient.Create of the secret; when another
\* replica created it first, Create fails with AlreadyExists and the error
\* is returned.
CreateClientSecret(r) ==
    /\ pc[r] = "create"
    /\ \/ /\ secret = None
          /\ secret' = csrCert[r]
          /\ clientCert' = [clientCert EXCEPT ![r] = csrCert[r]]
          /\ Goto(r, "client")
          /\ UNCHANGED failures
       \/ /\ secret # None
          /\ Goto(r, "exited")
          /\ UNCHANGED <<secret, clientCert, failures>>
       \/ Fail(r) /\ UNCHANGED <<secret, clientCert>>
    /\ UNCHANGED <<hasManager, csrCert, issued, expired, tokenValid, crashes>>

\* initAPIClient: tls.X509KeyPair and fclient.NewClient; Complete:
\* certutil.NewRemoteManager; then Validate, which these steps do not
\* affect.  An error of any of the three calls is returned.
NewAPIClient(r) ==
    /\ pc[r] = "client"
    /\ \/ Goto(r, "run") /\ UNCHANGED failures
       \/ Fail(r)
    /\ UNCHANGED <<hasManager, csrCert, clientCert, secret, issued, expired,
                   tokenValid, crashes>>

\* RunManager: opts.Manager.Add and Start; without a manager the call
\* dereferences a nil interface and the process panics.  On a host the
\* manager also runs runAPIServer, whose ListenAndServeTLS error stops the
\* manager, and RunManager returns it.
RunManager(r) ==
    /\ pc[r] = "run"
    /\ \/ Goto(r, IF hasManager[r] THEN "running" ELSE "panicked")
          /\ UNCHANGED failures
       \/ r \in HostReplicas /\ hasManager[r] /\ Fail(r)
    /\ UNCHANGED <<hasManager, csrCert, clientCert, secret, issued, expired,
                   tokenValid, crashes>>

\* The kubelet restarts an exited or panicked operator container; its
\* memory starts afresh.
RestartReplica(r) ==
    /\ pc[r] \in {"exited", "panicked"}
    /\ pc' = [pc EXCEPT ![r] = "start"]
    /\ hasManager' = [hasManager EXCEPT ![r] = FALSE]
    /\ csrCert' = [csrCert EXCEPT ![r] = None]
    /\ clientCert' = [clientCert EXCEPT ![r] = None]
    /\ UNCHANGED <<secret, issued, expired, tokenValid, failures, crashes>>

-----------------------------------------------------------------------------
(* Environment                                                             *)

\* The pod is killed, during Complete or while it runs (node drain, OOM).
Crash(r) ==
    /\ pc[r] \notin {"exited", "panicked"}
    /\ crashes < MaxCrashes
    /\ crashes' = crashes + 1
    /\ Goto(r, "exited")
    /\ UNCHANGED <<hasManager, csrCert, clientCert, secret, issued, expired,
                   tokenValid, failures>>

ExpireCert ==
    /\ Cardinality(expired) < MaxExpiries
    /\ \E c \in issued \ expired : expired' = expired \cup {c}
    /\ UNCHANGED <<pc, hasManager, csrCert, clientCert, secret, issued,
                   tokenValid, failures, crashes>>

ExpireToken ==
    /\ tokenValid
    /\ tokenValid' = FALSE
    /\ UNCHANGED <<pc, hasManager, csrCert, clientCert, secret, issued,
                   expired, failures, crashes>>

ReplicaStep(r) ==
    \/ LoadKubeconfig(r) \/ CreateManager(r) \/ CreateCertManager(r)
    \/ NewAPIServer(r) \/ GetCACert(r)
    \/ GetClientSecret(r) \/ SignCertByToken(r) \/ CreateClientSecret(r)
    \/ NewAPIClient(r) \/ RunManager(r) \/ RestartReplica(r)

Next ==
    \/ \E r \in Replicas : ReplicaStep(r) \/ Crash(r)
    \/ ExpireCert \/ ExpireToken

\* Each replica keeps being scheduled and the kubelet keeps restarting it
\* (with back-off); expiry and crashes are the environment.
Fairness == \A r \in Replicas : WF_vars(ReplicaStep(r))

Spec == Init /\ [][Next]_vars /\ Fairness

-----------------------------------------------------------------------------
\* Every member replica that runs talks to the host with the cert persisted
\* in the api-client-tls secret, even when two replicas enrolled at once
\* and one was killed between signing and Create.
RunningUseStoredCert ==
    \A r \in MemberReplicas : pc[r] = "running" => clientCert[r] = secret /\ secret # None

\* While the init token stays valid, every replica of both clusters
\* eventually runs, despite failed calls, a host that is not serving yet or
\* has crashed, a crash between SignCertByToken and Create, and a lost race
\* to create the secret.
EnrollmentCompletes ==
    []tokenValid => <>[](\A r \in Replicas : pc[r] = "running")

\* Complete reports success only with a manager that RunManager can use.
NoNilManager == \A r \in Replicas : pc[r] # "panicked"

\* E5 of the design: a member whose client cert expired re-enrolls with a
\* valid token and resumes syncing with a valid cert.
RunsWithValidCert ==
    []tokenValid =>
        <>[](\A r \in MemberReplicas : pc[r] = "running" /\ clientCert[r] \notin expired)
=============================================================================
