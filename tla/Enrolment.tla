----------------------------- MODULE Enrolment ------------------------------
(***************************************************************************)
(* How an agent gets its session, and what must outlive restarts for it:   *)
(* the hub's certificate for agents and its secrets key, each generated    *)
(* once and loaded ever after; the fingerprint the agent pins on its first *)
(* connection; the host's row with its token, which an admin may revoke    *)
(* while the session handler works from a copy; the agent's redial with    *)
(* backoff.  The HTTPS certificate, renewed by others while the hub runs,  *)
(* is here too.  AgentLink has the session from its registration on.       *)
(*                                                                         *)
(* Certificates and keys are numbered as they are made.  A file is         *)
(* Missing, Torn (created, its contents not written) or what was written.  *)
(* Init, Next and the like bear the component's name: the proofs are in    *)
(* HubStorageProofs, which extends HubStorage too.                         *)
(***************************************************************************)
EXTENDS Integers, FiniteSets

CONSTANTS MaxDelay,  \* MAX_RECONNECT_DELAY, in INITIAL_RECONNECT_DELAYs
          MaxFaults  \* bound on crashes, lost connections, read and write errors

ASSUME EnrolmentAssumption == MaxDelay \in Nat \ {0} /\ MaxFaults \in Nat

Missing == 0
Torn == -1
Whole(file) == file \notin {Missing, Torn}

VARIABLES
    \* the hub
    hub,      \* what it does next while it starts, "serve", or "down"
    cert, key, print, \* the files of agent-tls/
    secrets,  \* the file secrets.key
    made,     \* certificates and keys made so far
    served,   \* the certificate agents see
    shown,    \* the fingerprint the hub has logged
    sealing,  \* the key in memory
    sealed,   \* the key that stored values were encrypted with, Missing if nothing was
    \* its HTTPS certificate
    web,      \* version of the certificate file, and of the key file
    https,    \* version in use
    watch,    \* where the reload watcher is
    seen,     \* the modification times it knows
    \* hosts
    row,      \* the host's row
    admin,    \* what the admin's request is doing
    \* the session handler and the registry
    conn,     \* the agent's connection is up
    req,      \* where Hub::session is, for that connection
    reader,   \* the reader task of a session: "none", "live", "lost" with its connection,
              \* or "deaf" when it does not hear of the loss
    registry, \* the host's entry: "none", "live", or "orphan" when no task will remove it
    \* the agent
    agent,    \* where run_session is, or "deaf" when it does not hear of a loss
    pin, config, delay,
    faults,
    \* history
    misread,  \* files of agent-tls/ that were there could not be read
    stale     \* the certificate was renewed between its load and the watcher's start

tlsFiles == <<cert, key, print>>
hubVars == <<hub, tlsFiles, misread, secrets, made, served, shown, sealing, sealed>>
httpsVars == <<web, https, watch, seen, stale>>
sessionVars == <<conn, req, reader, registry>>
agentVars == <<agent, pin, config, delay>>
enrolmentVars == <<hubVars, httpsVars, row, admin, sessionVars, agentVars, faults>>

EnrolmentInit ==
    /\ hub = "down" /\ cert = Missing /\ key = Missing /\ print = Missing /\ secrets = Missing
    /\ made = 0 /\ served = Missing /\ shown = Missing /\ sealing = Missing /\ sealed = Missing
    /\ web = <<1, 1>> /\ https = 0 /\ watch = "off" /\ seen = <<0, 0>> /\ stale = FALSE
    /\ row = "none" /\ admin = "idle"
    /\ conn = FALSE /\ req = "none" /\ reader = "none" /\ registry = "none"
    /\ agent = "off" /\ pin = Missing /\ config = Missing /\ delay = 1
    /\ faults = 0 /\ misread = FALSE

Fault == faults < MaxFaults /\ faults' = faults + 1

-----------------------------------------------------------------------------
(* The hub's start: agent_tls and secrets *)

\* variant: a fresh certificate at every start
BootGenerates ==
    /\ hub = "down"
    /\ hub' = "cert" /\ made' = made + 1 /\ served' = made + 1 /\ shown' = made + 1
    /\ UNCHANGED <<tlsFiles, misread, secrets, sealing, sealed, httpsVars, row, admin,
                   sessionVars, agentVars, faults>>

\* agent_tls::load_or_generate: all three files, or a fresh certificate, also
\* when a file that is there cannot be read (read_all takes any error for None)
Boot ==
    /\ hub = "down"
    /\ \/ /\ Missing \notin {cert, key, print}
          /\ hub' = "secrets" /\ served' = cert /\ shown' = print
          /\ UNCHANGED <<made, misread, faults>>
       \/ /\ hub' = "cert" /\ made' = made + 1 /\ served' = made + 1 /\ shown' = made + 1
          /\ \/ Missing \in {cert, key, print} /\ UNCHANGED <<misread, faults>>
             \/ Missing \notin {cert, key, print} /\ Fault /\ misread' = TRUE
    /\ UNCHANGED <<tlsFiles, secrets, sealing, sealed, httpsVars, row, admin, sessionVars,
                   agentVars>>

\* generate_and_persist: the files one after the other
WriteCert == hub = "cert" /\ cert' = served /\ hub' = "key" /\ UNCHANGED <<key, print>>
WriteKey == hub = "key" /\ key' = served /\ hub' = "print" /\ UNCHANGED <<cert, print>>
WritePrint == hub = "print" /\ print' = served /\ hub' = "secrets" /\ UNCHANGED <<cert, key>>

Persist ==
    /\ WriteCert \/ WriteKey \/ WritePrint
    /\ UNCHANGED <<misread, secrets, made, served, shown, sealing, sealed, httpsVars, row,
                   admin, sessionVars, agentVars, faults>>

\* secrets::load_or_generate: a file of the wrong length stops the start
LoadSecrets ==
    /\ hub = "secrets" /\ secrets # Torn
    /\ hub' = "serve"
    /\ IF secrets = Missing
       THEN made' = made + 1 /\ secrets' = made + 1 /\ sealing' = made + 1
       ELSE sealing' = secrets /\ UNCHANGED <<made, secrets>>
    /\ UNCHANGED <<tlsFiles, misread, served, shown, sealed, httpsVars, row, admin,
                   sessionVars, agentVars, faults>>

\* the first env var or secret is stored
Seal ==
    /\ hub = "serve" /\ sealed = Missing
    /\ sealed' = sealing
    /\ UNCHANGED <<hub, tlsFiles, misread, secrets, made, served, shown, sealing, httpsVars,
                   row, admin, sessionVars, agentVars, faults>>

\* Nothing is sent to keep a connection alive, on either side: an end that only
\* waits for messages may never hear that the other one is gone, nor does a reader
\* that waits in resolve for room in a call's channel.
LeftAgent == IF agent \in {"ask", "wait", "session"} THEN {agent, "deaf"} ELSE {agent}
LeftReader == IF reader = "live" THEN {"lost", "deaf"} ELSE {reader}

\* The hub's process ends: connections, requests and memory are gone.
Stopped ==
    /\ hub' = "down"
    /\ watch' = "off" /\ https' = 0 /\ seen' = <<0, 0>> /\ admin' = "idle"
    /\ conn' = FALSE /\ req' = "none" /\ reader' = "none" /\ registry' = "none"

\* A crash, or an error of a write, which may leave its file created and empty,
\* or of the read of secrets.key.  The agent may not hear of its machine's end.
HubCrash ==
    /\ Fault
    /\ hub # "down"
    /\ Stopped
    /\ cert' \in IF hub = "cert" THEN {cert, Torn} ELSE {cert}
    /\ key' \in IF hub = "key" THEN {key, Torn} ELSE {key}
    /\ print' \in IF hub = "print" THEN {print, Torn} ELSE {print}
    /\ secrets' \in IF hub = "secrets" /\ secrets = Missing THEN {Missing, Torn} ELSE {secrets}
    /\ agent' \in LeftAgent
    /\ UNCHANGED <<misread, made, served, shown, sealing, sealed, web, stale, row, pin,
                   config, delay>>

-----------------------------------------------------------------------------
(* The HTTPS certificate: build_rustls_config and spawn_reload_watcher *)
Matched == web[1] = web[2]

\* the pair is loaded, or the start fails
LoadHttps ==
    /\ hub = "serve" /\ watch = "off"
    /\ IF Matched THEN https' = web[1] /\ watch' = "started"
                       /\ UNCHANGED <<hub, seen, admin, sessionVars>>
                  ELSE Stopped
    /\ UNCHANGED <<tlsFiles, misread, secrets, made, served, shown, sealing, sealed, web,
                   stale, row, agentVars, faults>>

\* the watcher's task takes the modification times it will compare with
FirstLook ==
    /\ watch = "started"
    /\ seen' = web /\ watch' = "poll"
    /\ stale' = (stale \/ (Matched /\ https # web[1]))
    /\ UNCHANGED <<hubVars, web, https, row, admin, sessionVars, agentVars, faults>>

\* variant: only the certificate's file is looked at
PollCertOnly ==
    /\ watch = "poll" /\ seen[1] # web[1]
    /\ seen' = web /\ watch' = "reload"
    /\ UNCHANGED <<hubVars, web, https, stale, row, admin, sessionVars, agentVars, faults>>

\* check_and_reload: what it remembers are the times read before the reload
Poll ==
    /\ watch = "poll" /\ seen # web
    /\ seen' = web /\ watch' = "reload"
    /\ UNCHANGED <<hubVars, web, https, stale, row, admin, sessionVars, agentVars, faults>>

\* a pair that does not fit leaves the certificate in use
Reload ==
    /\ watch = "reload"
    /\ https' = IF Matched THEN web[1] ELSE https
    /\ watch' = "poll"
    /\ UNCHANGED <<hubVars, web, seen, stale, row, admin, sessionVars, agentVars, faults>>

\* a renewal writes the certificate and then the key
Renew ==
    /\ \/ web = <<1, 1>> /\ web' = <<2, 1>>
       \/ web = <<2, 1>> /\ web' = <<2, 2>>
    /\ UNCHANGED <<hubVars, https, watch, seen, stale, row, admin, sessionVars, agentVars, faults>>

-----------------------------------------------------------------------------
(* The host's row *)

\* create_host; its token goes into the agent's configuration
CreateHost ==
    /\ hub = "serve" /\ row = "none"
    /\ row' = "valid"
    /\ agent' = "dial"
    /\ UNCHANGED <<hubVars, httpsVars, admin, sessionVars, pin, config, delay, faults>>

\* revoke_host: the row is read and its columns updated; the session stays
RevokeHost ==
    /\ \/ /\ hub = "serve" /\ row = "valid" /\ admin = "idle"
          /\ admin' = "revoke" /\ UNCHANGED row
       \/ /\ admin = "revoke"
          /\ row' = "revoked" /\ admin' = "done"
    /\ UNCHANGED <<hubVars, httpsVars, sessionVars, agentVars, faults>>

\* the admin copies the logged fingerprint into the agent's configuration
ConfigurePin ==
    /\ hub = "serve" /\ Whole(shown) /\ config = Missing
    /\ config' = shown
    /\ UNCHANGED <<hubVars, httpsVars, row, admin, sessionVars, agent, pin, delay, faults>>

-----------------------------------------------------------------------------
(* The agent: run_session and its retries *)
Expected == IF config # Missing THEN config ELSE pin
NoPin == config = Missing /\ pin = Missing

\* the attempt or the session is over
Fails == agent' = "sleep" /\ conn' = FALSE

\* variant: a revoked host is found by its token as well
HostFoundAny == row # "none"

\* find_host_by_token: the row of the token, unless it is revoked
HostFound == row = "valid"

\* The connection ends on the hub.  A handler that has registered the host but
\* not spawned the reader is dropped where it waits, and nobody is left to
\* unregister the host, or it gets as far as the reader; so does one that has
\* still to register it and hears of nothing.
Registers == req = "connect" \/ (req = "auth" /\ HostFound)

ConnectionEnds ==
    /\ conn' = FALSE /\ req' = "none"
    /\ \/ req # "touch" /\ UNCHANGED registry /\ reader' \in LeftReader
       \/ req = "touch" /\ registry' = "orphan" /\ UNCHANGED reader
       \/ req = "touch" /\ UNCHANGED registry /\ reader' \in {"lost", "deaf"}
       \/ Registers /\ registry = "none" /\ registry' = "live" /\ reader' \in {"lost", "deaf"}

\* the hub's listener, which ends at once when the key is not the certificate's
Listening == hub = "serve" /\ Whole(served) /\ key = served

\* the TLS handshake, verified against the expected fingerprint
Dial ==
    /\ agent = "dial"
    /\ IF Listening /\ (NoPin \/ Expected = served)
       THEN conn' = TRUE /\ agent' = IF NoPin THEN "pin" ELSE "ask"
       ELSE Fails
    /\ UNCHANGED <<hubVars, httpsVars, row, admin, req, reader, registry, pin, config, delay, faults>>

\* persist_fingerprint of the certificate presented
PersistPin ==
    /\ agent = "pin"
    /\ \/ pin' = served /\ agent' = "ask" /\ UNCHANGED <<conn, faults>>
       \/ Fault /\ Fails /\ pin' \in {Missing, Torn}
    /\ UNCHANGED <<hubVars, httpsVars, row, admin, req, reader, registry, config, delay>>

\* ping, and the request for a session
Ask ==
    /\ agent = "ask" /\ conn
    /\ req' = "auth" /\ agent' = "wait"
    /\ UNCHANGED <<hubVars, httpsVars, row, admin, reader, registry, conn, pin, config, delay, faults>>

\* the attempt fails, or the session ends, with its connection
NoticeLoss ==
    /\ agent \in {"ask", "wait", "session"} /\ ~conn
    /\ Fails
    /\ UNCHANGED <<hubVars, httpsVars, row, admin, req, reader, registry, pin, config, delay, faults>>

\* variant: the delay has no maximum
RedialUncapped ==
    /\ agent = "sleep"
    /\ agent' = "dial"
    /\ delay' = 2 * delay
    /\ UNCHANGED <<hubVars, httpsVars, row, admin, sessionVars, pin, config, faults>>

\* the delay passes and is doubled
Redial ==
    /\ agent = "sleep"
    /\ agent' = "dial"
    /\ delay' = IF 2 * delay < MaxDelay THEN 2 * delay ELSE MaxDelay
    /\ UNCHANGED <<hubVars, httpsVars, row, admin, sessionVars, pin, config, faults>>

AgentCrash ==
    /\ Fault
    /\ agent \notin {"off", "dial"}
    /\ agent' = "dial" /\ delay' = 1
    /\ ConnectionEnds
    /\ pin' \in IF agent = "pin" THEN {Missing, Torn} ELSE {pin}
    /\ UNCHANGED <<hubVars, httpsVars, row, admin, config>>

ConnectionLost ==
    /\ Fault
    /\ conn /\ ConnectionEnds
    /\ agent' \in LeftAgent
    /\ UNCHANGED <<hubVars, httpsVars, row, admin, pin, config, delay>>

-----------------------------------------------------------------------------
(* Hub::session *)
Refuse == req' = "none" /\ Fails

\* authenticate: the row of the token
Authenticate ==
    /\ req = "auth"
    /\ IF HostFound THEN req' = "connect" /\ UNCHANGED <<agent, conn>> ELSE Refuse
    /\ UNCHANGED <<hubVars, httpsVars, row, admin, reader, registry, pin, config, delay, faults>>

\* AgentRegistry::connect, set_outbound and the signal
Connect ==
    /\ req = "connect"
    /\ IF registry = "none" THEN registry' = "live" /\ req' = "touch" /\ UNCHANGED <<agent, conn>>
                            ELSE Refuse /\ UNCHANGED registry
    /\ UNCHANGED <<hubVars, httpsVars, row, admin, reader, pin, config, delay, faults>>

\* touch_host_last_seen, which updates columns of its own; the reader is spawned
\* and the session open
Touch ==
    /\ req = "touch"
    /\ req' = "none" /\ reader' = "live" /\ agent' = "session" /\ delay' = 1
    /\ UNCHANGED <<hubVars, httpsVars, row, admin, registry, conn, pin, config, faults>>

\* variant: the reader ends without unregistering the host
ReaderEndsOnly ==
    /\ reader = "lost"
    /\ reader' = "none"
    /\ UNCHANGED <<hubVars, httpsVars, row, admin, req, registry, conn, agentVars, faults>>

\* the reader task finds the connection gone: disconnect
Disconnect ==
    /\ reader = "lost"
    /\ reader' = "none" /\ registry' = "none"
    /\ UNCHANGED <<hubVars, httpsVars, row, admin, req, conn, agentVars, faults>>

\* an end that did not hear of the loss does after all, having sent something
\* that nobody acknowledged
Hear ==
    /\ \/ agent = "deaf" /\ agent' = "wait" /\ UNCHANGED reader
       \/ reader = "deaf" /\ reader' = "lost" /\ UNCHANGED agent
    /\ UNCHANGED <<hubVars, httpsVars, row, admin, conn, req, registry, pin, config, delay, faults>>

-----------------------------------------------------------------------------
Https == LoadHttps \/ FirstLook \/ Poll \/ Reload
Agent == Dial \/ PersistPin \/ Ask \/ NoticeLoss \/ Redial
Session == Authenticate \/ Connect \/ Touch

EnrolmentNext ==
    \/ Boot \/ Persist \/ LoadSecrets \/ Seal \/ HubCrash
    \/ Https \/ Renew
    \/ CreateHost \/ RevokeHost \/ ConfigurePin
    \/ Agent \/ AgentCrash \/ ConnectionLost
    \/ Session \/ Disconnect \/ Hear

EnrolmentSpec == EnrolmentInit /\ [][EnrolmentNext]_enrolmentVars

\* A hub that is down is started again; the steps of its start, the watcher,
\* the agent's loop and the session handler go on, and an end that hears of a lost
\* connection acts on it.  Admins and renewals need not, and deaf ends need not hear.
EnrolmentFairness ==
    /\ WF_enrolmentVars(Boot) /\ WF_enrolmentVars(Persist) /\ WF_enrolmentVars(LoadSecrets)
    /\ WF_enrolmentVars(LoadHttps) /\ WF_enrolmentVars(FirstLook)
    /\ WF_enrolmentVars(Poll) /\ WF_enrolmentVars(Reload)
    /\ WF_enrolmentVars(Agent) /\ WF_enrolmentVars(Session) /\ WF_enrolmentVars(Disconnect)

FairEnrolment == EnrolmentSpec /\ EnrolmentFairness

-----------------------------------------------------------------------------
(* Properties *)

\* Where every part is; the delay never passes MAX_RECONNECT_DELAY (main.rs:81).
Places ==
    /\ hub \in {"down", "cert", "key", "print", "secrets", "serve"}
    /\ {cert, key, print, secrets, pin} \subseteq Nat \cup {Torn}
    /\ watch \in {"off", "started", "poll", "reload"}
    /\ row \in {"none", "valid", "revoked"} /\ admin \in {"idle", "revoke", "done"}
    /\ req \in {"none", "auth", "connect", "touch"}
    /\ reader \in {"none", "live", "lost", "deaf"}
    /\ registry \in {"none", "live", "orphan"}
    /\ agent \in {"off", "dial", "pin", "ask", "wait", "session", "sleep", "deaf"}
    /\ delay \in 1..MaxDelay /\ faults \in 0..MaxFaults

\* Type invariant of the hub, the agent and their files (main.rs:81 for the delay).
EnrolmentTypes == Places /\ conn \in BOOLEAN

\* "so the fingerprint stays stable across restarts" (agent_tls.rs:20): whenever
\* the hub serves, after whatever crashes between the writes of its files, it
\* presents a whole certificate with its own key, the one every agent has pinned
\* or was configured with, and can decrypt what it has stored.  The first part
\* excludes starts that could not read a file of agent-tls/ that was there: they
\* replace it (agent_tls.rs:52-54), where the secrets key stops the start
\* (secrets.rs:71-75).
IdentityLasts ==
    hub = "serve" =>
        /\ \/ misread
           \/ /\ Whole(served) /\ cert = served /\ key = served
              /\ \A p \in {pin, config} : Whole(p) => p = served
        /\ sealed # Missing => sealing = sealed

\* A revoked host stays out.  The token is checked once (grpc.rs:42), before the
\* host is registered, so a revocation leaves the session that is open, and one
\* whose handler has passed that check; once the host has neither, no redial, no
\* restart of either side and no handler left behind registers it again
\* (storage.rs:412).
Out == row = "revoked" /\ registry # "live" /\ req \in {"none", "auth"}
RevocationLasts == [][Out => Out']_enrolmentVars

\* An agent with a good token gets back into a session after every crash and lost
\* connection, unless its pin was torn in a crash, the hub's certificate was made
\* again after a read error, the HTTPS pair does not fit, its entry in the
\* registry was orphaned by a handler dropped between connect and the reader
\* (grpc.rs:45-62), or the connection was lost without a sign: then the hub's
\* reader may keep the entry (grpc.rs:58), or the agent wait for messages
\* (main.rs:143), for ever.
AgentReturns ==
    (row = "valid") ~> \/ agent = "session" /\ conn
                       \/ row = "revoked"
                       \/ (config = Missing /\ pin = Torn)
                       \/ misread
                       \/ ~Matched
                       \/ registry = "orphan"
                       \/ reader = "deaf" \/ agent = "deaf"

\* "an externally renewed cert takes effect without restarting" (tls.rs:26), even
\* when a poll falls between the two files of a renewal or a write between the
\* reading of the times and the reload, or the hub is started again, except for a
\* renewal between the load at startup and the watcher's first look at the times.
RenewalsTakeEffect ==
    (watch # "off" /\ web = <<2, 2>>) ~> (https = 2 \/ stale)
=============================================================================
