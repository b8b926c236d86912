------------------------------- MODULE Server -------------------------------
(***************************************************************************)
(* The life of the process: the run function of main.go with its manager,  *)
(* server and informer goroutines, readiness, shutdown and Stop, the       *)
(* installation of the plugins, and restarts of the container.  The        *)
(* handshakes of the HTTPS server are those of ServingCert.                *)
(***************************************************************************)
EXTENDS ServingCert, Integers

CONSTANTS
    Servers,      \* "http" and, without --noTLS, "https"
    PlainConns,   \* connections to the HTTP server
    PluginFiles,  \* files below PLUGINS_DIR, none with --local
    TTLFlags,     \* values of --cacheTTLDurationSeconds
    Second,       \* nanoseconds of a second
    MaxInt,       \* largest signed integer, of 64 bits in the code
    MaxAttempts   \* attempts of NewVerifier before its backoff ends

ASSUME ServerAssumption ==
    /\ "http" \in Servers /\ Servers \subseteq {"http", "https"}
    /\ Second \in Nat \ {0} /\ MaxInt \in Nat \ {0}
    /\ TTLFlags \subseteq (-MaxInt - 1)..MaxInt
    /\ MaxAttempts \in Nat \ {0}

VARIABLES
    main,       \* the main goroutine
    ttlFlag,    \* --cacheTTLDurationSeconds
    ttl,        \* the TTL of cache entries, in nanoseconds
    plugins,    \* the installed files: "none", "partial", "whole"
    copied,     \* files that this start has copied
    writing,    \* files being written, at most one
    signalled,  \* SIGTERM or SIGINT was received
    mgr,        \* the manager goroutine: "off", "up", or what it sent to errsMgr
    attempts,   \* attempts of NewVerifier so far
    informers,  \* informers of the verifier: "off", "up", "stopped"
    stopCh,     \* stopCh is closed
    srv,        \* server goroutines: "off", "starting", "up", "closed"
    shut,       \* Shutdown of each server: "no", "waiting", "done"
    ready,      \* the readiness flag
    plain,      \* requests in progress on plain connections
    runErr,     \* what run returns
    \* History
    failed,     \* something failed before the shutdown
    timedOut    \* a Shutdown gave up on its connections

process == <<ttl, copied, writing, signalled, mgr, attempts, informers, stopCh, srv,
             shut, ready, plain, failed, timedOut>>
vars == <<main, ttlFlag, plugins, process, runErr, certVars>>

\* Parts of the state that most actions leave alone.
copy   == <<plugins, copied, writing>>
ctx    == <<signalled, mgr>>
verif  == <<attempts, informers, stopCh>>
serve  == <<srv, shut, plain, timedOut>>

-----------------------------------------------------------------------------
(* Startup.                                                                *)

\* Mutant of TTLValid: there is no upper bound.
TTLUnbounded(s) == s > 0

TTLValid(s) == s > 0 /\ s <= MaxInt \div Second

\* A product of signed machine integers.
Wrapped(n) == ((n + MaxInt + 1) % (2 * MaxInt + 2)) - MaxInt - 1

\* The process is over and nothing of it is left but the plugin files.
Exit(e) ==
    /\ main' = "exited"
    /\ runErr' = e
    /\ Forget
    /\ ttl' = 0
    /\ copied' = {} /\ writing' = {}
    /\ mgr' = "off" /\ attempts' = 0
    /\ informers' = "off" /\ stopCh' = FALSE
    /\ srv' = [s \in Servers |-> "off"]
    /\ shut' = [s \in Servers |-> "no"]
    /\ ready' = FALSE /\ plain' = {} /\ timedOut' = FALSE

CacheTTL ==
    /\ main = "flags"
    /\ IF TTLValid(ttlFlag)
       THEN /\ main' = "plugins"
            /\ ttl' = Wrapped(ttlFlag * Second)
            /\ UNCHANGED <<copied, writing, mgr, verif, serve, ready, failed, runErr,
                           certVars>>
       ELSE Exit("startup") /\ failed' = TRUE
    /\ UNCHANGED <<ttlFlag, plugins, signalled>>

\* Mutant of ToCopy: files that are there are left alone.
ToCopyMissing == {p \in PluginFiles \ copied : plugins[p] = "none"}

ToCopy == PluginFiles \ copied

\* Mutant of TruncatePlugin: the files are copied all at once.
TruncateAtOnce(p) ==
    /\ main = "plugins"
    /\ p \in ToCopy \ writing
    /\ writing' = writing \cup {p}
    /\ plugins' = [plugins EXCEPT ![p] = "partial"]
    /\ UNCHANGED <<main, ttlFlag, ttl, copied, ctx, verif, serve, ready, runErr, failed,
                   certVars>>

\* WriteFile truncates the file and writes it; it is not atomic.
TruncatePlugin(p) ==
    /\ main = "plugins"
    /\ writing = {}
    /\ p \in ToCopy
    /\ writing' = {p}
    /\ plugins' = [plugins EXCEPT ![p] = "partial"]
    /\ UNCHANGED <<main, ttlFlag, ttl, copied, ctx, verif, serve, ready, runErr, failed,
                   certVars>>

WritePlugin(p) ==
    /\ writing = {p}
    /\ writing' = {}
    /\ copied' = copied \cup {p}
    /\ plugins' = [plugins EXCEPT ![p] = "whole"]
    /\ UNCHANGED <<main, ttlFlag, ttl, ctx, verif, serve, ready, runErr, failed, certVars>>

\* Setup creates the manager, and a goroutine starts it.
StartManager ==
    /\ main = "plugins"
    /\ writing = {} /\ ToCopy = {}
    /\ main' = "verifier"
    /\ mgr' = "up"
    /\ UNCHANGED <<ttlFlag, ttl, copy, signalled, verif, serve, ready, runErr, failed,
                   certVars>>

\* Configuration, leader election, plugin or manager setup return an error.
StartupFails ==
    /\ main = "plugins"
    /\ Exit("startup")
    /\ failed' = TRUE
    /\ UNCHANGED <<ttlFlag, plugins, signalled>>

\* The last attempt of NewVerifier starts the informers.
NewVerifier ==
    /\ main = "verifier"
    /\ main' = "servers"
    /\ attempts' = 0
    /\ informers' = "up"
    /\ UNCHANGED <<ttlFlag, ttl, copy, ctx, stopCh, serve, ready, runErr, failed,
                   certVars>>

Retries == attempts + 1 < MaxAttempts

\* An attempt fails: another one after a pause, until the backoff gives up.
NewVerifierFails ==
    /\ main = "verifier"
    /\ \/ /\ Retries
          /\ attempts' = attempts + 1
          /\ UNCHANGED <<main, ttl, copied, writing, mgr, informers, stopCh, serve, ready,
                         failed, runErr, certVars>>
       \/ /\ ~Retries
          /\ Exit("startup")
          /\ failed' = TRUE
    /\ UNCHANGED <<ttlFlag, plugins, signalled>>

StartServers ==
    /\ main = "servers"
    /\ main' = "ready"
    /\ srv' = [s \in Servers |-> "starting"]
    /\ UNCHANGED <<ttlFlag, ttl, copy, ctx, verif, shut, plain, timedOut, ready, runErr,
                   failed, certVars>>

StoreReady ==
    /\ main = "ready"
    /\ main' = "loop"
    /\ ready' = TRUE
    /\ UNCHANGED <<ttlFlag, ttl, copy, ctx, verif, serve, runErr, failed, certVars>>

-----------------------------------------------------------------------------
(* The other goroutines.                                                   *)

Running == main \notin {"flags", "exited"}

\* stop() has been called, or a signal received.
CtxDone == signalled \/ main \in {"stop", "informers", "cache"}

Signal ==
    /\ Running
    /\ ~signalled
    /\ signalled' = TRUE
    /\ UNCHANGED <<main, ttlFlag, ttl, copy, mgr, verif, serve, ready, runErr, failed,
                   certVars>>

\* Start of the manager returns: nil when its context is done, or, against its
\* contract, earlier; an error at any time.
ManagerReturns ==
    /\ mgr = "up"
    /\ mgr' \in {"nil", "error"}
    /\ failed' = (failed \/ mgr' = "error" \/ ~CtxDone)
    /\ UNCHANGED <<main, ttlFlag, ttl, copy, signalled, verif, serve, ready, runErr,
                   certVars>>

\* A server binds its port, unless Shutdown came first.
Listen(s) ==
    /\ srv[s] = "starting"
    /\ srv' = [srv EXCEPT ![s] = IF shut[s] = "no" THEN "up" ELSE "closed"]
    /\ UNCHANGED <<main, ttlFlag, ttl, copy, ctx, verif, shut, plain, timedOut, ready,
                   runErr, failed, certVars>>

\* The port is taken, or accepting connections fails.
ServerFails(s) ==
    /\ srv[s] \in {"starting", "up"}
    /\ srv' = [srv EXCEPT ![s] = "closed"]
    /\ failed' = TRUE
    /\ UNCHANGED <<main, ttlFlag, ttl, copy, ctx, verif, shut, plain, timedOut, ready,
                   runErr, certVars>>

\* The informers of the verifier end once stopCh is closed.
InformersEnd ==
    /\ informers = "up"
    /\ stopCh
    /\ informers' = "stopped"
    /\ UNCHANGED <<main, ttlFlag, ttl, copy, ctx, attempts, stopCh, serve, ready, runErr,
                   failed, certVars>>

life == <<main, ttlFlag, ttl, copy, ctx, verif, srv, shut, timedOut, ready, runErr, failed>>

\* A request on a plain connection, from its arrival to the response.
PlainRequest(c) ==
    /\ srv["http"] = "up"
    /\ c \notin plain
    /\ plain' = plain \cup {c}
    /\ UNCHANGED <<life, certVars>>

PlainResponse(c) ==
    /\ c \in plain
    /\ plain' = plain \ {c}
    /\ UNCHANGED <<life, certVars>>

\* A TLS connection begins with a handshake, whose success is a request.
TLSConnect(c) ==
    /\ "https" \in Servers
    /\ srv["https"] = "up"
    /\ Hello(c)
    /\ UNCHANGED <<life, plain>>

TLSHandshake(c) == Handshake(c) /\ UNCHANGED <<life, plain>>

\* The response is sent, the handshake fails or the connection breaks.
TLSClose(c) == hs[c] # "idle" /\ Hangup(c) /\ UNCHANGED <<life, plain>>

\* The informer of the TLS secret.
RotateSecret == Running /\ Rotate /\ UNCHANGED <<life, plain>>

-----------------------------------------------------------------------------
(* The main loop, the shutdown and the deferred Stop.                      *)

\* UpdateNotationVerifier, for as long as a reload takes.
BeginReload ==
    /\ main = "loop"
    /\ main' = "reload"
    /\ UNCHANGED <<ttlFlag, ttl, copy, ctx, verif, serve, ready, runErr, failed, certVars>>

EndReload ==
    /\ main = "reload"
    /\ main' = "loop"
    /\ UNCHANGED <<ttlFlag, ttl, copy, ctx, verif, serve, ready, runErr, failed, certVars>>

\* Mutant of ManagerError: nil is always unexpected.
ManagerErrorAlways == "manager"

\* nil is what the manager returns after a signal; otherwise it is unexpected.
ManagerError == IF mgr = "nil" /\ signalled THEN "none" ELSE "manager"

\* One of the other cases of select, which Go chooses at random.
LeaveLoop ==
    /\ main = "loop"
    /\ \/ \E s \in Servers : srv[s] = "closed" /\ runErr' = "server"
       \/ mgr \in {"nil", "error"} /\ runErr' = ManagerError
       \/ signalled /\ runErr' = "none"
    /\ main' = "unready"
    /\ UNCHANGED <<ttlFlag, ttl, copy, ctx, verif, serve, ready, failed, certVars>>

StoreUnready ==
    /\ main = "unready"
    /\ main' = "shutdown"
    /\ ready' = FALSE
    /\ UNCHANGED <<ttlFlag, ttl, copy, ctx, verif, serve, runErr, failed, certVars>>

\* Shutdown of one server after the other: the listener is closed at once.
CloseListener(s) ==
    /\ main = "shutdown"
    /\ shut[s] = "no"
    /\ s = "https" => shut["http"] = "done"
    /\ shut' = [shut EXCEPT ![s] = "waiting"]
    /\ srv' = [srv EXCEPT ![s] = IF @ = "up" THEN "closed" ELSE @]
    /\ UNCHANGED <<main, ttlFlag, ttl, copy, ctx, verif, plain, timedOut, ready, runErr,
                   failed, certVars>>

InProgress(s) == IF s = "http" THEN plain ELSE {c \in Conns : hs[c] # "idle"}

\* Mutant of Drained: only the plain server is waited for.
DrainedPlain(s) == plain = {}

Drained(s) == InProgress(s) = {}

\* It returns when the server has no connection in use, or at the deadline.
ShutdownReturns(s) ==
    /\ shut[s] = "waiting"
    /\ shut' = [shut EXCEPT ![s] = "done"]
    /\ \/ Drained(s) /\ UNCHANGED timedOut
       \/ ~Drained(s) /\ timedOut' = TRUE
    /\ UNCHANGED <<main, ttlFlag, ttl, copy, ctx, verif, srv, plain, ready, runErr, failed,
                   certVars>>

\* run returns, and its deferred calls begin.
Stop ==
    /\ main = "shutdown"
    /\ \A s \in Servers : shut[s] = "done"
    /\ main' = "stop"
    /\ UNCHANGED <<ttlFlag, ttl, copy, ctx, verif, serve, ready, runErr, failed, certVars>>

\* Mutant of CloseStopCh: Shutdown of the informers comes first.
CloseStopChLate ==
    /\ main = "stop"
    /\ informers = "stopped"
    /\ stopCh' = TRUE
    /\ main' = "informers"
    /\ UNCHANGED <<ttlFlag, ttl, copy, ctx, attempts, informers, serve, ready, runErr,
                   failed, certVars>>

CloseStopCh ==
    /\ main = "stop"
    /\ stopCh' = TRUE
    /\ main' = "informers"
    /\ UNCHANGED <<ttlFlag, ttl, copy, ctx, attempts, informers, serve, ready, runErr,
                   failed, certVars>>

ShutdownInformers ==
    /\ main = "informers"
    /\ informers = "stopped"
    /\ main' = "cache"
    /\ UNCHANGED <<ttlFlag, ttl, copy, ctx, verif, serve, ready, runErr, failed, certVars>>

\* The cache is closed and the process exits.
CloseCache ==
    /\ main = "cache"
    /\ Exit(runErr)
    /\ UNCHANGED <<ttlFlag, plugins, signalled, failed>>

\* The container is killed at any point.
Kill ==
    /\ main # "exited"
    /\ Exit("killed")
    /\ UNCHANGED <<ttlFlag, plugins, signalled, failed>>

\* The kubelet restarts it, with the same flags and volumes.
Restart ==
    /\ main = "exited"
    /\ main' = "flags"
    /\ runErr' = "none"
    /\ signalled' = FALSE /\ failed' = FALSE
    /\ UNCHANGED <<ttlFlag, ttl, copy, mgr, verif, serve, ready, certVars>>

-----------------------------------------------------------------------------

Init ==
    /\ CertInit
    /\ main = "flags" /\ runErr = "none"
    /\ ttlFlag \in TTLFlags /\ ttl = 0
    /\ plugins = [p \in PluginFiles |-> "none"] /\ copied = {} /\ writing = {}
    /\ signalled = FALSE /\ failed = FALSE /\ mgr = "off"
    /\ attempts = 0 /\ informers = "off" /\ stopCh = FALSE
    /\ srv = [s \in Servers |-> "off"] /\ shut = [s \in Servers |-> "no"]
    /\ ready = FALSE /\ plain = {} /\ timedOut = FALSE

\* What the main goroutine does by itself.
MainStep ==
    \/ CacheTTL
    \/ \E p \in PluginFiles : TruncatePlugin(p) \/ WritePlugin(p)
    \/ StartManager
    \/ NewVerifier \/ NewVerifierFails
    \/ StartServers \/ StoreReady
    \/ EndReload
    \/ StoreUnready
    \/ \E s \in Servers : CloseListener(s) \/ ShutdownReturns(s)
    \/ Stop \/ CloseStopCh \/ ShutdownInformers \/ CloseCache

Next ==
    \/ MainStep \/ LeaveLoop
    \/ StartupFails \/ BeginReload \/ Signal \/ Kill \/ Restart
    \/ ManagerReturns \/ InformersEnd
    \/ \E s \in Servers : Listen(s) \/ ServerFails(s)
    \/ \E c \in PlainConns : PlainRequest(c) \/ PlainResponse(c)
    \/ \E c \in Conns : TLSConnect(c) \/ TLSHandshake(c) \/ TLSClose(c)
    \/ RotateSecret

Spec == Init /\ [][Next]_vars

\* The main goroutine and the informers are scheduled; select is fair among its
\* cases, so that reloads do not keep a case from being taken for ever.  Nothing
\* is assumed of clients and of the handlers that serve them.
FairSpec ==
    /\ Spec
    /\ WF_vars(MainStep)
    /\ SF_vars(LeaveLoop)
    /\ WF_vars(InformersEnd)

-----------------------------------------------------------------------------
(* Properties.                                                             *)

TypeOK ==
    /\ CertTypeOK
    /\ main \in {"flags", "plugins", "verifier", "servers", "ready", "loop", "reload",
                 "unready", "shutdown", "stop", "informers", "cache", "exited"}
    /\ runErr \in {"none", "startup", "server", "manager", "killed"}
    /\ ttl \in (-MaxInt - 1)..MaxInt
    /\ plugins \in [PluginFiles -> {"none", "partial", "whole"}]
    /\ copied \subseteq PluginFiles
    /\ writing \in {{}} \cup {{p} : p \in PluginFiles}
    /\ {signalled, failed, stopCh, ready, timedOut} \subseteq BOOLEAN
    /\ mgr \in {"off", "up", "nil", "error"}
    /\ attempts \in 0..(MaxAttempts - 1)
    /\ informers \in {"off", "up", "stopped"}
    /\ srv \in [Servers -> {"off", "starting", "up", "closed"}]
    /\ shut \in [Servers -> {"no", "waiting", "done"}]
    /\ plain \subseteq PlainConns

\* The exit status tells the truth: run returns nil only after a signal, and an
\* error only if the startup, a server or the manager failed, however these
\* events race for the select of the main loop.
ExitTruthful ==
    main = "exited" =>
        /\ runErr = "none" => signalled
        /\ runErr \in {"startup", "server", "manager"} => failed

\* Unless a Shutdown ran into its deadline, no request is in progress when Stop
\* closes the informers and the cache, although the servers are shut down one
\* after the other and the second one still accepts connections meanwhile.
DrainedBeforeStop ==
    main \in {"stop", "informers", "cache"} /\ ~timedOut =>
        \A s \in Servers : InProgress(s) = {}

\* When the verifier is created every plugin file is whole, also when an earlier
\* start was killed in the middle of overwriting one.
PluginsWhole ==
    main \notin {"flags", "plugins", "exited"} =>
        \A p \in PluginFiles : plugins[p] = "whole"

\* The TTL that cacheTTL passes on is the number of seconds in the flag, without
\* overflow; other values end the process.
TTLExact ==
    main \notin {"flags", "exited"} => ttl > 0 /\ ttl = ttlFlag * Second

\* After a signal, or after the manager or a server has failed, the process
\* exits: neither a retried start, nor reloads, nor clients that hold their
\* connections, nor the informers that Stop waits for keep it.
Exits == signalled \/ failed ~> main = "exited"

\* The comment on the readiness check says "Not ready until the verifier serves
\* requests, so Services do not route admission calls to a pod that would refuse
\* them."  It fails: the flag is set when the server goroutines have been
\* started, not when they listen.
ReadyServes == ready => \A s \in Servers : srv[s] # "starting"
=============================================================================
