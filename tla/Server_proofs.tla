---------------------------- MODULE Server_proofs ----------------------------
(***************************************************************************)
(* Properties of Server for any servers, connections, plugin files, flags  *)
(* and machine integers.                                                   *)
(***************************************************************************)
EXTENDS Server, ServingCert_proofs

\* run has installed the plugins.
Later == {"verifier", "servers", "ready", "loop", "reload", "unready", "shutdown",
          "stop", "informers", "cache"}

\* The steps of the process after the plugins are installed, and of the goroutines.
LaterStep ==
    \/ NewVerifier \/ StartServers \/ StoreReady \/ Signal \/ ManagerReturns
    \/ InformersEnd \/ RotateSecret \/ BeginReload \/ EndReload \/ LeaveLoop
    \/ StoreUnready \/ Stop \/ CloseStopCh \/ ShutdownInformers
    \/ \E s \in Servers : Listen(s) \/ ServerFails(s) \/ CloseListener(s)
                          \/ ShutdownReturns(s)
    \/ \E c \in PlainConns : PlainRequest(c) \/ PlainResponse(c)
    \/ \E c \in Conns : TLSConnect(c) \/ TLSHandshake(c) \/ TLSClose(c)

\* They leave the flags, the TTL and the plugins alone.
LEMMA LaterFrame ==
    ASSUME LaterStep
    PROVE  /\ UNCHANGED <<ttlFlag, ttl, plugins, copied, writing>>
           /\ main' = main \/ (main \in Later /\ main' \in Later)
<1> DEFINE Goal == /\ UNCHANGED <<ttlFlag, ttl, plugins, copied, writing>>
                   /\ main' = main \/ (main \in Later /\ main' \in Later)
<1> SUFFICES Goal
  OBVIOUS
<1>1. CASE NewVerifier
  BY <1>1 DEF NewVerifier, copy, Later
<1>2. CASE StartServers
  BY <1>2 DEF StartServers, copy, Later
<1>3. CASE StoreReady
  BY <1>3 DEF StoreReady, copy, Later
<1>4. CASE Signal
  BY <1>4 DEF Signal, copy, Later
<1>5. CASE ManagerReturns
  BY <1>5 DEF ManagerReturns, copy, Later
<1>6. CASE InformersEnd
  BY <1>6 DEF InformersEnd, copy, Later
<1>7. CASE RotateSecret
  BY <1>7 DEF RotateSecret, copy, life
<1>8. CASE BeginReload
  BY <1>8 DEF BeginReload, copy, Later
<1>9. CASE EndReload
  BY <1>9 DEF EndReload, copy, Later
<1>10. CASE LeaveLoop
  BY <1>10 DEF LeaveLoop, copy, Later
<1>11. CASE StoreUnready
  BY <1>11 DEF StoreUnready, copy, Later
<1>12. CASE Stop
  BY <1>12 DEF Stop, copy, Later
<1>13. CASE CloseStopCh
  BY <1>13 DEF CloseStopCh, copy, Later
<1>14. CASE ShutdownInformers
  BY <1>14 DEF ShutdownInformers, copy, Later
<1>15. ASSUME NEW s \in Servers, Listen(s) PROVE Goal
  BY <1>15 DEF Listen, copy, Later
<1>16. ASSUME NEW s \in Servers, ServerFails(s) PROVE Goal
  BY <1>16 DEF ServerFails, copy, Later
<1>17. ASSUME NEW s \in Servers, CloseListener(s) PROVE Goal
  BY <1>17 DEF CloseListener, copy, Later
<1>18. ASSUME NEW s \in Servers, ShutdownReturns(s) PROVE Goal
  BY <1>18 DEF ShutdownReturns, copy, Later
<1>19. ASSUME NEW c \in PlainConns, PlainRequest(c) PROVE Goal
  BY <1>19 DEF PlainRequest, copy, life
<1>20. ASSUME NEW c \in PlainConns, PlainResponse(c) PROVE Goal
  BY <1>20 DEF PlainResponse, copy, life
<1>21. ASSUME NEW c \in Conns, TLSConnect(c) PROVE Goal
  BY <1>21 DEF TLSConnect, copy, life
<1>22. ASSUME NEW c \in Conns, TLSHandshake(c) PROVE Goal
  BY <1>22 DEF TLSHandshake, copy, life
<1>23. ASSUME NEW c \in Conns, TLSClose(c) PROVE Goal
  BY <1>23 DEF TLSClose, copy, life
<1> QED
  BY <1>1, <1>2, <1>3, <1>4, <1>5, <1>6, <1>7, <1>8, <1>9, <1>10, <1>11, <1>12,
     <1>13, <1>14, <1>15, <1>16, <1>17, <1>18, <1>19, <1>20, <1>21, <1>22, <1>23
     DEF LaterStep

\* What a step of Server is.
LEMMA NextCases ==
    ASSUME [Next]_vars
    PROVE  \/ LaterStep \/ CacheTTL \/ StartManager \/ StartupFails \/ NewVerifierFails
           \/ CloseCache \/ Kill \/ Restart
           \/ \E p \in PluginFiles : TruncatePlugin(p) \/ WritePlugin(p)
           \/ UNCHANGED vars
  BY DEF Next, MainStep, LaterStep

-----------------------------------------------------------------------------
(* Startup: the TTL and the plugins.                                       *)

\* A number of seconds that cacheTTL accepts gives a product that does not wrap.
LEMMA NoOverflow ==
    ASSUME NEW s \in Int, TTLValid(s)
    PROVE  /\ Wrapped(s * Second) = s * Second
           /\ s * Second > 0 /\ s * Second <= MaxInt
<1> DEFINE q == MaxInt \div Second
<1>1. MaxInt \in Nat /\ Second \in Nat /\ Second > 0 /\ s > 0 /\ s <= q
  BY ServerAssumption DEF TTLValid
<1>2. q \in Nat /\ q * Second <= MaxInt
  BY <1>1
<1>3. s * Second \in Int /\ s * Second > 0 /\ s * Second <= q * Second
  BY <1>1, <1>2
<1> HIDE DEF q
<1> DEFINE n == s * Second
<1>4. n \in Int /\ n > 0 /\ n <= MaxInt
  BY <1>1, <1>2, <1>3
<1> HIDE DEF n
<1>5. (n + MaxInt + 1) % (2 * MaxInt + 2) = n + MaxInt + 1
  BY <1>1, <1>4
<1>6. Wrapped(n) = n
  BY <1>1, <1>4, <1>5 DEF Wrapped
<1> QED
  BY <1>4, <1>6 DEF n

\* What is known of the files that this start has copied, and of the TTL.
StartInv ==
    /\ main \in {"flags", "plugins", "exited"} \cup Later
    /\ ttlFlag \in Int
    /\ plugins \in [PluginFiles -> {"none", "partial", "whole"}]
    /\ copied \subseteq PluginFiles
    /\ \A p \in copied : plugins[p] = "whole" /\ p \notin writing
    /\ main \in {"flags", "exited"} => copied = {} /\ writing = {}
    /\ main \in Later => copied = PluginFiles /\ writing = {}
    /\ TTLExact

\* The process starts with nothing copied.
LEMMA StartInit == Init => StartInv
  BY ServerAssumption DEF Init, StartInv, TTLExact, Later

\* Every step keeps it; a restart begins the copy anew.
LEMMA StartStep == StartInv /\ [Next]_vars => StartInv'
<1> SUFFICES ASSUME StartInv, [Next]_vars PROVE StartInv'
  OBVIOUS
<1> USE DEF StartInv
<1>1. CASE LaterStep
  BY <1>1, LaterFrame DEF TTLExact, Later
<1>2. CASE CacheTTL
  <2>1. CASE TTLValid(ttlFlag)
    <3>1. /\ main' = "plugins" /\ ttl' = Wrapped(ttlFlag * Second)
          /\ UNCHANGED <<ttlFlag, plugins, copied, writing>>
      BY <1>2, <2>1 DEF CacheTTL
    <3>2. TTLExact'
      BY <2>1, <3>1, NoOverflow DEF TTLExact
    <3> QED
      BY <1>2, <3>1, <3>2 DEF CacheTTL, Later
  <2>2. CASE ~TTLValid(ttlFlag)
    BY <1>2, <2>2 DEF CacheTTL, Exit, TTLExact, Later
  <2> QED
    BY <2>1, <2>2
<1>3. CASE StartManager
  <2>1. copied = PluginFiles
    BY <1>3 DEF StartManager, ToCopy
  <2> QED
    BY <1>3, <2>1 DEF StartManager, copy, TTLExact, Later
<1>4. CASE StartupFails
  BY <1>4 DEF StartupFails, Exit, TTLExact, Later
<1>5. CASE NewVerifierFails
  <2>1. CASE Retries
    BY <1>5, <2>1 DEF NewVerifierFails, TTLExact, Later
  <2>2. CASE ~Retries
    BY <1>5, <2>2 DEF NewVerifierFails, Exit, TTLExact, Later
  <2> QED
    BY <2>1, <2>2
<1>6. CASE CloseCache
  BY <1>6 DEF CloseCache, Exit, TTLExact, Later
<1>7. CASE Kill
  BY <1>7 DEF Kill, Exit, TTLExact, Later
<1>8. CASE Restart
  BY <1>8 DEF Restart, copy, TTLExact, Later
<1>9. ASSUME NEW p \in PluginFiles, TruncatePlugin(p) PROVE StartInv'
  BY <1>9 DEF TruncatePlugin, ToCopy, TTLExact, Later
<1>10. ASSUME NEW p \in PluginFiles, WritePlugin(p) PROVE StartInv'
  <2>1. main = "plugins"
    BY <1>10 DEF WritePlugin
  <2> QED
    BY <1>10, <2>1 DEF WritePlugin, TTLExact, Later
<1>11. CASE UNCHANGED vars
  BY <1>11 DEF vars, process, TTLExact, Later
<1> QED
  BY NextCases, <1>1, <1>2, <1>3, <1>4, <1>5, <1>6, <1>7, <1>8, <1>9, <1>10, <1>11

\* All starts go through the same states.
LEMMA StartInvariant == Spec => []StartInv
  BY StartInit, StartStep, PTL DEF Spec

\* Past the copy every plugin is whole, whatever earlier starts were killed in,
\* since installPlugins overwrites each file.
THEOREM PluginsWholeHolds == Spec => []PluginsWhole
<1>1. StartInv => PluginsWhole
  BY DEF StartInv, PluginsWhole
<1> QED
  BY <1>1, StartInvariant, PTL

\* The check of cacheTTL excludes every overflow, for any width of integers.
THEOREM TTLExactHolds == Spec => []TTLExact
<1>1. StartInv => TTLExact
  BY DEF StartInv
<1> QED
  BY <1>1, StartInvariant, PTL

-----------------------------------------------------------------------------
(* The certificates: the process as a whole behaves as ServingCert.        *)

\* Seen from the handshakes, a step of the process is one of ServingCert or none.
LEMMA CertFrame == [Next]_vars => [CertNext]_certVars
<1> SUFFICES ASSUME [Next]_vars PROVE [CertNext]_certVars
  OBVIOUS
<1> USE DEF CertNext
<1>1. CASE CacheTTL
  BY <1>1 DEF CacheTTL, Exit
<1>2. CASE StartManager
  BY <1>2 DEF StartManager
<1>3. CASE StartupFails
  BY <1>3 DEF StartupFails, Exit
<1>4. CASE NewVerifier
  BY <1>4 DEF NewVerifier
<1>5. CASE NewVerifierFails
  BY <1>5 DEF NewVerifierFails, Exit
<1>6. CASE StartServers
  BY <1>6 DEF StartServers
<1>7. CASE StoreReady
  BY <1>7 DEF StoreReady
<1>8. CASE Signal
  BY <1>8 DEF Signal
<1>9. CASE ManagerReturns
  BY <1>9 DEF ManagerReturns
<1>10. CASE InformersEnd
  BY <1>10 DEF InformersEnd
<1>11. CASE RotateSecret
  BY <1>11 DEF RotateSecret
<1>12. CASE BeginReload
  BY <1>12 DEF BeginReload
<1>13. CASE EndReload
  BY <1>13 DEF EndReload
<1>14. CASE LeaveLoop
  BY <1>14 DEF LeaveLoop
<1>15. CASE StoreUnready
  BY <1>15 DEF StoreUnready
<1>16. CASE Stop
  BY <1>16 DEF Stop
<1>17. CASE CloseStopCh
  BY <1>17 DEF CloseStopCh
<1>18. CASE ShutdownInformers
  BY <1>18 DEF ShutdownInformers
<1>19. CASE CloseCache
  BY <1>19 DEF CloseCache, Exit
<1>20. CASE Kill
  BY <1>20 DEF Kill, Exit
<1>21. CASE Restart
  BY <1>21 DEF Restart
<1>22. ASSUME NEW p \in PluginFiles, TruncatePlugin(p) PROVE [CertNext]_certVars
  BY <1>22 DEF TruncatePlugin
<1>23. ASSUME NEW p \in PluginFiles, WritePlugin(p) PROVE [CertNext]_certVars
  BY <1>23 DEF WritePlugin
<1>24. ASSUME NEW s \in Servers, Listen(s) PROVE [CertNext]_certVars
  BY <1>24 DEF Listen
<1>25. ASSUME NEW s \in Servers, ServerFails(s) PROVE [CertNext]_certVars
  BY <1>25 DEF ServerFails
<1>26. ASSUME NEW s \in Servers, CloseListener(s) PROVE [CertNext]_certVars
  BY <1>26 DEF CloseListener
<1>27. ASSUME NEW s \in Servers, ShutdownReturns(s) PROVE [CertNext]_certVars
  BY <1>27 DEF ShutdownReturns
<1>28. ASSUME NEW c \in PlainConns, PlainRequest(c) PROVE [CertNext]_certVars
  BY <1>28 DEF PlainRequest
<1>29. ASSUME NEW c \in PlainConns, PlainResponse(c) PROVE [CertNext]_certVars
  BY <1>29 DEF PlainResponse
<1>30. ASSUME NEW c \in Conns, TLSConnect(c) PROVE [CertNext]_certVars
  BY <1>30 DEF TLSConnect
<1>31. ASSUME NEW c \in Conns, TLSHandshake(c) PROVE [CertNext]_certVars
  BY <1>31 DEF TLSHandshake
<1>32. ASSUME NEW c \in Conns, TLSClose(c) PROVE [CertNext]_certVars
  BY <1>32 DEF TLSClose
<1>33. CASE UNCHANGED vars
  BY <1>33 DEF vars
<1> QED
  BY <1>1, <1>2, <1>3, <1>4, <1>5, <1>6, <1>7, <1>8, <1>9, <1>10, <1>11, <1>12,
     <1>13, <1>14, <1>15, <1>16, <1>17, <1>18, <1>19, <1>20, <1>21, <1>22, <1>23,
     <1>24, <1>25, <1>26, <1>27, <1>28, <1>29, <1>30, <1>31, <1>32, <1>33 DEF Next, MainStep

\* The process implements CertSource over all its restarts.
THEOREM ServerServesCurrent == Spec => ServesCurrent
<1>1. Init => CertInit
  BY DEF Init
<1>2. Spec => CertSpec
  BY <1>1, CertFrame, PTL DEF Spec, CertSpec
<1> QED
  BY <1>2, CertImplements, PTL

-----------------------------------------------------------------------------
(* The exit status and the shutdown.                                       *)

Ending == {"shutdown", "stop", "informers", "cache"}

ProcessType ==
    /\ main \in {"flags", "plugins", "exited"} \cup Later
    /\ mgr \in {"off", "up", "nil", "error"}
    /\ srv \in [Servers -> {"off", "starting", "up", "closed"}]
    /\ shut \in [Servers -> {"no", "waiting", "done"}]

\* Before it ends the process knows of a failure for every error that the loop
\* may pick up; afterwards what it picked up is the truth.
ExitInv ==
    /\ main \in {"flags", "exited"} => mgr = "off" /\ \A s \in Servers : srv[s] = "off"
    /\ mgr = "error" => failed
    /\ mgr = "nil" => failed \/ CtxDone
    /\ main \notin Ending => \A s \in Servers : shut[s] = "no"
    /\ \A s \in Servers : srv[s] = "closed" /\ shut[s] = "no" => failed
    /\ main \in Ending \cup {"unready", "exited"} =>
         /\ runErr = "none" => signalled
         /\ runErr \in {"startup", "server", "manager"} => failed

\* A server that is shut down accepts nothing, so what is drained stays drained.
DrainInv ==
    /\ \A s \in Servers : shut[s] # "no" => srv[s] # "up"
    /\ \A s \in Servers : shut[s] = "done" /\ ~timedOut => InProgress(s) = {}
    /\ main \in Ending \ {"shutdown"} => \A s \in Servers : shut[s] = "done"

RunInv == ProcessType /\ ExitInv /\ DrainInv

\* A process begins with its servers off.
LEMMA RunInit == Init => RunInv
  BY DEF Init, RunInv, ProcessType, ExitInv, DrainInv, Ending, Later

\* Every step keeps the types of what the invariants speak of.
LEMMA ProcessTypeStep ==
    ProcessType /\ [Next]_vars => ProcessType'
<1> SUFFICES ASSUME ProcessType, [Next]_vars PROVE ProcessType'
  OBVIOUS
<1> USE DEF ProcessType, Later
<1>1. CASE CacheTTL
  BY <1>1 DEF CacheTTL, Exit, ctx, serve
<1>2. CASE StartManager
  BY <1>2 DEF StartManager, ctx, serve
<1>3. CASE StartupFails
  BY <1>3 DEF StartupFails, Exit, ctx, serve
<1>4. CASE NewVerifier
  BY <1>4 DEF NewVerifier, ctx, serve
<1>5. CASE NewVerifierFails
  BY <1>5 DEF NewVerifierFails, Exit, ctx, serve
<1>6. CASE StartServers
  BY <1>6 DEF StartServers, ctx, serve
<1>7. CASE StoreReady
  BY <1>7 DEF StoreReady, ctx, serve
<1>8. CASE Signal
  BY <1>8 DEF Signal, ctx, serve
<1>9. CASE ManagerReturns
  BY <1>9 DEF ManagerReturns, ctx, serve
<1>10. CASE InformersEnd
  BY <1>10 DEF InformersEnd, ctx, serve
<1>11. CASE RotateSecret
  BY <1>11 DEF RotateSecret, life, ctx, serve
<1>12. CASE BeginReload
  BY <1>12 DEF BeginReload, ctx, serve
<1>13. CASE EndReload
  BY <1>13 DEF EndReload, ctx, serve
<1>14. CASE LeaveLoop
  BY <1>14 DEF LeaveLoop, ManagerError, ctx, serve
<1>15. CASE StoreUnready
  BY <1>15 DEF StoreUnready, ctx, serve
<1>16. CASE Stop
  BY <1>16 DEF Stop, ctx, serve
<1>17. CASE CloseStopCh
  BY <1>17 DEF CloseStopCh, ctx, serve
<1>18. CASE ShutdownInformers
  BY <1>18 DEF ShutdownInformers, ctx, serve
<1>19. CASE CloseCache
  BY <1>19 DEF CloseCache, Exit, ctx, serve
<1>20. CASE Kill
  BY <1>20 DEF Kill, Exit, ctx, serve
<1>21. CASE Restart
  BY <1>21 DEF Restart, ctx, serve
<1>22. ASSUME NEW p \in PluginFiles, TruncatePlugin(p) PROVE ProcessType'
  BY <1>22 DEF TruncatePlugin, ctx, serve
<1>23. ASSUME NEW p \in PluginFiles, WritePlugin(p) PROVE ProcessType'
  BY <1>23 DEF WritePlugin, ctx, serve
<1>24. ASSUME NEW s \in Servers, Listen(s) PROVE ProcessType'
  BY <1>24 DEF Listen, ctx, serve
<1>25. ASSUME NEW s \in Servers, ServerFails(s) PROVE ProcessType'
  BY <1>25 DEF ServerFails, ctx, serve
<1>26. ASSUME NEW s \in Servers, CloseListener(s) PROVE ProcessType'
  BY <1>26 DEF CloseListener, ctx, serve
<1>27. ASSUME NEW s \in Servers, ShutdownReturns(s) PROVE ProcessType'
  BY <1>27 DEF ShutdownReturns, ctx, serve
<1>28. ASSUME NEW c \in PlainConns, PlainRequest(c) PROVE ProcessType'
  BY <1>28 DEF PlainRequest, life, ctx, serve
<1>29. ASSUME NEW c \in PlainConns, PlainResponse(c) PROVE ProcessType'
  BY <1>29 DEF PlainResponse, life, ctx, serve
<1>30. ASSUME NEW c \in Conns, TLSConnect(c) PROVE ProcessType'
  BY <1>30 DEF TLSConnect, life, ctx, serve
<1>31. ASSUME NEW c \in Conns, TLSHandshake(c) PROVE ProcessType'
  BY <1>31 DEF TLSHandshake, life, ctx, serve
<1>32. ASSUME NEW c \in Conns, TLSClose(c) PROVE ProcessType'
  BY <1>32 DEF TLSClose, life, ctx, serve
<1>33. CASE UNCHANGED vars
  BY <1>33 DEF vars, process
<1> QED
  BY <1>1, <1>2, <1>3, <1>4, <1>5, <1>6, <1>7, <1>8, <1>9, <1>10, <1>11, <1>12,
     <1>13, <1>14, <1>15, <1>16, <1>17, <1>18, <1>19, <1>20, <1>21, <1>22, <1>23,
     <1>24, <1>25, <1>26, <1>27, <1>28, <1>29, <1>30, <1>31, <1>32, <1>33 DEF Next, MainStep

\* Every step keeps the exit status truthful.
LEMMA ExitStep ==
    RunInv /\ [Next]_vars => ExitInv'
<1> SUFFICES ASSUME RunInv, [Next]_vars PROVE ExitInv'
  OBVIOUS
<1> USE DEF RunInv, ProcessType, ExitInv, Ending, Later, CtxDone
<1>1. CASE CacheTTL
  BY <1>1 DEF CacheTTL, Exit, ctx, serve
<1>2. CASE StartManager
  BY <1>2 DEF StartManager, ctx, serve
<1>3. CASE StartupFails
  BY <1>3 DEF StartupFails, Exit, ctx, serve
<1>4. CASE NewVerifier
  BY <1>4 DEF NewVerifier, ctx, serve
<1>5. CASE NewVerifierFails
  BY <1>5 DEF NewVerifierFails, Exit, ctx, serve
<1>6. CASE StartServers
  BY <1>6 DEF StartServers, ctx, serve
<1>7. CASE StoreReady
  BY <1>7 DEF StoreReady, ctx, serve
<1>8. CASE Signal
  BY <1>8 DEF Signal, ctx, serve
<1>9. CASE ManagerReturns
  BY <1>9 DEF ManagerReturns, ctx, serve
<1>10. CASE InformersEnd
  BY <1>10 DEF InformersEnd, ctx, serve
<1>11. CASE RotateSecret
  BY <1>11 DEF RotateSecret, life, ctx, serve
<1>12. CASE BeginReload
  BY <1>12 DEF BeginReload, ctx, serve
<1>13. CASE EndReload
  BY <1>13 DEF EndReload, ctx, serve
<1>14. CASE LeaveLoop
  BY <1>14 DEF LeaveLoop, ManagerError, ctx, serve
<1>15. CASE StoreUnready
  BY <1>15 DEF StoreUnready, ctx, serve
<1>16. CASE Stop
  BY <1>16 DEF Stop, ctx, serve
<1>17. CASE CloseStopCh
  BY <1>17 DEF CloseStopCh, ctx, serve
<1>18. CASE ShutdownInformers
  BY <1>18 DEF ShutdownInformers, ctx, serve
<1>19. CASE CloseCache
  BY <1>19 DEF CloseCache, Exit, ctx, serve
<1>20. CASE Kill
  BY <1>20 DEF Kill, Exit, ctx, serve
<1>21. CASE Restart
  BY <1>21 DEF Restart, ctx, serve
<1>22. ASSUME NEW p \in PluginFiles, TruncatePlugin(p) PROVE ExitInv'
  BY <1>22 DEF TruncatePlugin, ctx, serve
<1>23. ASSUME NEW p \in PluginFiles, WritePlugin(p) PROVE ExitInv'
  BY <1>23 DEF WritePlugin, ctx, serve
<1>24. ASSUME NEW s \in Servers, Listen(s) PROVE ExitInv'
  BY <1>24 DEF Listen, ctx, serve
<1>25. ASSUME NEW s \in Servers, ServerFails(s) PROVE ExitInv'
  BY <1>25 DEF ServerFails, ctx, serve
<1>26. ASSUME NEW s \in Servers, CloseListener(s) PROVE ExitInv'
  BY <1>26 DEF CloseListener, ctx, serve
<1>27. ASSUME NEW s \in Servers, ShutdownReturns(s) PROVE ExitInv'
  BY <1>27 DEF ShutdownReturns, ctx, serve
<1>28. ASSUME NEW c \in PlainConns, PlainRequest(c) PROVE ExitInv'
  BY <1>28 DEF PlainRequest, life, ctx, serve
<1>29. ASSUME NEW c \in PlainConns, PlainResponse(c) PROVE ExitInv'
  BY <1>29 DEF PlainResponse, life, ctx, serve
<1>30. ASSUME NEW c \in Conns, TLSConnect(c) PROVE ExitInv'
  BY <1>30 DEF TLSConnect, life, ctx, serve
<1>31. ASSUME NEW c \in Conns, TLSHandshake(c) PROVE ExitInv'
  BY <1>31 DEF TLSHandshake, life, ctx, serve
<1>32. ASSUME NEW c \in Conns, TLSClose(c) PROVE ExitInv'
  BY <1>32 DEF TLSClose, life, ctx, serve
<1>33. CASE UNCHANGED vars
  BY <1>33 DEF vars, process
<1> QED
  BY <1>1, <1>2, <1>3, <1>4, <1>5, <1>6, <1>7, <1>8, <1>9, <1>10, <1>11, <1>12,
     <1>13, <1>14, <1>15, <1>16, <1>17, <1>18, <1>19, <1>20, <1>21, <1>22, <1>23,
     <1>24, <1>25, <1>26, <1>27, <1>28, <1>29, <1>30, <1>31, <1>32, <1>33 DEF Next, MainStep

\* Every step keeps drained servers drained.
LEMMA DrainStep ==
    RunInv /\ CertTypeOK /\ [Next]_vars => DrainInv'
<1> SUFFICES ASSUME RunInv, CertTypeOK, [Next]_vars PROVE DrainInv'
  OBVIOUS
<1> USE DEF RunInv, ProcessType, DrainInv, Ending, Later, InProgress, CertTypeOK
<1>1. CASE CacheTTL
  BY <1>1 DEF CacheTTL, Exit, ctx, serve, Forget, certVars
<1>2. CASE StartManager
  BY <1>2 DEF StartManager, ctx, serve, certVars
<1>3. CASE StartupFails
  BY <1>3 DEF StartupFails, Exit, ctx, serve, Forget, certVars
<1>4. CASE NewVerifier
  BY <1>4 DEF NewVerifier, ctx, serve, certVars
<1>5. CASE NewVerifierFails
  BY <1>5 DEF NewVerifierFails, Exit, ctx, serve, Forget, certVars
<1>6. CASE StartServers
  BY <1>6 DEF StartServers, ctx, serve, certVars
<1>7. CASE StoreReady
  BY <1>7 DEF StoreReady, ctx, serve, certVars
<1>8. CASE Signal
  BY <1>8 DEF Signal, ctx, serve, certVars
<1>9. CASE ManagerReturns
  BY <1>9 DEF ManagerReturns, ctx, serve, certVars
<1>10. CASE InformersEnd
  BY <1>10 DEF InformersEnd, ctx, serve, certVars
<1>11. CASE RotateSecret
  BY <1>11 DEF RotateSecret, life, ctx, serve, Rotate, certVars
<1>12. CASE BeginReload
  BY <1>12 DEF BeginReload, ctx, serve, certVars
<1>13. CASE EndReload
  BY <1>13 DEF EndReload, ctx, serve, certVars
<1>14. CASE LeaveLoop
  BY <1>14 DEF LeaveLoop, ManagerError, ctx, serve, certVars
<1>15. CASE StoreUnready
  BY <1>15 DEF StoreUnready, ctx, serve, certVars
<1>16. CASE Stop
  BY <1>16 DEF Stop, ctx, serve, certVars
<1>17. CASE CloseStopCh
  BY <1>17 DEF CloseStopCh, ctx, serve, certVars
<1>18. CASE ShutdownInformers
  BY <1>18 DEF ShutdownInformers, ctx, serve, certVars
<1>19. CASE CloseCache
  BY <1>19 DEF CloseCache, Exit, ctx, serve, Forget, certVars
<1>20. CASE Kill
  BY <1>20 DEF Kill, Exit, ctx, serve, Forget, certVars
<1>21. CASE Restart
  BY <1>21 DEF Restart, ctx, serve, certVars
<1>22. ASSUME NEW p \in PluginFiles, TruncatePlugin(p) PROVE DrainInv'
  BY <1>22 DEF TruncatePlugin, ctx, serve, certVars
<1>23. ASSUME NEW p \in PluginFiles, WritePlugin(p) PROVE DrainInv'
  BY <1>23 DEF WritePlugin, ctx, serve, certVars
<1>24. ASSUME NEW s \in Servers, Listen(s) PROVE DrainInv'
  BY <1>24 DEF Listen, ctx, serve, certVars
<1>25. ASSUME NEW s \in Servers, ServerFails(s) PROVE DrainInv'
  BY <1>25 DEF ServerFails, ctx, serve, certVars
<1>26. ASSUME NEW s \in Servers, CloseListener(s) PROVE DrainInv'
  BY <1>26 DEF CloseListener, ctx, serve, certVars
<1>27. ASSUME NEW s \in Servers, ShutdownReturns(s) PROVE DrainInv'
  BY <1>27 DEF ShutdownReturns, ctx, serve, certVars, Drained
<1>28. ASSUME NEW c \in PlainConns, PlainRequest(c) PROVE DrainInv'
  BY <1>28 DEF PlainRequest, life, ctx, serve, certVars
<1>29. ASSUME NEW c \in PlainConns, PlainResponse(c) PROVE DrainInv'
  BY <1>29 DEF PlainResponse, life, ctx, serve, certVars
<1>30. ASSUME NEW c \in Conns, TLSConnect(c) PROVE DrainInv'
  <2>1. shut["https"] = "no"
    BY <1>30 DEF TLSConnect
  <2>2. \A s \in Servers : s # "https" => s = "http"
    BY ServerAssumption
  <2>3. UNCHANGED <<main, srv, shut, timedOut, plain>>
    BY <1>30 DEF TLSConnect, life
  <2> QED
    BY <2>1, <2>2, <2>3
<1>31. ASSUME NEW c \in Conns, TLSHandshake(c) PROVE DrainInv'
  BY <1>31 DEF TLSHandshake, life, ctx, serve, Handshake, GetSecret, LoadCurrent,
        ParseAndStore, certVars
<1>32. ASSUME NEW c \in Conns, TLSClose(c) PROVE DrainInv'
  BY <1>32 DEF TLSClose, life, ctx, serve, Hello, Hangup, certVars
<1>33. CASE UNCHANGED vars
  BY <1>33 DEF vars, process, certVars
<1> QED
  BY <1>1, <1>2, <1>3, <1>4, <1>5, <1>6, <1>7, <1>8, <1>9, <1>10, <1>11, <1>12,
     <1>13, <1>14, <1>15, <1>16, <1>17, <1>18, <1>19, <1>20, <1>21, <1>22, <1>23,
     <1>24, <1>25, <1>26, <1>27, <1>28, <1>29, <1>30, <1>31, <1>32, <1>33 DEF Next, MainStep

\* All of it holds throughout.
LEMMA RunInvariant == Spec => []RunInv
<1>1. Spec => CertSpec
  BY CertFrame, PTL DEF Spec, CertSpec, Init
<1>2. CertInv => CertTypeOK
  BY DEF CertInv
<1>3. RunInv /\ CertTypeOK /\ [Next]_vars => RunInv'
  BY ProcessTypeStep, ExitStep, DrainStep DEF RunInv
<1> QED
  BY RunInit, CertInvariant, <1>1, <1>2, <1>3, PTL DEF Spec

\* The exit status is truthful, however the manager, the servers and the signal
\* race for the select of the main loop.
THEOREM ExitTruthfulHolds == Spec => []ExitTruthful
<1>1. RunInv => ExitTruthful
  BY DEF RunInv, ExitInv, ExitTruthful
<1> QED
  BY <1>1, RunInvariant, PTL

\* Stop finds no request in progress, for any number of connections, unless the
\* deadline of Shutdown has passed.
THEOREM DrainedBeforeStopHolds == Spec => []DrainedBeforeStop
<1>1. RunInv => DrainedBeforeStop
  BY DEF RunInv, DrainInv, DrainedBeforeStop, Ending
<1> QED
  BY <1>1, RunInvariant, PTL

-----------------------------------------------------------------------------
(* Types.                                                                  *)

\* The variables that the invariants above do not speak of.
RestType ==
    /\ runErr \in {"none", "startup", "server", "manager", "killed"}
    /\ ttl \in (-MaxInt - 1)..MaxInt
    /\ writing \in {{}} \cup {{p} : p \in PluginFiles}
    /\ {signalled, failed, stopCh, ready, timedOut} \subseteq BOOLEAN
    /\ attempts \in 0..(MaxAttempts - 1)
    /\ informers \in {"off", "up", "stopped"}
    /\ plain \subseteq PlainConns

\* Every step keeps their types: the product in CacheTTL does not overflow, one
\* plugin file is written at a time and NewVerifier is not tried more than MaxAttempts
\* times.
LEMMA RestTypeStep == RestType /\ StartInv /\ [Next]_vars => RestType'
<1> SUFFICES ASSUME RestType, StartInv, [Next]_vars PROVE RestType'
  OBVIOUS
<1>a. 0 \in (-MaxInt - 1)..MaxInt /\ 0 \in 0..(MaxAttempts - 1)
  BY ServerAssumption
<1> USE Zenon DEF RestType, copy, ctx, verif, serve
<1>1. ASSUME NEW e \in {"startup", "killed", runErr}, Exit(e), UNCHANGED signalled,
             failed' = TRUE \/ UNCHANGED failed
      PROVE  RestType'
  BY <1>a, <1>1 DEF Exit
<1>2. CASE CacheTTL
  <2>1. CASE TTLValid(ttlFlag)
    <3>1. Wrapped(ttlFlag * Second) \in (-MaxInt - 1)..MaxInt
      <4>1. ttlFlag \in Int
        BY DEF StartInv
      <4>2. /\ Wrapped(ttlFlag * Second) = ttlFlag * Second
            /\ ttlFlag * Second > 0 /\ ttlFlag * Second <= MaxInt
        BY <2>1, <4>1, NoOverflow
      <4>3. ttlFlag * Second \in Int /\ MaxInt \in Nat
        BY <4>1, ServerAssumption, SMT
      <4> QED
        BY <4>2, <4>3, SMT
    <3> QED
      BY <1>2, <2>1, <3>1 DEF CacheTTL
  <2>2. CASE ~TTLValid(ttlFlag)
    BY <1>1, <1>2, <2>2 DEF CacheTTL
  <2> QED
    BY <2>1, <2>2
<1>3. CASE NewVerifierFails
  <2>1. Retries => attempts + 1 \in 0..(MaxAttempts - 1)
    BY ServerAssumption, SMT DEF Retries
  <2> QED
    BY <1>1, <1>3, <2>1 DEF NewVerifierFails
<1>4. CASE StartupFails \/ CloseCache \/ Kill
  BY <1>1, <1>4 DEF StartupFails, CloseCache, Kill
<1>5. CASE Restart
  BY <1>5 DEF Restart
<1>6. ASSUME NEW p \in PluginFiles, TruncatePlugin(p) \/ WritePlugin(p) PROVE RestType'
  BY <1>6 DEF TruncatePlugin, WritePlugin
<1>7. CASE \/ StartManager \/ StartServers \/ BeginReload \/ EndReload
           \/ Stop \/ ShutdownInformers
  BY <1>7 DEF StartManager, StartServers, BeginReload, EndReload, Stop, ShutdownInformers
<1>8. CASE NewVerifier \/ InformersEnd
  BY <1>a, <1>8 DEF NewVerifier, InformersEnd
<1>9. CASE StoreReady \/ StoreUnready \/ Signal \/ CloseStopCh
  BY <1>9 DEF StoreReady, StoreUnready, Signal, CloseStopCh
<1>10. CASE ManagerReturns
  BY <1>10 DEF ManagerReturns
<1>11. CASE LeaveLoop
  BY <1>11 DEF LeaveLoop, ManagerError
<1>12. ASSUME NEW s \in Servers, Listen(s) \/ ServerFails(s) PROVE RestType'
  BY <1>12 DEF Listen, ServerFails
<1>13. ASSUME NEW s \in Servers, CloseListener(s) \/ ShutdownReturns(s) PROVE RestType'
  BY <1>13 DEF CloseListener, ShutdownReturns
<1>14. ASSUME NEW c \in PlainConns, PlainRequest(c) \/ PlainResponse(c) PROVE RestType'
  BY <1>14 DEF PlainRequest, PlainResponse, life
<1>15. ASSUME NEW c \in Conns, TLSConnect(c) \/ TLSHandshake(c) \/ TLSClose(c)
       PROVE  RestType'
  BY <1>15 DEF TLSConnect, TLSHandshake, TLSClose, life
<1>16. CASE RotateSecret
  BY <1>16 DEF RotateSecret, life
<1>17. CASE UNCHANGED vars
  BY <1>17 DEF vars, process
<1> QED
  BY <1>2, <1>3, <1>4, <1>5, <1>6, <1>7, <1>8, <1>9, <1>10, <1>11, <1>12, <1>13, <1>14,
     <1>15, <1>16, <1>17 DEF Next, MainStep

\* Each variable of the process keeps its type: the TTL stays a machine integer, and
\* at most one plugin file is being written.
THEOREM ServerTypeCorrect == Spec => []TypeOK
<1>1. Init => RestType
  <2>1. 0 \in (-MaxInt - 1)..MaxInt /\ 0 \in 0..(MaxAttempts - 1)
    BY ServerAssumption
  <2> QED
    BY <2>1, Zenon DEF Init, RestType
<1>2. Spec => []RestType
  BY <1>1, RestTypeStep, StartInvariant, PTL DEF Spec
<1>3. Spec => CertSpec
  BY CertFrame, PTL DEF Spec, CertSpec, Init
<1>4. CertInv /\ StartInv /\ RunInv /\ RestType => TypeOK
  BY Zenon DEF CertInv, StartInv, RunInv, ProcessType, RestType, TypeOK, Later
<1> QED
  BY <1>2, <1>3, <1>4, CertInvariant, StartInvariant, RunInvariant, PTL
=============================================================================
