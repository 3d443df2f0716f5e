---------------------------- MODULE HubLifecycle ----------------------------
(***************************************************************************)
(* One hub process from start to exit (internal/hub/hub.go), with the      *)
(* readiness it reports (internal/obs/health.go) and the two HTTP servers  *)
(* it runs (internal/httpx/server.go). run() opens the state, mints the    *)
(* first admin key, starts the admin and the public server, starts the     *)
(* background goroutines and waits; a cancelled context drains it, and its *)
(* deferred calls close what was opened in the reverse order. The requests *)
(* in flight, the last-used writes they leave behind, the tunnels, the     *)
(* Service that routes to the pod and the state document all move on their *)
(* own meanwhile.                                                          *)
(***************************************************************************)
EXTENDS FiniteSets

CONSTANTS
  Reqs,    \* requests one life of the process sees, each served once
  Kinds,   \* what they are: reads, mutations, enrollments
  Spokes   \* spokes that may hold a tunnel to this replica

VARIABLES
  pc,        \* where run() stands
  cancelled, \* the process context: a signal arrived
  health,    \* obs.Health.components: ready or not
  draining,  \* obs.Health.draining
  server,    \* both httpx.Servers
  expired,   \* servers whose Shutdown ran out of grace
  store,     \* the credential store: none, open, closed
  running,   \* goroutines of the errgroup that have not returned
  inStore,   \* those of them inside a store operation
  req,       \* each request
  touching,  \* requests whose last-used write is still running
  accepting, \* the tunnel listener adopts connections (not listener.closed)
  sessions,  \* spokes with a live tunnel
  readable,  \* the state document can be read
  caShort,   \* the CA certificate expires within 24 hours
  routed     \* the Service sends traffic to this pod

vars == <<pc, cancelled, health, draining, server, expired, store, running, inStore,
          req, touching, accepting, sessions, readable, caShort, routed>>
env == <<cancelled, readable, caShort, routed>>
work == <<req, touching>>
tunnels == <<accepting, sessions>>
group == <<running, inStore>>
reports == <<health, draining>>
servers == <<server, expired>>

Components == {"store", "ca", "tunnel"}
Servers == {"admin", "public"}
(* The revocation enforcer and the registry's sweep (modules Revocation and *)
(* Registry) run in the same group and touch nothing of this state.         *)
Workers == {"rotator", "tunnel", "certs", "probe", "prune"}
StoreWorkers == {"probe", "prune"}
Startup == {"openCA", "openStore", "adminKey", "build", "startAdmin", "newTunnel", "startPublic", "group"}
Stopping == {"drain", "delay", "closeRegistry", "closeListener", "closeVerifier", "join"}
Unwinding == {"stopPublic", "stopAdmin", "closeStore", "done"}
NoReq == [server |-> "none", kind |-> "none", at |-> "none"]
InFlight(s) == {r \in Reqs : req[r].server = s /\ req[r].at \in {"verify", "guard", "work"}}

TypeOK ==
  /\ pc \in Startup \cup {"wait"} \cup Stopping \cup Unwinding
  /\ {cancelled, draining, accepting, readable, caShort, routed} \subseteq BOOLEAN
  /\ health \in [Components -> BOOLEAN]
  /\ server \in [Servers -> {"none", "serving", "stopping", "down"}] /\ expired \subseteq Servers
  /\ store \in {"none", "open", "closed"}
  /\ running \subseteq Workers /\ inStore \subseteq running \cap StoreWorkers
  /\ req \in [Reqs -> {NoReq} \cup [server : Servers, kind : Kinds,
                                   at : {"verify", "guard", "work", "end"}]]
  /\ touching \subseteq Reqs /\ sessions \subseteq Spokes

Ready == ~draining /\ \A c \in Components : health[c]

(* Run() registers every component as not ready before anything is opened. *)
Init ==
  /\ pc = "openCA" /\ cancelled = FALSE
  /\ health = [c \in Components |-> FALSE] /\ draining = FALSE
  /\ server = [s \in Servers |-> "none"] /\ expired = {}
  /\ store = "none" /\ running = {} /\ inStore = {}
  /\ req = [r \in Reqs |-> NoReq] /\ touching = {}
  /\ accepting = TRUE /\ sessions = {}
  /\ readable = TRUE /\ caShort \in BOOLEAN /\ routed = FALSE

-----------------------------------------------------------------------------
(* Startup. Each step may fail, and unwinds what was opened before it.     *)
(* gctx is the errgroup's context: no goroutine of the hub returns an      *)
(* error before it is cancelled, so it ends with the process context.      *)
gctxDone == cancelled

Set(c, ready) == health' = [health EXCEPT ![c] = ready]

openCA ==
  /\ pc = "openCA"
  /\ \/ pc' = "openStore" /\ Set("ca", TRUE)
     \/ pc' = "done" /\ UNCHANGED health
  /\ UNCHANGED <<env, draining, servers, store, group, work, tunnels>>

openStore ==
  /\ pc = "openStore"
  /\ \/ pc' = "adminKey" /\ store' = "open" /\ Set("store", TRUE)
     \/ pc' = "done" /\ UNCHANGED <<store, health>>
  /\ UNCHANGED <<env, draining, servers, group, work, tunnels>>

(* Steps that open nothing a deferred call would have to close. *)
Wire(at, next, unwind) ==
  /\ pc = at /\ pc' \in {next, unwind}
  /\ UNCHANGED <<env, reports, servers, store, group, work, tunnels>>

bootstrapAdminKey == Wire("adminKey", "build", "closeStore")
buildRequestPath == Wire("build", "startAdmin", "closeStore")
newTunnelServer == Wire("newTunnel", "startPublic", "stopAdmin")

(* httpx.Server.Start binds before it returns; a bind failure is its error. *)
Start(s, at, next, unwind) ==
  /\ pc = at
  /\ \/ pc' = next /\ server' = [server EXCEPT ![s] = "serving"]
     \/ pc' = unwind /\ UNCHANGED server
  /\ UNCHANGED <<env, reports, expired, store, group, work, tunnels>>

startAdmin == Start("admin", "startAdmin", "newTunnel", "closeStore")
startPublic == Start("public", "startPublic", "group", "stopAdmin")

(* The tunnel is ready once its route is mounted, and the goroutines start. *)
startGroup ==
  /\ pc = "group" /\ pc' = "wait"
  /\ Set("tunnel", TRUE) /\ running' = Workers
  /\ UNCHANGED <<env, draining, servers, store, inStore, work, tunnels>>

-----------------------------------------------------------------------------
(* Background goroutines. Each of them leaves its loop once gctx is done.   *)
watchCertExpiry ==
  /\ "certs" \in running
  /\ caShort /\ Set("ca", FALSE)
  /\ UNCHANGED <<pc, env, draining, servers, store, group, work, tunnels>>

(* The rotator promotes a successor, and every reader sees its expiry.      *)
rotate ==
  /\ "rotator" \in running /\ ~gctxDone
  /\ caShort /\ caShort' = FALSE
  /\ UNCHANGED <<pc, cancelled, readable, routed, reports, servers, store, group, work, tunnels>>

(* A probe or a prune pass enters the store, and comes out of it. *)
enterStore(w) ==
  /\ w \in (running \cap StoreWorkers) \ inStore
  /\ inStore' = inStore \cup {w}
  /\ UNCHANGED <<pc, env, reports, servers, store, running, work, tunnels>>

pruneOnce ==
  /\ "prune" \in inStore /\ inStore' = inStore \ {"prune"}
  /\ UNCHANGED <<pc, env, reports, servers, store, running, work, tunnels>>

(* A read cut off by the shutdown says nothing about the store. *)
probeStore ==
  /\ "probe" \in inStore /\ inStore' = inStore \ {"probe"}
  /\ \/ readable /\ Set("store", TRUE)
     \/ (~readable \/ gctxDone) /\ health' = [health EXCEPT !["store"] = @ /\ gctxDone]
  /\ UNCHANGED <<pc, env, draining, servers, store, running, work, tunnels>>

(* serveTunnel returns only when every session goroutine has finished. *)
workerReturns(w) ==
  /\ w \in running \ inStore /\ gctxDone
  /\ (w = "tunnel") => (~accepting /\ sessions = {})
  /\ running' = running \ {w}
  /\ UNCHANGED <<pc, env, reports, servers, store, inStore, work, tunnels>>

-----------------------------------------------------------------------------
(* Requests. The Service routes to the public server; the admin server is   *)
(* reached on loopback. A route authenticates, refuses a mutation while the *)
(* process drains, and then does its work; enrollment looks at the drain    *)
(* first.                                                                    *)
Alive == pc # "done"
At(r, at) == req' = [req EXCEPT ![r].at = at]

arrive(r, s, kind) ==
  /\ Alive /\ req[r] = NoReq /\ server[s] = "serving"
  /\ (s = "public") => routed
  /\ (kind = "enroll") => (s = "public")
  /\ req' = [req EXCEPT ![r] = [server |-> s, kind |-> kind,
                                at |-> IF kind = "enroll" THEN "guard" ELSE "verify"]]
  /\ UNCHANGED <<pc, env, reports, servers, store, group, touching, tunnels>>

(* What follows the check of the drain: enrollmentGate precedes Verify.     *)
AfterGuard(kind) == IF kind = "enroll" THEN "verify" ELSE "work"
AfterVerify(kind) == IF kind = "mutate" THEN "guard" ELSE "work"

guard(r) ==
  /\ Alive /\ req[r].at = "guard"
  /\ At(r, IF draining THEN "end" ELSE AfterGuard(req[r].kind))
  /\ UNCHANGED <<pc, env, reports, servers, store, group, touching, tunnels>>

(* A verified credential starts a last-used write that nobody waits for     *)
(* here; a cached one starts none, and a store that cannot be read or is    *)
(* closed refuses the request.                                              *)
Verify(r) ==
  /\ Alive /\ req[r].at = "verify"
  /\ \/ /\ store = "open" /\ readable
        /\ At(r, AfterVerify(req[r].kind))
        /\ touching' \in {touching, touching \cup {r}}
     \/ (store = "closed" \/ ~readable) /\ At(r, "end") /\ UNCHANGED touching
  /\ UNCHANGED <<pc, env, reports, servers, store, group, tunnels>>

(* The background half of Verifier.touch, bounded by touchTimeout. *)
touch(r) ==
  /\ Alive /\ r \in touching /\ touching' = touching \ {r}
  /\ UNCHANGED <<pc, env, reports, servers, store, group, req, tunnels>>

finish(r) ==
  /\ Alive /\ req[r].at = "work" /\ At(r, "end")
  /\ UNCHANGED <<pc, env, reports, servers, store, group, touching, tunnels>>

-----------------------------------------------------------------------------
(* Tunnels. A connection is adopted by a running Serve loop. Cancelling     *)
(* Serve's context stops the listener and ends every session it watches.    *)
adopt(k) ==
  /\ k \notin sessions /\ accepting /\ ~gctxDone
  /\ "tunnel" \in running /\ server["public"] = "serving" /\ routed
  /\ sessions' = sessions \cup {k}
  /\ UNCHANGED <<pc, env, reports, servers, store, group, work, accepting>>

stopAccepting ==
  /\ "tunnel" \in running /\ gctxDone
  /\ accepting /\ accepting' = FALSE
  /\ UNCHANGED <<pc, env, reports, servers, store, group, work, sessions>>

watch(k) ==
  /\ k \in sessions /\ (gctxDone \/ ~accepting)
  /\ sessions' = sessions \ {k}
  /\ UNCHANGED <<pc, env, reports, servers, store, group, work, accepting>>

spokeLeaves(k) ==
  /\ k \in sessions /\ sessions' = sessions \ {k}
  /\ UNCHANGED <<pc, env, reports, servers, store, group, work, accepting>>

-----------------------------------------------------------------------------
(* Shutdown: drain, then the deferred calls. *)
signal ==
  /\ ~cancelled /\ Alive /\ cancelled' = TRUE
  /\ UNCHANGED <<pc, readable, caShort, routed, reports, servers, store, group, work, tunnels>>

wait ==
  /\ pc = "wait" /\ gctxDone /\ pc' = "drain"
  /\ UNCHANGED <<env, reports, servers, store, group, work, tunnels>>

StartDraining ==
  /\ pc = "drain" /\ pc' = "delay" /\ draining' = TRUE
  /\ UNCHANGED <<env, health, servers, store, group, work, tunnels>>

(* ShutdownDrainDelay is chosen to outlast the endpoint controller. *)
sleepDrainDelay ==
  /\ pc = "delay" /\ ~routed /\ pc' = "closeRegistry"
  /\ UNCHANGED <<env, reports, servers, store, group, work, tunnels>>

closeRegistry ==
  /\ pc = "closeRegistry" /\ pc' = "closeListener" /\ sessions' = {}
  /\ UNCHANGED <<env, reports, servers, store, group, work, accepting>>

(* It waits for the sessions, or for the grace to run out. *)
closeListener ==
  /\ pc = "closeListener" /\ pc' = "closeVerifier" /\ accepting' = FALSE
  /\ UNCHANGED <<env, reports, servers, store, group, work, sessions>>

closeVerifier ==
  /\ pc = "closeVerifier" /\ touching = {} /\ pc' = "join"
  /\ UNCHANGED <<env, reports, servers, store, group, work, tunnels>>

joinFree ==
  /\ pc = "join" /\ pc' = "stopPublic"
  /\ UNCHANGED <<env, reports, servers, store, group, work, tunnels>>

join ==
  /\ pc = "join" /\ running = {} /\ pc' = "stopPublic"
  /\ UNCHANGED <<env, reports, servers, store, group, work, tunnels>>

(* httpx.Server.Shutdown: no new connection, then every request in flight,  *)
(* or the end of the grace with work still running.                         *)
stopServing(s, at) ==
  /\ pc = at /\ server[s] = "serving"
  /\ server' = [server EXCEPT ![s] = "stopping"]
  /\ UNCHANGED <<pc, env, reports, expired, store, group, work, tunnels>>

Shutdown(s, at, next) ==
  /\ pc = at /\ server[s] = "stopping" /\ pc' = next
  /\ server' = [server EXCEPT ![s] = "down"]
  /\ expired' = expired \cup (IF InFlight(s) = {} THEN {} ELSE {s})
  /\ UNCHANGED <<env, reports, store, group, work, tunnels>>

shutdown ==
  \/ stopServing("public", "stopPublic") \/ Shutdown("public", "stopPublic", "stopAdmin")
  \/ stopServing("admin", "stopAdmin") \/ Shutdown("admin", "stopAdmin", "closeStore")

closeStore ==
  /\ pc = "closeStore" /\ pc' = "done" /\ store' = "closed"
  /\ UNCHANGED <<env, reports, servers, group, work, tunnels>>

-----------------------------------------------------------------------------
(* The world outside: the endpoint controller follows /readyz, the document *)
(* breaks and is repaired, the CA certificate ages.                         *)
observe ==
  /\ routed # Ready /\ routed' = Ready /\ server["admin"] = "serving"
  /\ UNCHANGED <<pc, cancelled, readable, caShort, reports, servers, store, group, work, tunnels>>

document ==
  /\ readable' = ~readable
  /\ UNCHANGED <<pc, cancelled, caShort, routed, reports, servers, store, group, work, tunnels>>

age ==
  /\ ~caShort /\ caShort' = TRUE
  /\ UNCHANGED <<pc, cancelled, readable, routed, reports, servers, store, group, work, tunnels>>

main ==
  \/ openCA \/ openStore \/ bootstrapAdminKey \/ buildRequestPath \/ startAdmin \/ newTunnelServer
  \/ startPublic \/ startGroup \/ wait \/ StartDraining \/ sleepDrainDelay \/ closeRegistry
  \/ closeListener \/ closeVerifier \/ join \/ shutdown \/ closeStore

background ==
  \/ watchCertExpiry \/ rotate \/ pruneOnce \/ probeStore \/ stopAccepting
  \/ \E w \in Workers : enterStore(w) \/ workerReturns(w)

serving ==
  \/ \E r \in Reqs : \/ \E s \in Servers, kind \in Kinds : arrive(r, s, kind)
                     \/ guard(r) \/ Verify(r) \/ touch(r) \/ finish(r)
  \/ \E k \in Spokes : adopt(k) \/ watch(k) \/ spokeLeaves(k)

outside == signal \/ observe \/ (Alive /\ (document \/ age))

Next == main \/ background \/ serving \/ outside

Spec == Init /\ [][Next]_vars

-----------------------------------------------------------------------------
(* The deferred closeStore runs last. By then every background goroutine    *)
(* has returned, and a request is still running only on a server whose      *)
(* Shutdown gave up after its grace; this holds on every exit, the failed   *)
(* startups included.                                                       *)
StoreOutlivesWork ==
  store = "closed" => /\ inStore = {} /\ running = {}
                      /\ \A s \in Servers : server[s] \in {"none", "down"} /\ (InFlight(s) # {} => s \in expired)

(* /readyz answers 200 only while the public server takes requests and the  *)
(* store is open, from the last step of the startup to the first of drain.  *)
ReadyIsServing == Ready => server["public"] = "serving" /\ store = "open" /\ pc \in {"wait", "drain"}

(* drain() reports not ready and sleeps first, so the public server never   *)
(* refuses a connection that the Service still routes to it.                *)
ServesWhileRouted == routed => server["public"] = "serving"

Signalled == cancelled
Exited == pc = "done"
Serving == pc = "wait"
Readable == readable
ReadyIn(c) == health[c]

=============================================================================
