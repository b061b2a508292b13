--------------------------- MODULE IbkrConnector ---------------------------
(* The IBKR connector runtime: ConnectorManager of ibkr-connector, one       *)
(* Python process whose coroutines interleave at their awaits.  sessions     *)
(* maps a connector to its ConnectorSession, an index of session (0: none);  *)
(* every start of the gateway makes a new one.  gateways are the sessions    *)
(* whose gateway process is alive.  create and restart replace a session     *)
(* under one asyncio.Lock, first come first served (managerLock: the holder, *)
(* then those who wait); stop and the status refresh, which probes the       *)
(* gateway over HTTP, run without it.  Calls are made by the connector's     *)
(* owner: require_owner refuses any other before it changes anything.        *)
EXTENDS Naturals, Sequences

CONSTANTS Connectors,
          Requesters,      \* coroutines that serve requests
          NoConnector,
          MaxSessions,  \* bound on the sessions ever made
          MaxRequests   \* bound on the requests that may await something

ASSUME IbkrAssumption == /\ NoConnector \notin Connectors
                         /\ MaxSessions \in Nat /\ MaxRequests \in Nat

VARIABLES sessions, session, gateways, managerLock, serving,
          requests,     \* requests made so far
          displaced     \* history: sessions replaced, with their gateway
                        \* running, by a restart that had waited for the
                        \* lock and had stopped an older one
ibkrVars == <<sessions, session, gateways, managerLock, serving, requests, displaced>>

Serve(pc, op, c, s, heard) ==
  [pc |-> pc, op |-> op, conn |-> c, ses |-> s, heard |-> heard]

Free == Serve("free", "none", NoConnector, 0, FALSE)

IbkrInit ==
  /\ sessions = [c \in Connectors |-> 0]
  /\ session = << >>
  /\ gateways = {}
  /\ managerLock = << >>
  /\ serving = [p \in Requesters |-> Free]
  /\ requests = 0
  /\ displaced = {}

Put(x, run, auth) == [x EXCEPT !.run = run, !.auth = auth]

NewSession(c, launched) ==
  [conn |-> c, process |-> launched, authenticated |-> FALSE,
   run |-> IF launched THEN "STARTING" ELSE "ERROR",
   auth |-> IF launched THEN "AUTHENTICATION_REQUIRED" ELSE "SESSION_EXPIRED"]

Stopped(x) == [Put(x, "STOPPED", "SESSION_EXPIRED") EXCEPT !.process = FALSE]

(* refresh_status awaits a probe of the gateway's port unless the session is *)
(* stopped or its gateway process has exited.                                *)
MustProbe(s) ==
  session[s].run # "STOPPED" /\ (session[s].process => s \in gateways)

Unprobed(x) == IF x.run = "STOPPED" THEN x ELSE Put(x, "ERROR", "SESSION_EXPIRED")

(* Only a gateway that is alive when the probe leaves can answer it.         *)
Probe(op, c, s, alive) == Serve("probing", op, c, s, alive # {})

Answers(heard) ==
  {"unavailable"} \cup
  IF heard THEN {"authenticated", "competing", "unauthenticated"} ELSE {}

(* What refresh_status makes of the answer, whatever the session has become. *)
Reported(x, answer) ==
  CASE answer = "authenticated" ->
         [Put(x, "CONNECTED", "CONNECTED") EXCEPT !.authenticated = TRUE]
    [] answer = "competing" -> Put(x, "DEGRADED", "SESSION_EXPIRED")
    [] answer = "unavailable" /\ x.run # "STARTING" /\ x.authenticated ->
         Put(x, "DEGRADED", "SESSION_EXPIRED")
    [] OTHER -> Put(x, "AUTHENTICATION_REQUIRED", "AUTHENTICATION_REQUIRED")

(* A new ConnectorSession in the place of the connector's, its gateway       *)
(* started if the gateway package is found, and then refreshed.              *)
Replace(p, op, c, base, alive, launched) ==
  LET n == Len(base) + 1
      live == IF launched THEN alive \cup {n} ELSE alive IN
  /\ n <= MaxSessions
  /\ session' = Append(base, NewSession(c, launched))
  /\ sessions' = [sessions EXCEPT ![c] = n]
  /\ gateways' = live
  /\ serving' = [serving EXCEPT ![p] = IF launched THEN Probe(op, c, n, live) ELSE Free]

Refresh(p, op, c, s) ==
  /\ IF MustProbe(s)
       THEN /\ serving' = [serving EXCEPT ![p] = Probe(op, c, s, gateways)]
            /\ UNCHANGED session
       ELSE /\ session' = [session EXCEPT ![s] = Unprobed(@)]
            /\ serving' = [serving EXCEPT ![p] = Free]
  /\ UNCHANGED <<sessions, gateways>>

(* create, once p has the lock; rest are the callers that wait behind it.    *)
(* The lock is held across the probe.                                        *)
CreateLocked(p, c, rest) ==
  LET s == sessions[c]
      Lock(held) == managerLock' = IF held THEN <<p>> \o rest ELSE rest
      running == {d \in Connectors : sessions[d] # 0 /\ session[sessions[d]].run # "STOPPED"} IN
  /\ \/ /\ IF c \in running THEN session[s].run = "ERROR" ELSE s = 0 /\ running # {}
        /\ serving' = [serving EXCEPT ![p] = Free]
        /\ Lock(FALSE)
        /\ UNCHANGED <<sessions, session, gateways>>
     \/ /\ c \in running /\ session[s].run # "ERROR"
        /\ Refresh(p, "create", c, s)
        /\ Lock(MustProbe(s))
     \/ /\ c \notin running /\ (s = 0 => running = {})
        /\ \E launched \in BOOLEAN :
              Replace(p, "create", c, session, gateways, launched) /\ Lock(launched)
  /\ UNCHANGED displaced

Queue(p, op, c, s) ==
  /\ managerLock' = Append(managerLock, p)
  /\ serving' = [serving EXCEPT ![p] = Serve("queued", op, c, s, FALSE)]

Arrive(p) ==
  /\ serving[p] = Free /\ requests < MaxRequests
  /\ requests' = requests + 1

Create(p, c) ==
  /\ Arrive(p)
  /\ IF managerLock = << >>
       THEN CreateLocked(p, c, << >>)
       ELSE Queue(p, "create", c, 0) /\ UNCHANGED <<sessions, session, gateways, displaced>>

(* stop kills the gateway before anything else runs; restart then takes the  *)
(* lock, at once if it is free, and starts another.                          *)
Halt(base, s) == [base EXCEPT ![s] = Stopped(@)]

(* The faulty form of Killed: a gateway that is still starting is left.      *)
KilledIfUp(base, s) ==
  IF base[s].process /\ base[s].run \in {"CONNECTED", "DEGRADED"} THEN gateways \ {s} ELSE gateways

Killed(base, s) == IF base[s].process THEN gateways \ {s} ELSE gateways

StopThenStart(p, c, base) ==
  LET s == sessions[c] IN
  /\ IF managerLock = << >>
       THEN /\ \E launched \in BOOLEAN :
                  Replace(p, "restart", c, Halt(base, s), Killed(base, s), launched)
            /\ UNCHANGED managerLock
       ELSE /\ Queue(p, "restart", c, s)
            /\ session' = Halt(base, s)
            /\ gateways' = Killed(base, s)
            /\ UNCHANGED sessions
  /\ UNCHANGED displaced

Stop(c) ==
  /\ sessions[c] # 0
  /\ session' = Halt(session, sessions[c])
  /\ gateways' = Killed(session, sessions[c])
  /\ UNCHANGED <<sessions, managerLock, serving, requests, displaced>>

Restart(p, c) ==
  Arrive(p) /\ sessions[c] # 0 /\ StopThenStart(p, c, session)

(* The lock reaches a caller that waited for it.                             *)
Wake(p) ==
  /\ serving[p].pc = "queued" /\ Head(managerLock) = p
  /\ UNCHANGED requests
  /\ LET q == serving[p] IN
     \/ q.op = "create" /\ CreateLocked(p, q.conn, Tail(managerLock))
     \/ /\ q.op = "restart"
        /\ \E launched \in BOOLEAN :
              Replace(p, "restart", q.conn, session, gateways, launched)
        /\ managerLock' = Tail(managerLock)
        /\ displaced' = displaced \cup {s \in gateways \ {q.ses} : s = sessions[q.conn]}

Status(p, c) ==
  /\ Arrive(p) /\ sessions[c] # 0
  /\ Refresh(p, "status", c, sessions[c])
  /\ UNCHANGED <<managerLock, displaced>>

MustRestart(x) ==
  x.auth = "SESSION_EXPIRED" \/ (x.auth = "AUTHENTICATION_REQUIRED" /\ x.authenticated)

(* connector_login: the status first, then a restart if the session is over. *)
Login(p, c) ==
  /\ Arrive(p) /\ sessions[c] # 0
  /\ IF MustProbe(sessions[c])
       THEN Refresh(p, "login", c, sessions[c]) /\ UNCHANGED <<managerLock, displaced>>
       ELSE StopThenStart(p, c, session)

Hear(p, answer) ==
  LET q == serving[p]
      base == [session EXCEPT ![q.ses] = Reported(@, answer)] IN
  /\ q.pc = "probing" /\ answer \in Answers(q.heard)
  /\ UNCHANGED requests
  /\ IF q.op = "login" /\ MustRestart(base[q.ses])
       THEN StopThenStart(p, q.conn, base)
       ELSE /\ session' = base
            /\ serving' = [serving EXCEPT ![p] = Free]
            /\ managerLock' = IF q.op = "create" THEN Tail(managerLock) ELSE managerLock
            /\ UNCHANGED <<sessions, gateways, displaced>>

GatewayExits(s) ==
  /\ gateways' = gateways \ {s}
  /\ UNCHANGED <<sessions, session, managerLock, serving, requests, displaced>>

IbkrNext ==
  \/ \E p \in Requesters, c \in Connectors :
        Create(p, c) \/ Restart(p, c) \/ Status(p, c) \/ Login(p, c)
  \/ \E p \in Requesters : Wake(p) \/ \E answer \in Answers(TRUE) : Hear(p, answer)
  \/ \E c \in Connectors : Stop(c)
  \/ \E s \in gateways : GatewayExits(s)

IbkrSpec == IbkrInit /\ [][IbkrNext]_ibkrVars

-----------------------------------------------------------------------------
RunStates == {"STARTING", "AUTHENTICATION_REQUIRED", "CONNECTED", "DEGRADED",
              "STOPPED", "ERROR"}
AuthStates == {"AUTHENTICATION_REQUIRED", "CONNECTED", "SESSION_EXPIRED"}

SessionRecord == [conn : Connectors, process : BOOLEAN, authenticated : BOOLEAN,
                  run : RunStates, auth : AuthStates]

ServingRecord == {Free} \cup
  [pc : {"queued", "probing"}, op : {"create", "restart", "status", "login"},
   conn : Connectors, ses : 0 .. Len(session), heard : BOOLEAN]

IbkrTypeOK ==
  /\ sessions \in [Connectors -> 0 .. Len(session)]
  /\ session \in Seq(SessionRecord)
  /\ gateways \subseteq 1 .. Len(session)
  /\ managerLock \in Seq(Requesters)
  /\ serving \in [Requesters -> ServingRecord]
  /\ requests \in 0 .. MaxRequests
  /\ displaced \subseteq 1 .. Len(session)

(* A gateway process that runs belongs to the session its connector names,   *)
(* where stop can find it, unless it was running when a restart that had     *)
(* waited for the lock put a newer session in the place of its own: between  *)
(* the stop of that restart and its turn, a create or another restart had    *)
(* started it, and start_session does not stop what it replaces.  That is    *)
(* the only way to lose a gateway: no create does it, no restart that got    *)
(* the lock at once, and no status overwritten by a late probe.              *)
GatewaysAccounted ==
  \A s \in gateways : sessions[session[s].conn] = s \/ s \in displaced

=============================================================================
