------------------------- MODULE IbkrConnectorProofs -------------------------
(* For any number of connectors, coroutines, sessions and requests: the      *)
(* connector loses no gateway process but one that a restart finds running   *)
(* after it has waited for the lock, and whoever waits for the lock is in    *)
(* the queue of it.                                                          *)
(*                                                                           *)
(* The argument.  A gateway that is alive belongs to a session with a        *)
(* process, and a stopped session has none: create, which replaces a session *)
(* only when it is stopped, and restart, which stops it first, take no       *)
(* running gateway out of reach.  A restart that waited may find, in place   *)
(* of the session it stopped, one that a create or another restart has       *)
(* started since; if its gateway runs, that session is displaced.            *)
EXTENDS IbkrConnector, SequenceTheorems, TLAPS

(* The sessions, and the gateways that are alive.                            *)
SessionsOK(map, base, alive, out) ==
  /\ base \in Seq(SessionRecord)
  /\ map \in [Connectors -> 0 .. Len(base)]
  /\ alive \subseteq 1 .. Len(base) /\ out \subseteq 1 .. Len(base)
  /\ \A s \in alive : base[s].process
  /\ \A s \in 1 .. Len(base) : base[s].run = "STOPPED" => ~ base[s].process
  /\ \A c \in Connectors : map[c] # 0 => base[map[c]].conn = c
  /\ \A s \in 1 .. Len(base) : map[base[s].conn] # 0
  /\ \A s \in alive : map[base[s].conn] = s \/ s \in out

(* Of the sessions there are, none is forgotten and no process comes back.   *)
Later(base, next) ==
  /\ Len(base) <= Len(next)
  /\ \A s \in 1 .. Len(base) :
       next[s].conn = base[s].conn /\ (next[s].process => base[s].process)

(* What a request waits for: the lock, or the answer about a session.  A     *)
(* restart that waits has stopped the session it was made for.               *)
Tickets(base) ==
  {q \in {Free} \cup [pc : {"queued", "probing"}, op : {"create", "restart", "status", "login"},
                      conn : Connectors, ses : 0 .. Len(base), heard : BOOLEAN] :
     /\ q.pc = "probing" => q.ses # 0 /\ base[q.ses].conn = q.conn
     /\ q.pc = "queued" =>
          \/ q.op = "create"
          \/ q.op = "restart" /\ q.ses # 0 /\ ~ base[q.ses].process}

Holds(q) == q.pc = "probing" /\ q.op = "create"

(* Whoever waits for the lock is in its queue, and who holds it across a     *)
(* probe is at its head.                                                     *)
QueueOK(lock, waiting) ==
  /\ lock \in Seq(Requesters)
  /\ \A p \in Requesters :
       /\ waiting[p].pc = "queued" => \E i \in 1 .. Len(lock) : lock[i] = p
       /\ Holds(waiting[p]) => lock # << >> /\ lock[1] = p

IbkrInv ==
  /\ SessionsOK(sessions, session, gateways, displaced)
  /\ serving \in [Requesters -> Tickets(session)]
  /\ QueueOK(managerLock, serving)
  /\ requests \in 0 .. MaxRequests

-----------------------------------------------------------------------------
(* A session whose states change keeps its connector and its process.        *)
LEMMA StatesChange ==
  ASSUME NEW map, NEW base, NEW alive, NEW out, SessionsOK(map, base, alive, out),
         NEW s \in 1 .. Len(base), NEW x \in SessionRecord,
         x.conn = base[s].conn, x.process = base[s].process,
         x.run = "STOPPED" => ~ x.process
  PROVE  /\ SessionsOK(map, [base EXCEPT ![s] = x], alive, out)
         /\ Later(base, [base EXCEPT ![s] = x])
<1> DEFINE next == [base EXCEPT ![s] = x]
<1>1. /\ next \in Seq(SessionRecord) /\ Len(next) = Len(base)
      /\ \A j \in 1 .. Len(base) : next[j] = IF j = s THEN x ELSE base[j]
  BY ExceptSeq DEF SessionsOK
<1>2. Len(base) \in Nat
  BY DEF SessionsOK
<1> HIDE DEF next
<1>3. SessionsOK(map, next, alive, out)
  <2>1. \A t \in 1 .. Len(base) : /\ next[t].conn = base[t].conn
                                  /\ next[t].process = base[t].process
                                  /\ next[t].run = "STOPPED" => ~ next[t].process
    BY <1>1 DEF SessionsOK
  <2>2. /\ map \in [Connectors -> 0 .. Len(next)] /\ alive \subseteq 1 .. Len(next)
        /\ out \subseteq 1 .. Len(next)
    BY <1>1 DEF SessionsOK
  <2>3. /\ \A t \in alive : next[t].process
        /\ \A t \in alive : map[next[t].conn] = t \/ t \in out
        /\ \A t \in 1 .. Len(next) : map[next[t].conn] # 0
    BY <1>1, <2>1 DEF SessionsOK
  <2>4. \A c \in Connectors : map[c] # 0 => next[map[c]].conn = c
    BY <1>2, <2>1 DEF SessionsOK
  <2> QED
    BY <1>1, <2>1, <2>2, <2>3, <2>4 DEF SessionsOK
<1>4. Later(base, next)
  BY <1>1, <1>2 DEF Later
<1> QED
  BY <1>3, <1>4 DEF next

(* stop leaves its session without a process and without a gateway.          *)
LEMMA HaltStops ==
  ASSUME NEW map, NEW base, NEW out, SessionsOK(map, base, gateways, out),
         NEW s \in 1 .. Len(base)
  PROVE  /\ SessionsOK(map, Halt(base, s), Killed(base, s), out)
         /\ Later(base, Halt(base, s)) /\ Len(Halt(base, s)) = Len(base)
         /\ s \notin Killed(base, s) /\ ~ Halt(base, s)[s].process
<1> DEFINE next == Halt(base, s)
<1>1. base[s] \in SessionRecord
  BY DEF SessionsOK
<1>2. /\ Stopped(base[s]) \in SessionRecord /\ Stopped(base[s]).conn = base[s].conn
      /\ ~ Stopped(base[s]).process
  BY <1>1 DEF Stopped, Put, SessionRecord, RunStates, AuthStates
<1>3. next = [base EXCEPT ![s] = Stopped(base[s])]
  BY DEF Halt
<1>4. /\ next \in Seq(SessionRecord) /\ Len(next) = Len(base) /\ Len(base) \in Nat
      /\ \A j \in 1 .. Len(base) : next[j] = IF j = s THEN Stopped(base[s]) ELSE base[j]
  BY <1>2, <1>3, ExceptSeq DEF SessionsOK
<1>5. /\ s \notin Killed(base, s)
      /\ Killed(base, s) \subseteq gateways /\ gateways \subseteq Killed(base, s) \cup {s}
  BY DEF Killed, SessionsOK
<1> HIDE DEF next
<1>6. SessionsOK(map, next, Killed(base, s), out)
  <2>1. /\ map \in [Connectors -> 0 .. Len(next)] /\ out \subseteq 1 .. Len(next)
        /\ Killed(base, s) \subseteq 1 .. Len(next)
    BY <1>4, <1>5 DEF SessionsOK
  <2>2. \A t \in Killed(base, s) : next[t] = base[t] /\ t \in gateways
    BY <1>4, <1>5 DEF SessionsOK
  <2>3. /\ \A t \in Killed(base, s) : next[t].process
        /\ \A t \in Killed(base, s) : map[next[t].conn] = t \/ t \in out
    BY <2>2 DEF SessionsOK
  <2>4. \A t \in 1 .. Len(next) : next[t].run = "STOPPED" => ~ next[t].process
    BY <1>2, <1>4 DEF SessionsOK
  <2>5. \A c \in Connectors : map[c] # 0 => next[map[c]].conn = c
    BY <1>2, <1>4 DEF SessionsOK
  <2>6. \A t \in 1 .. Len(next) : map[next[t].conn] # 0
    BY <1>2, <1>4 DEF SessionsOK
  <2> QED
    BY <1>4, <2>1, <2>3, <2>4, <2>5, <2>6 DEF SessionsOK
<1>7. Later(base, next) /\ ~ next[s].process
  BY <1>2, <1>4 DEF Later
<1> QED
  BY <1>4, <1>5, <1>6, <1>7 DEF next

(* Session x takes the place of connector c's, and no gateway of that one is *)
(* left behind but one that is counted as displaced.                         *)
Joins(x, c, map, base, alive, out, names, next, live, after) ==
  /\ SessionsOK(map, base, alive, out)
  /\ c \in Connectors /\ x \in SessionRecord /\ x.conn = c /\ x.run # "STOPPED"
  /\ next = Append(base, x) /\ names = [map EXCEPT ![c] = Len(base) + 1]
  /\ live \subseteq alive \cup {Len(base) + 1}
  /\ Len(base) + 1 \in live => x.process
  /\ out \subseteq after /\ after \subseteq 1 .. Len(base)
  /\ map[c] \notin alive \/ map[c] \in after

(* It then is the session that c names, and every gateway is accounted for.  *)
LEMMA SessionJoins ==
  ASSUME NEW x, NEW c, NEW map, NEW base, NEW alive, NEW out,
         NEW names, NEW next, NEW live, NEW after,
         Joins(x, c, map, base, alive, out, names, next, live, after)
  PROVE  /\ SessionsOK(names, next, live, after) /\ Later(base, next)
         /\ Len(next) = Len(base) + 1
<1> DEFINE n == Len(base) + 1
<1> USE DEF Joins
<1>2. /\ next \in Seq(SessionRecord) /\ Len(next) = n /\ Len(base) \in Nat
      /\ \A j \in 1 .. Len(base) : next[j] = base[j]
      /\ next[n] = x
  BY AppendProperties DEF SessionsOK
<1>3. names \in [Connectors -> 0 .. Len(next)]
  BY <1>2 DEF SessionsOK
<1>4. live \subseteq 1 .. Len(next) /\ after \subseteq 1 .. Len(next)
  <2>1. alive \subseteq 1 .. Len(base) /\ 1 .. Len(base) \subseteq 1 .. n /\ n \in 1 .. n
    BY <1>2 DEF SessionsOK
  <2>2. 0 .. Len(base) \subseteq 0 .. n
    BY <1>2
  <2> QED
    BY <1>2, <2>1, <2>2
<1>5. \A s \in live : next[s].process
  BY <1>2 DEF SessionsOK
<1>6. \A s \in 1 .. Len(next) : next[s].run = "STOPPED" => ~ next[s].process
  BY <1>2 DEF SessionsOK
<1>7. ASSUME NEW d \in Connectors, names[d] # 0
      PROVE  next[names[d]].conn = d
  <2>1. CASE d = c
    BY <1>2, <2>1 DEF SessionsOK
  <2>2. CASE d # c
    <3>1. names[d] = map[d] /\ map[d] \in 1 .. Len(base)
      BY <1>2, <1>7, <2>2 DEF SessionsOK
    <3> QED
      BY <1>2, <3>1 DEF SessionsOK
  <2> QED
    BY <2>1, <2>2
<1>8. ASSUME NEW s \in live
      PROVE  names[next[s].conn] = s \/ s \in after
  <2>1. CASE s = n
    BY <1>2, <2>1 DEF SessionsOK
  <2>2. CASE s # n
    <3>1. s \in alive /\ s \in 1 .. Len(base)
      BY <2>2 DEF SessionsOK
    <3>2. next[s] = base[s] /\ base[s].conn \in Connectors
      <4>1. base[s] \in SessionRecord
        BY <3>1 DEF SessionsOK
      <4> QED
        BY <1>2, <3>1, <4>1 DEF SessionRecord
    <3>3. map[base[s].conn] = s \/ s \in out
      BY <3>1 DEF SessionsOK
    <3>4. CASE base[s].conn = c
      BY <3>1, <3>3, <3>4
    <3>5. CASE base[s].conn # c
      BY <3>2, <3>3, <3>5 DEF SessionsOK
    <3> QED
      BY <3>4, <3>5
  <2> QED
    BY <2>1, <2>2
<1>9. ASSUME NEW s \in 1 .. Len(next)
      PROVE  names[next[s].conn] # 0
  <2>1. CASE s = n
    BY <1>2, <2>1 DEF SessionsOK
  <2>2. CASE s # n
    <3>1. s \in 1 .. Len(base)
      BY <1>2, <2>2
    <3>2. next[s] = base[s] /\ base[s] \in SessionRecord /\ map[base[s].conn] # 0
      BY <1>2, <3>1 DEF SessionsOK
    <3>3. base[s].conn \in Connectors
      BY <3>2 DEF SessionRecord
    <3>4. CASE base[s].conn = c
      BY <1>2, <3>2, <3>4 DEF SessionsOK
    <3>5. CASE base[s].conn # c
      BY <3>2, <3>3, <3>5 DEF SessionsOK
    <3> QED
      BY <3>4, <3>5
  <2> QED
    BY <2>1, <2>2
<1>11. SessionsOK(names, next, live, after)
  BY <1>2, <1>3, <1>4, <1>5, <1>6, <1>7, <1>8, <1>9 DEF SessionsOK
<1>10. Later(base, next)
  BY <1>2 DEF Later
<1> QED
  BY <1>2, <1>11, <1>10

(* What a request waits for stands while sessions come and stop.             *)
LEMMA TicketsStand ==
  ASSUME NEW base \in Seq(SessionRecord), NEW next \in Seq(SessionRecord), Later(base, next),
         NEW waiting \in [Requesters -> Tickets(base)]
  PROVE  waiting \in [Requesters -> Tickets(next)]
<1>1. Len(base) \in Nat /\ Len(next) \in Nat /\ Len(base) <= Len(next)
  BY DEF Later
<1>2. 0 .. Len(base) \subseteq 0 .. Len(next)
  BY <1>1
<1>3. ASSUME NEW q \in Tickets(base)
      PROVE  q \in Tickets(next)
  <2>1. CASE q = Free
    BY <2>1 DEF Tickets, Free, Serve
  <2>2. CASE q # Free
    <3>1. q \in [pc : {"queued", "probing"}, op : {"create", "restart", "status", "login"},
                 conn : Connectors, ses : 0 .. Len(next), heard : BOOLEAN]
      BY <1>2, <2>2 DEF Tickets
    <3>2. q.pc = "probing" => q.ses # 0 /\ base[q.ses].conn = q.conn
      BY DEF Tickets
    <3>3. q.pc = "queued" =>
            \/ q.op = "create"
            \/ q.op = "restart" /\ q.ses # 0 /\ ~ base[q.ses].process
      BY ZenonT(30) DEF Tickets
    <3>4. q.ses \in 0 .. Len(base)
      BY <2>2 DEF Tickets
    <3>5. q.ses # 0 => /\ ~ base[q.ses].process => ~ next[q.ses].process
                       /\ next[q.ses].conn = base[q.ses].conn
      BY <1>1, <3>4 DEF Later
    <3> QED
      BY <3>1, <3>2, <3>3, <3>5 DEF Tickets
  <2> QED
    BY <2>1, <2>2
<1> QED
  BY <1>3

(* A request that probes a session, and one that is over.                    *)
LEMMA TicketsMade ==
  ASSUME NEW base \in Seq(SessionRecord), NEW c \in Connectors, NEW s \in 1 .. Len(base),
         base[s].conn = c, NEW op \in {"create", "restart", "status", "login"}, NEW alive
  PROVE  /\ Free \in Tickets(base) /\ Free.pc = "free" /\ Free.op = "none"
         /\ Probe(op, c, s, alive) \in Tickets(base)
         /\ Probe(op, c, s, alive).pc = "probing" /\ Probe(op, c, s, alive).op = op
<1>1. Free \in Tickets(base) /\ Free.pc = "free" /\ Free.op = "none"
  BY DEF Tickets, Free, Serve
<1>2. /\ Probe(op, c, s, alive).pc = "probing" /\ Probe(op, c, s, alive).op = op
      /\ Probe(op, c, s, alive).ses = s /\ Probe(op, c, s, alive).conn = c
  BY DEF Probe, Serve
<1>3. Probe(op, c, s, alive) \in
        [pc : {"queued", "probing"}, op : {"create", "restart", "status", "login"},
         conn : Connectors, ses : 0 .. Len(base), heard : BOOLEAN]
  BY DEF Probe, Serve
<1> QED
  BY <1>1, <1>2, <1>3 DEF Tickets

(* A request that needs no lock leaves the queue alone.                      *)
LEMMA QueueUntouched ==
  ASSUME NEW lock, NEW waiting \in [Requesters -> Tickets(session)], QueueOK(lock, waiting),
         NEW p \in Requesters, NEW q, q.pc # "queued", ~ Holds(q)
  PROVE  QueueOK(lock, [waiting EXCEPT ![p] = q])
BY DEF QueueOK

(* One more waits at the end of the queue.                                   *)
LEMMA QueueGrows ==
  ASSUME NEW lock, NEW waiting \in [Requesters -> Tickets(session)], QueueOK(lock, waiting),
         NEW p \in Requesters, NEW q, q.pc = "queued", lock # << >>
  PROVE  QueueOK(Append(lock, p), [waiting EXCEPT ![p] = q])
<1> DEFINE next == Append(lock, p)
<1>1. /\ lock \in Seq(Requesters) /\ Len(lock) \in Nat /\ Len(lock) # 0
      /\ next \in Seq(Requesters) /\ next # << >> /\ Len(next) = Len(lock) + 1
      /\ \A i \in 1 .. Len(lock) : next[i] = lock[i]
      /\ next[Len(lock) + 1] = p
  BY AppendProperties, EmptySeq DEF QueueOK
<1> HIDE DEF next
<1>2. ASSUME NEW r \in Requesters, r # p
      PROVE  /\ waiting[r].pc = "queued" => \E i \in 1 .. Len(next) : next[i] = r
             /\ Holds(waiting[r]) => next # << >> /\ next[1] = r
  BY <1>1 DEF QueueOK
<1>3. /\ \E i \in 1 .. Len(next) : next[i] = p
      /\ ~ Holds(q)
  BY <1>1 DEF Holds
<1>4. QueueOK(next, [waiting EXCEPT ![p] = q])
  BY <1>1, <1>2, <1>3 DEF QueueOK
<1> QED
  BY <1>4 DEF next

(* The head of the queue leaves it.                                          *)
LEMMA QueueAdvances ==
  ASSUME NEW lock, NEW waiting \in [Requesters -> Tickets(session)], QueueOK(lock, waiting),
         NEW p \in Requesters, lock # << >>, lock[1] = p,
         NEW q, q.pc # "queued", ~ Holds(q)
  PROVE  QueueOK(Tail(lock), [waiting EXCEPT ![p] = q])
<1> DEFINE rest == Tail(lock)
<1>1. /\ lock \in Seq(Requesters) /\ Len(lock) \in Nat /\ rest \in Seq(Requesters)
      /\ Len(rest) = Len(lock) - 1 /\ Len(rest) \in Nat
      /\ \A i \in 1 .. Len(rest) : rest[i] = lock[i + 1]
  BY HeadTailProperties, LenProperties DEF QueueOK
<1> HIDE DEF rest
<1>2. ASSUME NEW r \in Requesters, r # p
      PROVE  /\ waiting[r].pc = "queued" => \E i \in 1 .. Len(rest) : rest[i] = r
             /\ ~ Holds(waiting[r])
  <2>1. ~ Holds(waiting[r])
    BY <1>2 DEF QueueOK
  <2>2. ASSUME waiting[r].pc = "queued"
        PROVE  \E i \in 1 .. Len(rest) : rest[i] = r
    <3>1. PICK i \in 1 .. Len(lock) : lock[i] = r
      BY <2>2 DEF QueueOK
    <3>2. i # 1 /\ i - 1 \in 1 .. Len(rest) /\ rest[i - 1] = r
      BY <1>1, <1>2, <3>1
    <3> QED
      BY <3>2
  <2> QED
    BY <2>1, <2>2
<1>3. QueueOK(rest, [waiting EXCEPT ![p] = q])
  BY <1>1, <1>2 DEF QueueOK
<1> QED
  BY <1>3 DEF rest

(* The lock is held on across a probe, by the head of the queue or by a      *)
(* request that found it free.                                               *)
LEMMA QueueKept ==
  ASSUME NEW lock, NEW waiting \in [Requesters -> Tickets(session)], QueueOK(lock, waiting),
         NEW p \in Requesters, NEW rest, NEW q, q.pc # "queued",
         \/ lock = << >> /\ rest = << >>
         \/ lock # << >> /\ lock[1] = p /\ rest = Tail(lock)
  PROVE  QueueOK(<<p>> \o rest, [waiting EXCEPT ![p] = q])
<1> DEFINE next == <<p>> \o rest
<1>1. CASE lock = << >> /\ rest = << >>
  <2>1. next = <<p>>
    BY <1>1
  <2>2. next \in Seq(Requesters) /\ next # << >> /\ next[1] = p
    <3>1. <<p>> \in Seq(Requesters) /\ Len(<<p>>) = 1 /\ <<p>>[1] = p
      OBVIOUS
    <3> QED
      BY <2>1, <3>1, EmptySeq
  <2>3. \A r \in Requesters : waiting[r].pc # "queued" /\ ~ Holds(waiting[r])
    <3>1. Len(lock) = 0
      BY <1>1
    <3> QED
      BY <1>1, <3>1 DEF QueueOK
  <2> HIDE DEF next
  <2>4. QueueOK(next, [waiting EXCEPT ![p] = q])
    BY <2>2, <2>3 DEF QueueOK
  <2> QED
    BY <2>4 DEF next
<1>2. CASE lock # << >> /\ lock[1] = p /\ rest = Tail(lock)
  <2>1. lock \in Seq(Requesters)
    BY DEF QueueOK
  <2>2. next = lock
    <3>1. /\ rest \in Seq(Requesters) /\ Len(rest) = Len(lock) - 1
          /\ \A i \in 1 .. Len(rest) : rest[i] = lock[i + 1]
          /\ Len(lock) \in Nat /\ Len(lock) # 0
      BY <1>2, <2>1, HeadTailProperties, LenProperties, EmptySeq
    <3>2. <<p>> \in Seq(Requesters) /\ Len(<<p>>) = 1 /\ <<p>>[1] = p
      OBVIOUS
    <3>3. /\ next \in Seq(Requesters) /\ Len(next) = 1 + Len(rest)
          /\ \A i \in 1 .. 1 + Len(rest) :
               next[i] = IF i <= 1 THEN p ELSE rest[i - 1]
      BY <3>1, <3>2, ConcatProperties
    <3> HIDE DEF next
    <3>4. Len(next) = Len(lock)
      BY <3>1, <3>3
    <3>5. \A i \in 1 .. Len(next) : next[i] = lock[i]
      BY <1>2, <3>1, <3>3
    <3> QED
      BY <2>1, <3>3, <3>4, <3>5, SeqEqual
  <2> HIDE DEF next
  <2>3. \E i \in 1 .. Len(lock) : lock[i] = p
    BY <1>2, <2>1
  <2>4. QueueOK(next, [waiting EXCEPT ![p] = q])
    BY <1>2, <2>1, <2>2, <2>3 DEF QueueOK
  <2> QED
    BY <2>4 DEF next
<1> QED
  BY <1>1, <1>2

(* Nothing is wrong when the connector starts.                               *)
THEOREM IbkrInitInv == IbkrInit => IbkrInv
<1> SUFFICES ASSUME IbkrInit PROVE IbkrInv
  OBVIOUS
<1> USE IbkrAssumption
<1>1. << >> \in Seq(SessionRecord) /\ Len(<< >>) = 0 /\ << >> \in Seq(Requesters)
  BY EmptySeq
<1>2. SessionsOK(sessions, session, gateways, displaced)
  BY <1>1 DEF IbkrInit, SessionsOK
<1>3. serving \in [Requesters -> Tickets(session)] /\ requests \in 0 .. MaxRequests
  BY DEF IbkrInit, Tickets, Free, Serve
<1>4. QueueOK(managerLock, serving)
  BY <1>1 DEF IbkrInit, QueueOK, Free, Serve, Holds
<1> QED
  BY <1>2, <1>3, <1>4 DEF IbkrInv

(* The parts of a probe: it is made of a session, and its answer changes     *)
(* nothing of the session but its states.                                    *)
LEMMA StatesOfRefresh ==
  ASSUME NEW x \in SessionRecord, NEW answer
  PROVE  /\ Reported(x, answer) \in SessionRecord /\ Reported(x, answer).conn = x.conn
         /\ Reported(x, answer).process = x.process /\ Reported(x, answer).run # "STOPPED"
         /\ Unprobed(x) \in SessionRecord /\ Unprobed(x).conn = x.conn
         /\ Unprobed(x).process = x.process
         /\ Unprobed(x).run = "STOPPED" => x.run = "STOPPED"
<1>1. ASSUME NEW run \in RunStates, NEW auth \in AuthStates
      PROVE  /\ Put(x, run, auth) \in SessionRecord
             /\ Put(x, run, auth).conn = x.conn /\ Put(x, run, auth).process = x.process
             /\ Put(x, run, auth).run = run
  BY DEF Put, SessionRecord
<1>2. /\ "CONNECTED" \in RunStates /\ "DEGRADED" \in RunStates /\ "ERROR" \in RunStates
      /\ "AUTHENTICATION_REQUIRED" \in RunStates
      /\ "CONNECTED" \in AuthStates /\ "SESSION_EXPIRED" \in AuthStates
      /\ "AUTHENTICATION_REQUIRED" \in AuthStates
  BY DEF RunStates, AuthStates
<1>3. /\ Unprobed(x) \in SessionRecord /\ Unprobed(x).conn = x.conn
      /\ Unprobed(x).process = x.process
      /\ Unprobed(x).run = "STOPPED" => x.run = "STOPPED"
  <2>1. CASE x.run = "STOPPED"
    BY <2>1 DEF Unprobed
  <2>2. CASE x.run # "STOPPED"
    <3>1. Unprobed(x) = Put(x, "ERROR", "SESSION_EXPIRED")
      BY <2>2 DEF Unprobed
    <3> QED
      BY <1>1, <1>2, <3>1, "ERROR" # "STOPPED"
  <2> QED
    BY <2>1, <2>2
<1> DEFINE y == Reported(x, answer)
<1>4. \/ y = [Put(x, "CONNECTED", "CONNECTED") EXCEPT !.authenticated = TRUE]
      \/ y = Put(x, "DEGRADED", "SESSION_EXPIRED")
      \/ y = Put(x, "AUTHENTICATION_REQUIRED", "AUTHENTICATION_REQUIRED")
  BY DEF Reported
<1> HIDE DEF y
<1>5. /\ y \in SessionRecord /\ y.conn = x.conn /\ y.process = x.process
      /\ y.run # "STOPPED"
  <2>1. CASE y = [Put(x, "CONNECTED", "CONNECTED") EXCEPT !.authenticated = TRUE]
    BY <1>2, <2>1 DEF Put, SessionRecord
  <2>2. CASE y = Put(x, "DEGRADED", "SESSION_EXPIRED")
    BY <1>1, <1>2, <2>2, "DEGRADED" # "STOPPED"
  <2>3. CASE y = Put(x, "AUTHENTICATION_REQUIRED", "AUTHENTICATION_REQUIRED")
    BY <1>1, <1>2, <2>3, "AUTHENTICATION_REQUIRED" # "STOPPED"
  <2> QED
    BY <1>4, <2>1, <2>2, <2>3
<1> QED
  BY <1>3, <1>5 DEF y

(* Nothing is forgotten over two steps either.                               *)
LEMMA LaterTwice ==
  ASSUME NEW S, NEW x \in Seq(S), NEW y \in Seq(S), NEW z \in Seq(S), Later(x, y), Later(y, z)
  PROVE  Later(x, z)
<1>1. Len(x) \in Nat /\ Len(y) \in Nat /\ Len(z) \in Nat
  OBVIOUS
<1> QED
  BY <1>1 DEF Later

(* What a step leaves of the sessions and of the requests of p.              *)
Serves(p, op, probes) ==
  /\ SessionsOK(sessions', session', gateways', displaced')
  /\ serving' \in [Requesters -> Tickets(session')]
  /\ \E q \in Tickets(session') :
       /\ serving' = [serving EXCEPT ![p] = q]
       /\ q.pc # "queued" /\ (q.pc = "probing" => probes /\ q.op = op)

(* The other requests wait on for what they waited for.                      *)
LEMMA ServesMade ==
  ASSUME IbkrInv, NEW p \in Requesters, NEW op, NEW probes \in BOOLEAN,
         SessionsOK(sessions', session', gateways', displaced'), Later(session, session'),
         NEW q \in Tickets(session'), serving' = [serving EXCEPT ![p] = q],
         q.pc # "queued", q.pc = "probing" => probes /\ q.op = op
  PROVE  Serves(p, op, probes)
<1>1. serving \in [Requesters -> Tickets(session')]
  <2>1. session \in Seq(SessionRecord) /\ session' \in Seq(SessionRecord)
    BY DEF IbkrInv, SessionsOK
  <2>2. serving \in [Requesters -> Tickets(session)]
    BY DEF IbkrInv
  <2> QED
    BY <2>1, <2>2, TicketsStand
<1>2. serving' \in [Requesters -> Tickets(session')]
  BY <1>1
<1> QED
  BY <1>2 DEF Serves

(* A refresh keeps the session's connector and process.                      *)
LEMMA RefreshServes ==
  ASSUME IbkrInv, NEW p \in Requesters, NEW c \in Connectors, NEW s \in 1 .. Len(session),
         NEW op \in {"create", "restart", "status", "login"},
         session[s].conn = c, Refresh(p, op, c, s), displaced' = displaced
  PROVE  Serves(p, op, MustProbe(s))
<1>1. SessionsOK(sessions, session, gateways, displaced)
  BY DEF IbkrInv
<1>2. session \in Seq(SessionRecord)
  BY <1>1 DEF SessionsOK
<1>3. UNCHANGED <<sessions, gateways>>
  BY DEF Refresh
<1>4. CASE MustProbe(s)
  <2> DEFINE q == Probe(op, c, s, gateways)
  <2>1. serving' = [serving EXCEPT ![p] = q] /\ session' = session
    BY <1>4 DEF Refresh
  <2>2. q \in Tickets(session) /\ q.pc = "probing" /\ q.op = op
    BY <1>2, TicketsMade
  <2>3. SessionsOK(sessions', session', gateways', displaced') /\ Later(session, session')
    BY <1>1, <1>2, <1>3, <2>1 DEF Later
  <2>4. q \in Tickets(session')
    BY <2>1, <2>2
  <2>5. MustProbe(s) \in BOOLEAN
    BY DEF MustProbe
  <2> HIDE DEF q
  <2>6. q.pc # "queued"
    BY <2>2
  <2> QED
    BY <1>4, <2>1, <2>2, <2>3, <2>4, <2>5, <2>6, ServesMade
<1>5. CASE ~ MustProbe(s)
  <2> DEFINE x == Unprobed(session[s])
  <2>1. session' = [session EXCEPT ![s] = x] /\ serving' = [serving EXCEPT ![p] = Free]
    BY <1>5 DEF Refresh
  <2>2. session[s] \in SessionRecord
    BY <1>2
  <2>3. /\ x \in SessionRecord /\ x.conn = session[s].conn
        /\ x.process = session[s].process /\ (x.run = "STOPPED" => session[s].run = "STOPPED")
    BY <2>2, StatesOfRefresh
  <2>4. x.run = "STOPPED" => ~ x.process
    BY <1>1, <2>3 DEF SessionsOK
  <2> HIDE DEF x
  <2>5. /\ SessionsOK(sessions, [session EXCEPT ![s] = x], gateways, displaced)
        /\ Later(session, [session EXCEPT ![s] = x])
    BY <1>1, <2>3, <2>4, StatesChange
  <2>6. SessionsOK(sessions', session', gateways', displaced') /\ Later(session, session')
    BY <1>3, <2>1, <2>5
  <2>7. Free \in Tickets(session') /\ Free.pc = "free"
    BY DEF Tickets, Free, Serve
  <2>8. MustProbe(s) \in BOOLEAN
    BY DEF MustProbe
  <2> QED
    BY <2>1, <2>6, <2>7, <2>8, ServesMade
<1> QED
  BY <1>4, <1>5

(* So does a session that takes another's place: the step is given the       *)
(* sessions and gateways as the code before it has left them.                *)
LEMMA ReplaceServes ==
  ASSUME IbkrInv, NEW p \in Requesters, NEW c \in Connectors, NEW launched \in BOOLEAN,
         NEW op \in {"create", "restart", "status", "login"}, NEW base, NEW alive,
         SessionsOK(sessions, base, alive, displaced), Later(session, base),
         displaced \subseteq displaced', displaced' \subseteq 1 .. Len(base),
         sessions[c] \notin alive \/ sessions[c] \in displaced',
         Replace(p, op, c, base, alive, launched)
  PROVE  Serves(p, op, launched)
<1> DEFINE n == Len(base) + 1
           x == NewSession(c, launched)
           next == Append(base, x)
           names == [sessions EXCEPT ![c] = n]
           live == IF launched THEN alive \cup {n} ELSE alive
           q == IF launched THEN Probe(op, c, n, live) ELSE Free
<1>1. /\ session' = next /\ sessions' = names /\ gateways' = live
      /\ serving' = [serving EXCEPT ![p] = q]
  BY DEF Replace
<1>2. /\ SessionsOK(names, next, live, displaced')
      /\ Later(base, next) /\ Len(next) = n
  <2>1. /\ x \in SessionRecord /\ x.conn = c /\ x.process = launched /\ x.run # "STOPPED"
    BY DEF NewSession, SessionRecord, RunStates, AuthStates
  <2>2. /\ live \subseteq alive \cup {n}
        /\ n \in live => x.process
    <3>1. n \notin alive
      BY DEF SessionsOK
    <3>2. CASE launched
      BY <2>1, <3>2
    <3>3. CASE ~ launched
      BY <3>1, <3>3
    <3> QED
      BY <3>2, <3>3
  <2>3. next = Append(base, x) /\ names = [sessions EXCEPT ![c] = Len(base) + 1]
    OBVIOUS
  <2> HIDE DEF x, live, next, names
  <2>4. Joins(x, c, sessions, base, alive, displaced, names, next, live, displaced')
    BY <2>1, <2>2, <2>3 DEF Joins
  <2> QED
    BY <2>4, SessionJoins
<1>3. base \in Seq(SessionRecord) /\ next \in Seq(SessionRecord) /\ session \in Seq(SessionRecord)
  BY <1>2 DEF SessionsOK, IbkrInv
<1>4. n \in 1 .. Len(next)
  BY <1>2, <1>3
<1>9. next[n].conn = c
  BY <1>3 DEF NewSession
<1> HIDE DEF x, next, names, n, live
<1>5. SessionsOK(sessions', session', gateways', displaced')
  BY <1>1, <1>2
<1>6. Later(session, session')
  BY <1>1, <1>2, <1>3, LaterTwice
<1>7. q \in Tickets(next) /\ q.pc # "queued" /\ (q.pc = "probing" => launched /\ q.op = op)
  <2>1. Free \in Tickets(next) /\ Free.pc = "free"
    BY DEF Tickets, Free, Serve
  <2>2. CASE launched
    <3>1. q = Probe(op, c, n, live)
      BY <2>2
    <3>3. /\ Probe(op, c, n, live) \in Tickets(next)
          /\ Probe(op, c, n, live).pc = "probing" /\ Probe(op, c, n, live).op = op
      BY <1>3, <1>4, <1>9, TicketsMade
    <3> QED
      BY <2>2, <3>1, <3>3, "probing" # "queued"
  <2>3. CASE ~ launched
    <3>1. q = Free
      BY <2>3
    <3> QED
      BY <2>1, <3>1
  <2> QED
    BY <2>2, <2>3
<1> HIDE DEF q
<1>8. q \in Tickets(session')
  BY <1>1, <1>7
<1> QED
  BY <1>1, <1>5, <1>6, <1>7, <1>8, ServesMade

(* p holds the manager's lock, or finds it free: rest wait behind it.        *)
BehindLock(p, rest) ==
  \/ managerLock = << >> /\ rest = << >>
  \/ managerLock # << >> /\ managerLock[1] = p /\ rest = Tail(managerLock)

(* A step of the lock's holder: it keeps the lock only across a probe.       *)
LEMMA LockedEnds ==
  ASSUME IbkrInv, NEW p \in Requesters, NEW rest, BehindLock(p, rest), NEW probes \in BOOLEAN,
         Serves(p, "create", probes),
         managerLock' = IF probes THEN <<p>> \o rest ELSE rest,
         requests' \in 0 .. MaxRequests
  PROVE  IbkrInv'
<1>1. PICK q \in Tickets(session') :
         /\ serving' = [serving EXCEPT ![p] = q]
         /\ q.pc # "queued" /\ (q.pc = "probing" => probes)
  BY DEF Serves
<1>2. QueueOK(managerLock, serving) /\ serving \in [Requesters -> Tickets(session)]
  BY DEF IbkrInv
<1>3. QueueOK(managerLock', serving')
  <2>1. CASE probes
    <3>1. managerLock' = <<p>> \o rest
      BY <2>1
    <3>2. QueueOK(<<p>> \o rest, [serving EXCEPT ![p] = q])
      BY <1>1, <1>2, QueueKept DEF BehindLock
    <3> QED
      BY <1>1, <3>1, <3>2
  <2>2. CASE ~ probes
    <3>1. q.pc # "queued" /\ ~ Holds(q)
      BY <1>1, <2>2 DEF Holds
    <3>2. CASE managerLock = << >> /\ rest = << >>
      <4>1. QueueOK(managerLock, [serving EXCEPT ![p] = q])
        BY <1>2, <3>1, QueueUntouched
      <4> QED
        BY <1>1, <2>2, <3>2, <4>1
    <3>3. CASE managerLock # << >> /\ managerLock[1] = p /\ rest = Tail(managerLock)
      <4>1. QueueOK(Tail(managerLock), [serving EXCEPT ![p] = q])
        BY <1>2, <3>1, <3>3, QueueAdvances
      <4> QED
        BY <1>1, <2>2, <3>3, <4>1
    <3> QED
      BY <3>2, <3>3 DEF BehindLock
  <2> QED
    BY <2>1, <2>2
<1> QED
  BY <1>3 DEF IbkrInv, Serves

(* create, by whoever has the lock.                                          *)
LEMMA CreateLockedKeeps ==
  ASSUME IbkrInv, NEW p \in Requesters, NEW c \in Connectors, NEW rest, BehindLock(p, rest),
         CreateLocked(p, c, rest), requests' \in 0 .. MaxRequests
  PROVE  IbkrInv'
<1> DEFINE s == sessions[c]
           running == {d \in Connectors : sessions[d] # 0 /\ session[sessions[d]].run # "STOPPED"}
<1>1. SessionsOK(sessions, session, gateways, displaced) /\ session \in Seq(SessionRecord)
  BY DEF IbkrInv, SessionsOK
<1>2. displaced' = displaced
  BY DEF CreateLocked
<1>3. s \in 0 .. Len(session)
  BY <1>1 DEF SessionsOK
<1>4. CASE /\ serving' = [serving EXCEPT ![p] = Free] /\ managerLock' = rest
           /\ UNCHANGED <<sessions, session, gateways>>
  <2>1. SessionsOK(sessions', session', gateways', displaced') /\ Later(session, session')
    BY <1>1, <1>2, <1>4 DEF Later
  <2>2. Free \in Tickets(session') /\ Free.pc = "free"
    BY DEF Tickets, Free, Serve
  <2>3. Serves(p, "create", FALSE)
    BY <1>4, <2>1, <2>2, ServesMade
  <2> QED
    BY <1>4, <2>3, LockedEnds
<1>5. CASE /\ c \in running /\ Refresh(p, "create", c, s)
           /\ managerLock' = IF MustProbe(s) THEN <<p>> \o rest ELSE rest
  <2>1. s \in 1 .. Len(session)
    BY <1>3, <1>5
  <2>2. session[s].conn = c
    BY <1>1, <2>1 DEF SessionsOK
  <2>4. Serves(p, "create", MustProbe(s))
    BY <1>2, <1>5, <2>1, <2>2, RefreshServes
  <2>3. MustProbe(s) \in BOOLEAN
    BY DEF MustProbe
  <2> QED
    BY <1>5, <2>4, <2>3, LockedEnds
<1>6. ASSUME NEW launched \in BOOLEAN, c \notin running,
             Replace(p, "create", c, session, gateways, launched),
             managerLock' = IF launched THEN <<p>> \o rest ELSE rest
      PROVE  IbkrInv'
  <2>1. s \notin gateways
    <3>1. CASE s = 0
      BY <1>1, <3>1 DEF SessionsOK
    <3>2. CASE s # 0
      <4>1. session[s].run = "STOPPED" /\ s \in 1 .. Len(session)
        BY <1>3, <1>6, <3>2
      <4> QED
        BY <1>1, <4>1 DEF SessionsOK
    <3> QED
      BY <3>1, <3>2
  <2>2. /\ displaced \subseteq displaced' /\ displaced' \subseteq 1 .. Len(session)
        /\ Later(session, session)
    BY <1>1, <1>2 DEF SessionsOK, Later
  <2>3. Serves(p, "create", launched)
    BY <1>1, <1>6, <2>1, <2>2, ReplaceServes
  <2> QED
    BY <1>6, <2>3, LockedEnds
<1> QED
  BY <1>4, <1>5, <1>6 DEF CreateLocked

(* A request that needs no lock, and one that only has to be answered.       *)
LEMMA UnlockedEnds ==
  ASSUME IbkrInv, NEW p \in Requesters, NEW op, op # "create", NEW probes,
         Serves(p, op, probes), managerLock' = managerLock, requests' \in 0 .. MaxRequests
  PROVE  IbkrInv'
<1>1. PICK q \in Tickets(session') :
         /\ serving' = [serving EXCEPT ![p] = q]
         /\ q.pc # "queued" /\ (q.pc = "probing" => q.op = op)
  BY DEF Serves
<1>2. QueueOK(managerLock, serving) /\ serving \in [Requesters -> Tickets(session)]
  BY DEF IbkrInv
<1>3. ~ Holds(q)
  BY <1>1 DEF Holds
<1>4. QueueOK(managerLock, [serving EXCEPT ![p] = q])
  BY <1>1, <1>2, <1>3, QueueUntouched
<1> QED
  BY <1>1, <1>4 DEF IbkrInv, Serves

(* restart: stop, and then a new session at once or behind the lock.  The    *)
(* sessions are as the code before it has left them.                         *)
LEMMA StopThenStartKeeps ==
  ASSUME IbkrInv, NEW p \in Requesters, NEW c \in Connectors, sessions[c] # 0, NEW base,
         SessionsOK(sessions, base, gateways, displaced), Later(session, base),
         StopThenStart(p, c, base), requests' \in 0 .. MaxRequests
  PROVE  IbkrInv'
<1> DEFINE s == sessions[c]
           halted == Halt(base, s)
           left == Killed(base, s)
<1>1. s \in 1 .. Len(base)
  BY DEF SessionsOK
<1>2. /\ SessionsOK(sessions, halted, left, displaced) /\ Later(base, halted)
      /\ s \notin left /\ ~ halted[s].process /\ Len(halted) = Len(base)
  BY <1>1, HaltStops
<1>3. /\ session \in Seq(SessionRecord) /\ base \in Seq(SessionRecord)
      /\ halted \in Seq(SessionRecord)
  BY <1>2 DEF IbkrInv, SessionsOK
<1>4. displaced' = displaced
  BY DEF StopThenStart
<1>5. ASSUME managerLock = << >>, NEW launched \in BOOLEAN,
             Replace(p, "restart", c, halted, left, launched), managerLock' = managerLock
      PROVE  IbkrInv'
  <2> HIDE DEF halted, left
  <2>1. /\ displaced \subseteq displaced' /\ displaced' \subseteq 1 .. Len(halted)
        /\ Later(session, halted)
    BY <1>2, <1>3, <1>4, LaterTwice DEF SessionsOK
  <2>2. Serves(p, "restart", launched)
    BY <1>2, <1>5, <2>1, ReplaceServes
  <2> QED
    BY <1>5, <2>2, UnlockedEnds
<1>6. CASE /\ managerLock # << >> /\ Queue(p, "restart", c, s)
           /\ session' = halted /\ gateways' = left /\ sessions' = sessions
  <2> DEFINE q == Serve("queued", "restart", c, s, FALSE)
  <2> HIDE DEF halted, left
  <2>1. managerLock' = Append(managerLock, p) /\ serving' = [serving EXCEPT ![p] = q]
    BY <1>6 DEF Queue
  <2>2. q.pc = "queued" /\ q.op = "restart" /\ q.ses = s
    BY DEF Serve
  <2>3. q \in Tickets(halted)
    <3>1. q \in [pc : {"queued", "probing"}, op : {"create", "restart", "status", "login"},
                 conn : Connectors, ses : 0 .. Len(halted), heard : BOOLEAN]
      BY <1>1, <1>2 DEF Serve
    <3> QED
      BY <1>1, <1>2, <2>2, <3>1 DEF Tickets
  <2>4. serving \in [Requesters -> Tickets(halted)]
    <3>1. Later(session, halted)
      BY <1>2, <1>3, LaterTwice
    <3>2. serving \in [Requesters -> Tickets(session)]
      BY DEF IbkrInv
    <3> QED
      BY <1>3, <3>1, <3>2, TicketsStand
  <2> HIDE DEF q
  <2>5. serving' \in [Requesters -> Tickets(session')]
    BY <1>6, <2>1, <2>3, <2>4
  <2>6. QueueOK(managerLock, serving) /\ serving \in [Requesters -> Tickets(session)]
    BY DEF IbkrInv
  <2>7. QueueOK(Append(managerLock, p), [serving EXCEPT ![p] = q])
    BY <1>6, <2>2, <2>6, QueueGrows
  <2>8. QueueOK(managerLock', serving')
    BY <2>1, <2>7
  <2>9. SessionsOK(sessions', session', gateways', displaced')
    BY <1>2, <1>4, <1>6
  <2> QED
    BY <2>5, <2>8, <2>9 DEF IbkrInv
<1> QED
  BY <1>5, <1>6 DEF StopThenStart

(* create takes the lock, or waits for it.                                   *)
LEMMA CreateKeeps ==
  ASSUME IbkrInv, NEW p \in Requesters, NEW c \in Connectors, Create(p, c)
  PROVE  IbkrInv'
<1>1. requests' \in 0 .. MaxRequests
  BY IbkrAssumption DEF IbkrInv, Create, Arrive
<1>2. CASE managerLock = << >>
  <2>1. CreateLocked(p, c, << >>)
    BY <1>2 DEF Create
  <2>2. BehindLock(p, << >>)
    BY <1>2 DEF BehindLock
  <2> QED
    BY <1>1, <2>1, <2>2, CreateLockedKeeps
<1>3. CASE managerLock # << >>
  <2> DEFINE q == Serve("queued", "create", c, 0, FALSE)
  <2>1. /\ managerLock' = Append(managerLock, p) /\ serving' = [serving EXCEPT ![p] = q]
        /\ UNCHANGED <<sessions, session, gateways, displaced>>
    BY <1>3 DEF Create, Queue
  <2>2. q.pc = "queued" /\ q.op = "create"
    BY DEF Serve
  <2>3. q \in Tickets(session)
    <3>1. Len(session) \in Nat
      BY DEF IbkrInv, SessionsOK
    <3>2. q \in [pc : {"queued", "probing"}, op : {"create", "restart", "status", "login"},
                 conn : Connectors, ses : 0 .. Len(session), heard : BOOLEAN]
      BY <3>1 DEF Serve
    <3> QED
      BY <2>2, <3>2, "queued" # "probing" DEF Tickets
  <2> HIDE DEF q
  <2>4. QueueOK(Append(managerLock, p), [serving EXCEPT ![p] = q])
    BY <1>3, <2>2, QueueGrows DEF IbkrInv
  <2>5. serving' \in [Requesters -> Tickets(session')]
    BY <2>1, <2>3 DEF IbkrInv
  <2>6. QueueOK(managerLock', serving')
    BY <2>1, <2>4
  <2>7. SessionsOK(sessions', session', gateways', displaced')
    BY <2>1 DEF IbkrInv
  <2> QED
    BY <1>1, <2>5, <2>6, <2>7 DEF IbkrInv
<1> QED
  BY <1>2, <1>3

(* The lock reaches the head of its queue.                                   *)
LEMMA WakeKeeps ==
  ASSUME IbkrInv, NEW p \in Requesters, Wake(p)
  PROVE  IbkrInv'
<1> DEFINE q == serving[p]
<1>1. /\ SessionsOK(sessions, session, gateways, displaced) /\ session \in Seq(SessionRecord)
      /\ QueueOK(managerLock, serving) /\ managerLock \in Seq(Requesters)
      /\ requests' \in 0 .. MaxRequests
  BY DEF IbkrInv, SessionsOK, QueueOK, Wake
<1>2. q \in Tickets(session) /\ q.pc = "queued"
  BY DEF IbkrInv, Wake
<1>3. /\ q.conn \in Connectors /\ q.ses \in 0 .. Len(session)
      /\ q.op = "restart" => q.ses # 0 /\ ~ session[q.ses].process
  BY <1>2 DEF Tickets, Free, Serve
<1>4. managerLock # << >> /\ managerLock[1] = p
  <2>1. managerLock # << >>
    <3>1. PICK i \in 1 .. Len(managerLock) : managerLock[i] = p
      BY <1>1, <1>2 DEF QueueOK
    <3>2. Len(<< >>) = 0
      BY EmptySeq
    <3> QED
      BY <1>1, <3>1, <3>2
  <2> QED
    BY <1>1, <2>1 DEF Wake
<1>5. BehindLock(p, Tail(managerLock))
  BY <1>4 DEF BehindLock
<1>6. CASE q.op = "create" /\ CreateLocked(p, q.conn, Tail(managerLock))
  BY <1>1, <1>3, <1>5, <1>6, CreateLockedKeeps
<1>7. ASSUME q.op = "restart", NEW launched \in BOOLEAN,
             Replace(p, "restart", q.conn, session, gateways, launched),
             managerLock' = Tail(managerLock),
             displaced' = displaced \cup {s \in gateways \ {q.ses} : s = sessions[q.conn]}
      PROVE  IbkrInv'
  <2>1. displaced \subseteq displaced' /\ displaced' \subseteq 1 .. Len(session)
    <3>1. gateways \subseteq 1 .. Len(session) /\ displaced \subseteq 1 .. Len(session)
      BY <1>1 DEF SessionsOK
    <3> HIDE DEF q
    <3> QED
      BY <1>7, <3>1
  <2>2. sessions[q.conn] \notin gateways \/ sessions[q.conn] \in displaced'
    <3>1. q.ses \notin gateways
      BY <1>1, <1>3, <1>7 DEF SessionsOK
    <3> HIDE DEF q
    <3> QED
      BY <1>7, <3>1
  <2>3. Later(session, session)
    BY DEF Later
  <2> HIDE DEF q
  <2>4. Serves(p, "restart", launched)
    BY <1>1, <1>3, <1>7, <2>1, <2>2, <2>3, ReplaceServes
  <2>5. PICK r \in Tickets(session') :
           /\ serving' = [serving EXCEPT ![p] = r]
           /\ r.pc # "queued" /\ (r.pc = "probing" => r.op = "restart")
    BY <2>4 DEF Serves
  <2>6. ~ Holds(r)
    BY <2>5 DEF Holds
  <2>7. QueueOK(Tail(managerLock), [serving EXCEPT ![p] = r])
    BY <1>4, <2>5, <2>6, QueueAdvances DEF IbkrInv
  <2>8. QueueOK(managerLock', serving')
    BY <1>7, <2>5, <2>7
  <2> QED
    BY <1>1, <2>4, <2>8 DEF IbkrInv, Serves
<1> QED
  BY <1>6, <1>7 DEF Wake

(* The answer of the gateway arrives.                                        *)
LEMMA HearKeeps ==
  ASSUME IbkrInv, NEW p \in Requesters, NEW answer, Hear(p, answer)
  PROVE  IbkrInv'
<1> DEFINE q == serving[p]
           x == Reported(session[q.ses], answer)
           base == [session EXCEPT ![q.ses] = x]
<1>1. /\ SessionsOK(sessions, session, gateways, displaced) /\ session \in Seq(SessionRecord)
      /\ QueueOK(managerLock, serving) /\ serving \in [Requesters -> Tickets(session)]
      /\ requests' \in 0 .. MaxRequests
  BY DEF IbkrInv, SessionsOK, Hear
<1>2. q \in Tickets(session) /\ q.pc = "probing"
  BY <1>1 DEF Hear
<1>3. /\ q.conn \in Connectors /\ q.ses \in 1 .. Len(session)
      /\ session[q.ses].conn = q.conn
  BY <1>2 DEF Tickets, Free, Serve
<1>4. /\ x \in SessionRecord /\ x.conn = session[q.ses].conn
      /\ x.process = session[q.ses].process /\ x.run # "STOPPED"
  <2>1. session[q.ses] \in SessionRecord
    BY <1>1, <1>3
  <2> QED
    BY <2>1, StatesOfRefresh
<1>5. SessionsOK(sessions, base, gateways, displaced) /\ Later(session, base)
  <2> HIDE DEF x, q
  <2> QED
    BY <1>1, <1>3, <1>4, StatesChange
<1>6. CASE StopThenStart(p, q.conn, base)
  <2>1. sessions[q.conn] # 0
    BY <1>1, <1>3 DEF SessionsOK
  <2> HIDE DEF base, q
  <2> QED
    BY <1>1, <1>3, <1>5, <1>6, <2>1, StopThenStartKeeps
<1>7. CASE /\ session' = base /\ serving' = [serving EXCEPT ![p] = Free]
           /\ managerLock' = IF q.op = "create" THEN Tail(managerLock) ELSE managerLock
           /\ UNCHANGED <<sessions, gateways, displaced>>
  <2>1. SessionsOK(sessions', session', gateways', displaced') /\ Later(session, session')
    BY <1>5, <1>7
  <2>2. Free \in Tickets(session') /\ Free.pc = "free"
    BY DEF Tickets, Free, Serve
  <2>3. serving' \in [Requesters -> Tickets(session')]
    <3>1. session' \in Seq(SessionRecord)
      BY <2>1 DEF SessionsOK
    <3>2. serving \in [Requesters -> Tickets(session')]
      BY <1>1, <2>1, <3>1, TicketsStand
    <3> QED
      BY <1>7, <2>2, <3>2
  <2>4. ~ Holds(Free) /\ Free.pc # "queued"
    BY <2>2 DEF Holds
  <2>5. QueueOK(managerLock', serving')
    <3>1. CASE q.op = "create"
      <4>1. managerLock # << >> /\ managerLock[1] = p
        BY <1>1, <1>2, <3>1 DEF QueueOK, Holds
      <4>2. QueueOK(Tail(managerLock), [serving EXCEPT ![p] = Free])
        BY <1>1, <2>4, <4>1, QueueAdvances
      <4> QED
        BY <1>7, <3>1, <4>2
    <3>2. CASE q.op # "create"
      <4>1. QueueOK(managerLock, [serving EXCEPT ![p] = Free])
        BY <1>1, <2>4, QueueUntouched
      <4> QED
        BY <1>7, <3>2, <4>1
    <3> QED
      BY <3>1, <3>2
  <2> QED
    BY <1>1, <2>1, <2>3, <2>5 DEF IbkrInv
<1> QED
  BY <1>6, <1>7 DEF Hear

(* Every step of a request, a stop and the exit of a gateway keep the        *)
(* invariant.                                                                *)
THEOREM IbkrStepInv == IbkrInv /\ [IbkrNext]_ibkrVars => IbkrInv'
<1> SUFFICES ASSUME IbkrInv, [IbkrNext]_ibkrVars PROVE IbkrInv'
  OBVIOUS
<1>0. /\ SessionsOK(sessions, session, gateways, displaced) /\ session \in Seq(SessionRecord)
      /\ serving \in [Requesters -> Tickets(session)] /\ QueueOK(managerLock, serving)
  BY DEF IbkrInv, SessionsOK
<1>r. \A p \in Requesters : Arrive(p) => requests' \in 0 .. MaxRequests
  BY IbkrAssumption DEF IbkrInv, Arrive
<1>s. \A c \in Connectors : sessions[c] # 0 =>
        sessions[c] \in 1 .. Len(session) /\ session[sessions[c]].conn = c
  BY <1>0 DEF SessionsOK
<1>1. ASSUME NEW p \in Requesters, NEW c \in Connectors, Create(p, c)
      PROVE  IbkrInv'
  BY <1>1, CreateKeeps
<1>2. ASSUME NEW p \in Requesters, NEW c \in Connectors, Restart(p, c)
      PROVE  IbkrInv'
  <2>1. Later(session, session)
    BY DEF Later
  <2> QED
    BY <1>0, <1>2, <1>r, <2>1, StopThenStartKeeps DEF Restart
<1>3. ASSUME NEW p \in Requesters, NEW c \in Connectors, Status(p, c)
      PROVE  IbkrInv'
  <2>1. Serves(p, "status", MustProbe(sessions[c]))
    BY <1>3, <1>s, RefreshServes DEF Status
  <2> QED
    BY <1>3, <1>r, <2>1, "status" # "create", UnlockedEnds DEF Status
<1>4. ASSUME NEW p \in Requesters, NEW c \in Connectors, Login(p, c)
      PROVE  IbkrInv'
  <2>1. CASE MustProbe(sessions[c])
    <3>1. Serves(p, "login", MustProbe(sessions[c]))
      BY <1>4, <1>s, <2>1, RefreshServes DEF Login
    <3> QED
      BY <1>4, <1>r, <2>1, <3>1, "login" # "create", UnlockedEnds DEF Login
  <2>2. CASE ~ MustProbe(sessions[c])
    <3>1. Later(session, session)
      BY DEF Later
    <3> QED
      BY <1>0, <1>4, <1>r, <2>2, <3>1, StopThenStartKeeps DEF Login
  <2> QED
    BY <2>1, <2>2
<1>5. ASSUME NEW p \in Requesters, Wake(p)
      PROVE  IbkrInv'
  BY <1>5, WakeKeeps
<1>6. ASSUME NEW p \in Requesters, NEW answer, Hear(p, answer)
      PROVE  IbkrInv'
  BY <1>6, HearKeeps
<1>7. ASSUME NEW c \in Connectors, Stop(c)
      PROVE  IbkrInv'
  <2>1. /\ SessionsOK(sessions, Halt(session, sessions[c]), Killed(session, sessions[c]), displaced)
        /\ Later(session, Halt(session, sessions[c]))
    BY <1>0, <1>7, <1>s, HaltStops DEF Stop
  <2>2. SessionsOK(sessions', session', gateways', displaced') /\ Later(session, session')
    BY <1>7, <2>1 DEF Stop
  <2>3. serving \in [Requesters -> Tickets(session')]
    BY <1>0, <2>2, TicketsStand DEF SessionsOK
  <2> QED
    BY <1>0, <1>7, <2>2, <2>3 DEF Stop, IbkrInv
<1>8. ASSUME NEW s \in gateways, GatewayExits(s)
      PROVE  IbkrInv'
  <2>1. SessionsOK(sessions', session', gateways', displaced')
    BY <1>0, <1>8 DEF GatewayExits, SessionsOK
  <2> QED
    BY <1>8, <2>1 DEF GatewayExits, IbkrInv
<1>9. ASSUME UNCHANGED ibkrVars
      PROVE  IbkrInv'
  BY <1>9 DEF ibkrVars, IbkrInv
<1> QED
  BY <1>1, <1>2, <1>3, <1>4, <1>5, <1>6, <1>7, <1>8, <1>9 DEF IbkrNext

(* The invariant of the connector holds in every reachable state, for any    *)
(* number of connectors, coroutines and requests.                            *)
THEOREM IbkrInvAlways == IbkrSpec => []IbkrInv
BY IbkrInitInv, IbkrStepInv, PTL DEF IbkrSpec

(* The variables of ConnectorManager have their types, and no request waits  *)
(* for a session there is not.                                               *)
THEOREM IbkrTypeAlways == IbkrSpec => []IbkrTypeOK
<1>1. IbkrInv => IbkrTypeOK
  <2> SUFFICES ASSUME IbkrInv PROVE IbkrTypeOK
    OBVIOUS
  <2>1. Tickets(session) \subseteq ServingRecord
    BY DEF Tickets, ServingRecord
  <2> QED
    BY <2>1 DEF IbkrInv, IbkrTypeOK, SessionsOK, QueueOK
<1> QED
  BY <1>1, IbkrInvAlways, PTL

(* No gateway process of the connector is out of reach of stop, but one that *)
(* was running, whoever had started it, when a restart that had waited for   *)
(* the lock took its session's place (ConnectorManager.restart).             *)
THEOREM GatewaysAlwaysAccounted == IbkrSpec => []GatewaysAccounted
<1>1. IbkrInv => GatewaysAccounted
  BY DEF IbkrInv, SessionsOK, GatewaysAccounted
<1> QED
  BY <1>1, IbkrInvAlways, PTL

=============================================================================
