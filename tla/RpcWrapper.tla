---------------------------- MODULE RpcWrapper ------------------------------
(***************************************************************************)
(* The XML-RPC wrapper: the process between clients and servers            *)
(* (tools/xmlrpc-framework/server/rpcwrapper/rpcwrapper.prg), with the     *)
(* libraries both sides use to talk to it (tools/xmlrpc/rpc_client.prg,    *)
(* rpc_server.prg, rpcutil/register.prg).                                  *)
(*                                                                         *)
(* A server registers the name of its module on its connection and then    *)
(* gets one call at a time; the wrapper remembers the client it is working *)
(* for.  Calls for a module whose servers are all busy are queued.  Either *)
(* side may die at any time.  A server may call another module, as a       *)
(* client, before it answers.                                              *)
(*                                                                         *)
(* A message is one record.  The wrapper collects bytes until a message is *)
(* complete; its peers read all the bytes there are and take the first     *)
(* message (http_readmessage), so that a second one is lost.               *)
(***************************************************************************)
EXTENDS Naturals, Sequences, SequencesExt

CONSTANTS
  Client,       (* programs that call                                      *)
  Server,       (* programs that serve a module                            *)
  Old,          (* clients that speak HTTP/1.0                             *)
  Keepalive,    (* programs that keep their connection after a call        *)
  None,         (* NIL                                                     *)
  Uses,         (* how the programs behave, one of them is chosen          *)
  MaxLink       (* bound on the connections                                *)

(* A use: the module of each server, the module a server calls before it    *)
(* answers, who dies, who shuts servers down (system.down),                  *)
(* whether the wrapper gets idle, what a client does after a timeout        *)
(* (never, close, reuse), whether a server may register while its module is *)
(* being called, and the bound on the calls of each client.                 *)
Program == Client \cup Server

(* The modules of the servers of a use, and the names in its messages.      *)
ModulesOf(u) == {u.module[s] : s \in Server} \ {None}
Name(u) == ModulesOf(u) \cup {u.needs[m] : m \in ModulesOf(u)} \cup {None}
Kind == {"register", "call", "down", "answer", "ok", "fault"}
Message(u) == [kind : Kind, who : Program \cup {None}, k : Nat, mod : Name(u)]

(* A program calls or serves; NIL is no message.                            *)
ASSUME ProgramAssumption == Client \cap Server = {}
ASSUME NoneAssumption == \A u \in Uses : None \notin Message(u)

VARIABLES
  wrap,         (* link: the connections with what is under way in them;   *)
                (* con: the wrapper's list of them; queue: waiting calls   *)
  proc,         (* the programs                                            *)
  use

vars == <<wrap, proc, use>>
link == wrap.link

Register(m) == [kind |-> "register", who |-> None, k |-> 0, mod |-> m]
Answer(msg) == [msg EXCEPT !.kind = "answer"]
Ok == [kind |-> "ok", who |-> None, k |-> 0, mod |-> None]
noservice == [kind |-> "fault", who |-> None, k |-> 0, mod |-> None]

Init ==
  /\ use \in Uses
  /\ wrap = [link |-> <<>>, con |-> <<>>, queue |-> <<>>]
  /\ proc = [p \in Program |->
               [pc |-> IF p \in Client THEN "idle"
                      ELSE IF use.module[p] = None THEN "gone" ELSE "start",
                sock |-> 0, reg |-> 0, k |-> 0, req |-> None]]

-----------------------------------------------------------------------------
(* The wrapper's objects: operators on wrap.                                *)

write(l, i, msg) ==
  IF l[i].state = "open" /\ l[i].alive THEN [l EXCEPT ![i].down = Append(@, msg)] ELSE l

(* Where the servers of a module are in the list.                           *)
Serving(w, m) == {n \in DOMAIN w.con : w.link[w.con[n]].module = m}

(* The first free server of the module, or else the last busy one.          *)
findsrv(w, m) ==
  LET of == Serving(w, m)
      free == {n \in of : w.link[w.con[n]].client = 0}
  IN IF free # {} THEN w.con[Min(free)] ELSE IF of # {} THEN w.con[Max(of)] ELSE 0

(* Mutant: the queue is not looked at when a server ends.                   *)
FailQueuedNot(w, m) == w

(* The n-th of the waiting calls fails, if it is for the module.            *)
FailAt(w, n, m) ==
  IF w.queue[n].msg.mod # m THEN w
  ELSE [w EXCEPT !.link = write(@, w.queue[n].client, noservice), !.queue = RemoveAt(@, n)]

(* The calls queued for a module whose last server is gone fail.            *)
FailQueued(w, m) ==
  IF findsrv(w, m) # 0 THEN w
  ELSE FoldRightDomain(LAMBDA n, v : FailAt(v, n, m), w.queue, w)

conidx(con, i) == CHOOSE n \in DOMAIN con : con[n] = i

destruct(w, i) ==
  IF w.link[i].state # "open" THEN w
  ELSE LET c == w.link[i].client
           told == [w EXCEPT !.con = RemoveAt(@, conidx(@, i)),
                             !.link = IF c # 0 THEN write(@, c, noservice) ELSE @]
       IN [FailQueued(told, w.link[i].module) EXCEPT !.link[i].state = "closed"]

(* The first call queued for the module of a server, if there is one.       *)
Waiting(w, i) == SelectInSeq(w.queue, LAMBDA q : q.msg.mod = w.link[i].module)

(* Mutant: the call stays in the queue.                                     *)
TakeNextKept(w, i) ==
  LET at == Waiting(w, i)
  IN IF at = 0 THEN [w EXCEPT !.link[i].client = 0]
     ELSE [w EXCEPT !.link = write([@ EXCEPT ![i].client = w.queue[at].client], i, w.queue[at].msg)]

(* Mutant: the server is not sent the call it is marked busy with.          *)
TakeNextUnsent(w, i) ==
  LET at == Waiting(w, i)
  IN IF at = 0 THEN [w EXCEPT !.link[i].client = 0]
     ELSE [w EXCEPT !.link[i].client = w.queue[at].client, !.queue = RemoveAt(@, at)]

(* A server that becomes free takes the first call queued for its module.   *)
TakeNext(w, i) ==
  LET at == Waiting(w, i)
  IN IF at = 0 THEN [w EXCEPT !.link[i].client = 0]
     ELSE [w EXCEPT !.link = write([@ EXCEPT ![i].client = w.queue[at].client],
                                   i, w.queue[at].msg),
                    !.queue = RemoveAt(@, at)]

(* What a server sends while it has a client is the answer.                 *)
forwardAnswer(w, i, msg) ==
  LET c == w.link[i].client
      told == [w EXCEPT !.link = write(@, c, msg)]
  IN IF w.link[c].who \in Old THEN destruct(told, c) ELSE told

(* Mutant: a busy server is handed the call.                                *)
forwardCallBusy(w, i, msg) ==
  LET s == findsrv(w, msg.mod)
  IN [w EXCEPT !.link = IF s = 0 THEN write(@, i, noservice)
                        ELSE write([@ EXCEPT ![s].client = i], s, msg)]

forwardCall(w, i, msg) ==
  LET s == findsrv(w, msg.mod) IN
  IF s = 0 THEN [w EXCEPT !.link = write(@, i, noservice)]
  ELSE IF w.link[s].client = 0
  THEN [w EXCEPT !.link = write([@ EXCEPT ![s].client = i], s, msg)]
  ELSE [w EXCEPT !.queue = Append(@, [client |-> i, msg |-> msg])]

(* The first server of the module is disconnected.                          *)
down(w, m) ==
  IF Serving(w, m) = {} THEN w ELSE destruct(w, w.con[Min(Serving(w, m))])

-----------------------------------------------------------------------------
(* One round of the wrapper's loop, taken apart: the connections select     *)
(* found readable are served one after the other.                           *)

Step(w) == wrap' = w /\ UNCHANGED <<proc, use>>

Accept(i) ==
  /\ link[i].state = "pending"
  /\ Step([wrap EXCEPT !.link[i].state = "open", !.con = Append(@, i)])

Request(i, msg) ==
  LET w == [wrap EXCEPT !.link[i].up = Tail(@)] IN
  IF link[i].client # 0
  THEN \E v \in {forwardAnswer(w, i, msg)} : Step(TakeNext(v, i))
  ELSE \/ /\ msg.kind = "register"
          /\ Step([w EXCEPT !.link = write([@ EXCEPT ![i].module = msg.mod], i, Ok)])
       \/ /\ msg.kind = "call"
          /\ Step(forwardCall(w, i, msg))
       \/ /\ msg.kind = "down"           (* system.down, check() accepts   *)
          /\ Step([down(w, msg.mod) EXCEPT !.link = write(@, i, Answer(msg))])
       \/ /\ msg.kind = "down"           (* or rejects the session         *)
          /\ Step([w EXCEPT !.link = write(@, i, Answer(msg))])

Read(i) ==
  /\ link[i].state = "open"
  /\ link[i].up # <<>>
  /\ Request(i, Head(link[i].up))

ReadFails(i) ==
  /\ link[i].state = "open"
  /\ link[i].up = <<>> /\ ~link[i].alive
  /\ Step(destruct(wrap, i))

(* Nothing happens for a while: clients that have not sent anything for     *)
(* long are disconnected, whatever they wait for.                           *)
Idle(i) ==
  /\ use.idle
  /\ \A j \in DOMAIN link : /\ link[j].state # "pending"
                            /\ link[j].state = "open" => link[j].up = <<>> /\ link[j].alive
  /\ link[i].state = "open" /\ link[i].module = None
  /\ Step(destruct(wrap, i))

-----------------------------------------------------------------------------
(* The client library.  A program calls, waits and reads.                   *)

Send(w, i, msg) ==
  IF w.link[i].state = "closed" THEN w ELSE [w EXCEPT !.link[i].up = Append(@, msg)]

Close(w, I) ==
  [w EXCEPT !.link = [i \in DOMAIN @ |-> IF i \in I THEN [@[i] EXCEPT !.alive = FALSE, !.down = <<>>] ELSE @[i]]]

Connect(w, p) ==
  [w EXCEPT !.link = Append(@, [who |-> p, alive |-> TRUE, state |-> "pending", module |-> None,
                                client |-> 0, up |-> <<>>, down |-> <<>>])]

(* select finds something to read in a socket nobody has called on: it has  *)
(* been closed, or a late answer lies in it.                                *)
Readable(i) == link[i].down # <<>> \/ link[i].state = "closed"

(* xmlrpcclient.write: a socket that is not usable is replaced.  Two        *)
(* requests are not merged, links are bounded.                              *)
Usable(w, sock) == sock # 0 /\ w.link[sock].down = <<>> /\ w.link[sock].state # "closed"

Socket(w, sock) == IF Usable(w, sock) THEN sock ELSE Len(link) + 1

CanWrite(w, sock) == IF Usable(w, sock) THEN link[sock].up = <<>> ELSE Len(link) < MaxLink

Write(w, p, sock, msg) ==
  Send(IF Usable(w, sock) THEN w ELSE Connect(Close(w, {sock}), p), Socket(w, sock), msg)

Calling(p, m, kind) ==
  LET k == proc[p].k + 1
      sock == proc[p].sock IN
  /\ CanWrite(wrap, sock)
  /\ wrap' = Write(wrap, p, sock, [kind |-> kind, who |-> p, k |-> k, mod |-> m])
  /\ proc' = [proc EXCEPT ![p].pc = "wait", ![p].sock = Socket(wrap, sock), ![p].k = k]

(* The discipline without late registration: a module is not called between *)
(* the registration of a server and the moment it has read the reply.       *)
Registering(m) ==
  \/ \E s \in Server : use.module[s] = m /\ proc[s].pc = "register"
  \/ \E i \in DOMAIN link : Register(m) \in ToSet(link[i].up)

Call(c, m) ==
  /\ proc[c].pc = "idle" /\ proc[c].k < use.calls[c]
  /\ use.late \/ ~Registering(m)
  /\ Calling(c, m, "call")
  /\ UNCHANGED use

Down(c, m) ==
  /\ c \in use.downs
  /\ proc[c].pc = "idle" /\ proc[c].k < use.calls[c]
  /\ Calling(c, m, "down")
  /\ UNCHANGED use

Returned(p) == IF p \in Client THEN "idle" ELSE "answer"

(* xmlrpcclient.read: all there is is read, the first message counts.       *)
Receive(p) ==
  LET i == proc[p].sock
      w == [wrap EXCEPT !.link[i].down = <<>>] IN
  /\ proc[p].pc = "wait"
  /\ link[i].down # <<>>
  /\ proc' = [proc EXCEPT ![p].pc = Returned(p), ![p].sock = IF p \in Keepalive THEN i ELSE 0]
  /\ wrap' = IF p \in Keepalive THEN w ELSE Close(w, {i})
  /\ UNCHANGED use

ReceiveFails(p) ==
  LET i == proc[p].sock IN
  /\ proc[p].pc = "wait"
  /\ link[i].down = <<>> /\ link[i].state = "closed"
  /\ proc' = [proc EXCEPT ![p].pc = Returned(p)]
  /\ UNCHANGED <<wrap, use>>

Timeout(p) ==
  LET i == proc[p].sock IN
  /\ use.timeout # "never"
  /\ proc[p].pc = "wait"
  /\ ~Readable(i)
  /\ proc' = [proc EXCEPT ![p].pc = Returned(p), ![p].sock = IF use.timeout = "reuse" THEN @ ELSE 0]
  /\ wrap' = IF use.timeout = "reuse" THEN wrap ELSE Close(wrap, {i})
  /\ UNCHANGED use

-----------------------------------------------------------------------------
(* A server: xmlrpc_register, then the loop of xmlrpcserver.                *)

(* ... and no server registers while calls are on their way or queued.      *)
InUse(m) == \/ \E i \in DOMAIN link : \E n \in DOMAIN link[i].up :
                 link[i].up[n].kind = "call" /\ link[i].up[n].mod = m
            \/ \E n \in DOMAIN wrap.queue : wrap.queue[n].msg.mod = m

Enroll(w, s) ==
  LET sock == proc[s].reg IN
  /\ use.late \/ ~InUse(use.module[s])
  /\ CanWrite(w, sock)
  /\ wrap' = Write(w, s, sock, Register(use.module[s]))
  /\ proc' = [proc EXCEPT ![s].pc = "register", ![s].reg = Socket(w, sock)]
  /\ UNCHANGED use

Start(s) ==
  /\ proc[s].pc = "start"
  /\ Enroll(wrap, s)

(* Unless what is read is the reply, or when no reply comes, the server     *)
(* registers again.                                                         *)
Registered(s) ==
  LET i == proc[s].reg
      w == [wrap EXCEPT !.link[i].down = <<>>] IN
  /\ proc[s].pc = "register"
  /\ link[i].up = <<>>
  /\ IF link[i].down = <<Ok>>
     THEN /\ wrap' = w
          /\ proc' = [proc EXCEPT ![s].pc = "loop"]
          /\ UNCHANGED use
     ELSE Enroll(w, s)

Take(s) ==
  LET i == proc[s].reg IN
  /\ proc[s].pc = "loop"
  /\ link[i].down # <<>>
  /\ wrap' = [wrap EXCEPT !.link[i].down = <<>>]
  /\ proc' = [proc EXCEPT ![s].req = Head(link[i].down),
                          ![s].pc = IF use.needs[use.module[s]] = None THEN "answer" ELSE "call"]
  /\ UNCHANGED use

CallOther(s) ==
  /\ proc[s].pc = "call"
  /\ use.late \/ ~Registering(use.needs[use.module[s]])
  /\ Calling(s, use.needs[use.module[s]], "call")
  /\ UNCHANGED use

Reply(s) ==
  /\ proc[s].pc = "answer"
  /\ wrap' = Send(wrap, proc[s].reg, Answer(proc[s].req))
  /\ proc' = [proc EXCEPT ![s].pc = "loop", ![s].req = None]
  /\ UNCHANGED use

Gone(p) ==
  /\ wrap' = Close(wrap, {i \in DOMAIN link : link[i].who = p})
  /\ proc' = [proc EXCEPT ![p].pc = "gone", ![p].req = None]
  /\ UNCHANGED use

(* xmlrpc_verifyconnection: a server does not outlive its connection.       *)
WrapperDied(s) ==
  /\ proc[s].pc = "loop"
  /\ link[proc[s].reg].down = <<>> /\ link[proc[s].reg].state = "closed"
  /\ Gone(s)

Die(p) ==
  /\ p \in use.dies /\ proc[p].pc # "gone"
  /\ Gone(p)

-----------------------------------------------------------------------------
Modules == ModulesOf(use)

WrapperNext == \E i \in DOMAIN link : Accept(i) \/ Read(i) \/ ReadFails(i) \/ Idle(i)

ClientNext == \E c \in Client : \/ \E m \in Modules : (m \in use.asks[c] /\ Call(c, m)) \/ Down(c, m)
                                \/ Receive(c) \/ ReceiveFails(c) \/ Timeout(c) \/ Die(c)

ServerNext == \E s \in Server : \/ Start(s) \/ Registered(s)
                                \/ Take(s) \/ CallOther(s) \/ Reply(s) \/ WrapperDied(s)
                                \/ Receive(s) \/ ReceiveFails(s) \/ Timeout(s) \/ Die(s)

Next == WrapperNext \/ ClientNext \/ ServerNext

Spec == Init /\ [][Next]_vars

(* The wrapper serves every readable connection of a round, programs run    *)
(* on unless they die.  No timeout, no idle wrapper and no system.down      *)
(* helps a call.                                                            *)
Fairness ==
  /\ \A i \in 1..MaxLink :
       WF_vars(i \in DOMAIN link /\ (Accept(i) \/ Read(i) \/ ReadFails(i)))
  /\ \A p \in Program : WF_vars(Receive(p) \/ ReceiveFails(p))
  /\ \A s \in Server : WF_vars(Registered(s) \/ Take(s)
                               \/ CallOther(s) \/ Reply(s) \/ WrapperDied(s))

FairSpec == Spec /\ Fairness

-----------------------------------------------------------------------------
(* The variables keep their types; the wrapper's list has every open        *)
(* connection once.                                                         *)
State == {"pending", "open", "closed"}

TypeOK ==
  /\ \A i \in DOMAIN link : /\ link[i].who \in Program /\ link[i].state \in State
                            /\ link[i].client \in 0..Len(link)
  /\ ToSet(wrap.con) = {i \in DOMAIN link : link[i].state = "open"}
  /\ \A m, n \in DOMAIN wrap.con : wrap.con[m] = wrap.con[n] => m = n
  /\ \A p \in Program : /\ proc[p].sock \in 0..Len(link) /\ proc[p].reg \in 0..Len(link)
                        /\ proc[p].k \in Nat

(* A program that waits for an answer has its call in exactly one place: on *)
(* its way to the wrapper, in the queue, with one server, or answered; and  *)
(* one that does not wait has none there.  A call is neither lost nor       *)
(* served twice when servers register, are busy, die or are shut down.      *)
(* destruct, forward and findsrv of rpcwrapper.prg.                         *)
PlacesOf(i) ==
  Len(link[i].up) + Len(link[i].down)
  + Cardinality({n \in DOMAIN wrap.queue : wrap.queue[n].client = i})
  + Cardinality({j \in ToSet(wrap.con) : link[j].client = i})

CallInOnePlace ==
  \A p \in Program : LET i == proc[p].sock IN
    i # 0 /\ link[i].state # "closed" /\ proc[p].pc # "gone"
      => PlacesOf(i) = IF proc[p].pc = "wait" THEN 1 ELSE 0

(* What a program reads is an answer or a fault, and an answer is the one   *)
(* to the call it waits for: connection.forward gives what a server sends   *)
(* to the client remembered with it.                                        *)
AnswersMatch ==
  \A p \in Program : LET i == proc[p].sock IN
    proc[p].pc = "wait" => \A n \in DOMAIN link[i].down : LET a == link[i].down[n] IN
      \/ a.kind = "fault"
      \/ a.kind = "answer" /\ a.who = p /\ a.k = proc[p].k

(* Calls are only queued while all servers of their module are busy, and    *)
(* there is one: destruct, forward and system.register of rpcwrapper.prg.   *)
QueueHasServers ==
  \A n \in DOMAIN wrap.queue :
    LET of == {i \in ToSet(wrap.con) : link[i].module = wrap.queue[n].msg.mod}
    IN of # {} /\ \A i \in of : link[i].client # 0

(* A server the wrapper thinks busy is going to answer: the request is on   *)
(* its way to it, it works on it, or its answer is on its way.  One it      *)
(* thinks free has nothing to do.  connection.forward.                      *)
BusyServersWork ==
  \A s \in Server : LET i == proc[s].reg IN
    proc[s].pc \notin {"start", "register", "gone"} /\ link[i].state = "open" =>
      Len(link[i].down) + Len(link[i].up) + (IF proc[s].req = None THEN 0 ELSE 1)
        = IF link[i].client = 0 THEN 0 ELSE 1

(* Every call ends with an answer, a fault or the end of the connection,    *)
(* though nothing times out: no call stays in the queue or with a server    *)
(* that has died.                                                           *)
CallsEnd == \A p \in Program : (proc[p].pc = "wait") ~> (proc[p].pc # "wait")
=============================================================================
