-------------------------- MODULE RpcWrapperProofs ---------------------------
(***************************************************************************)
(* Proofs about RpcWrapper.                                                *)
(*                                                                         *)
(* The wrapper's operations are put together from small ones that take one *)
(* call from one place to the next.  Between them the wrapper has calls in *)
(* its hands, which are in no place: the set X of the links of their       *)
(* clients.  The invariant is therefore a predicate of links, list, queue, *)
(* programs and X, and it holds with X = {} between two steps.             *)
(***************************************************************************)
EXTENDS RpcWrapper, FiniteSetTheorems, SequenceTheorems, WellFoundedInduction, TLAPS

(* The discipline the theorems are about: programs do not go on with a      *)
(* connection on which a call has timed out, and servers do not register    *)
(* while their module is called.                                            *)
Disciplined == \A u \in Uses : ~u.late /\ u.timeout # "reuse"

-----------------------------------------------------------------------------
(* The invariant.                                                           *)

(* A connection has at most one message on its way in each direction.       *)
Box(u) == {<<>>} \cup {<<m>> : m \in Message(u)}

Link(u) == [who : Program, alive : BOOLEAN, state : State, module : Name(u), client : Nat,
            up : Box(u), down : Box(u)]

Entry(u) == [client : Nat \ {0}, msg : Message(u)]

Phase == {"idle", "wait", "gone", "start", "register", "loop", "call", "answer"}
Busy == {"call", "wait", "answer"}

Proc(u) == [pc : Phase, sock : Nat, reg : Nat, k : Nat, req : Message(u) \cup {None}]

Typed(l, con, q, pr, u, X) ==
  /\ l \in Seq(Link(u)) /\ con \in Seq(Nat) /\ q \in Seq(Entry(u))
  /\ pr \in [Program -> Proc(u)]
  /\ \A p \in Client : pr[p].pc \in {"idle", "wait", "gone"}
  /\ \A s \in Server : pr[s].pc # "idle"
  /\ X \subseteq DOMAIN l

(* The list has every open connection once.                                 *)
Listed(l, con) ==
  /\ \A n \in DOMAIN con : con[n] \in DOMAIN l /\ l[con[n]].state = "open"
  /\ \A i \in DOMAIN l : l[i].state = "open" => \E n \in DOMAIN con : con[n] = i
  /\ \A m, n \in DOMAIN con : con[m] = con[n] => m = n

(* The call of a connection is queued, with a server, or in hand.           *)
Queued(q, c) == \E n \in DOMAIN q : q[n].client = c
Served(l, c) == \E j \in DOMAIN l : l[j].state = "open" /\ l[j].client = c
Held(l, q, X, c) == Queued(q, c) \/ Served(l, c) \/ c \in X

(* A message belongs to the call its client waits for.                      *)
Matches(l, pr, c, m) == m.who = l[c].who /\ (pr[m.who].sock = c => m.k = pr[m.who].k)

(* The connection of a server, registered or about to be.                   *)
Service(l, i) == l[i].module # None \/ (l[i].up # <<>> /\ l[i].up[1].kind = "register")

Plain(l) ==
  \A i \in DOMAIN l : /\ l[i].up = <<>> \/ l[i].down = <<>>
                      /\ ~l[i].alive => l[i].down = <<>>
                      /\ l[i].module = None => l[i].client = 0
                      /\ l[i].module # None => l[i].state # "pending"

ServiceOf(l, q, pr, X, i) ==
  /\ \A p \in Program : pr[p].sock # i
  /\ ~Held(l, q, X, i)
  /\ l[i].alive => l[i].who \in Server /\ pr[l[i].who].reg = i

Services(l, q, pr, X) == \A i \in DOMAIN l : Service(l, i) => ServiceOf(l, q, pr, X, i)

(* What programs send.                                                      *)
Ups(l, pr) ==
  \A i \in DOMAIN l : l[i].up # <<>> =>
    LET m == l[i].up[1] IN
    \/ /\ m.kind \in {"call", "down"} /\ l[i].module = None
       /\ Matches(l, pr, i, m) /\ m.mod # None
       /\ \A s \in Server : pr[s].pc # "gone" => pr[s].reg # i
    \/ /\ m.kind = "register" /\ l[i].module = None /\ m.mod # None
    \/ /\ m.kind = "answer" /\ l[i].module # None
       /\ l[i].state = "open" => l[i].client # 0 /\ Matches(l, pr, l[i].client, m)

(* What they are sent.                                                      *)
Downs(l, pr) ==
  \A i \in DOMAIN l : l[i].down # <<>> =>
    LET m == l[i].down[1] IN
    \/ l[i].module = None /\ m.kind = "fault"
    \/ l[i].module = None /\ m.kind = "answer" /\ Matches(l, pr, i, m)
    \/ l[i].module # None /\ m.kind = "ok"
    \/ /\ l[i].module # None /\ m.kind = "call"
       /\ l[i].state = "open" => l[i].client # 0 /\ Matches(l, pr, l[i].client, m)

(* A call the wrapper or a server has is nowhere else.                      *)
Holding(l, q, X) ==
  /\ \A c \in Nat \ {0} : Held(l, q, X, c) =>
       /\ c \in DOMAIN l /\ l[c].module = None /\ l[c].state # "pending"
       /\ l[c].up = <<>> /\ l[c].down = <<>>
  /\ \A n \in DOMAIN q : ~Served(l, q[n].client) /\ q[n].client \notin X
  /\ \A m, n \in DOMAIN q : q[m].client = q[n].client => m = n
  /\ \A c \in X : ~Served(l, c)
  /\ \A i, j \in DOMAIN l : l[i].state = "open" /\ l[j].state = "open"
                            /\ l[i].client = l[j].client /\ l[i].client # 0 => i = j

Waits(l, q, pr) ==
  \A n \in DOMAIN q : /\ q[n].msg.kind = "call" /\ q[n].msg.mod # None
                      /\ Matches(l, pr, q[n].client, q[n].msg)

(* A program that has not gone, and its call.                               *)
Caller(l, q, pr, X, p, i) ==
  /\ pr[p].pc = "wait" => i # 0
  /\ i # 0 => i \in DOMAIN l /\ l[i].who = p
  /\ i # 0 /\ pr[p].pc # "gone" =>
       /\ l[i].alive
       /\ l[i].state # "closed" =>
            (pr[p].pc = "wait" <=> l[i].up # <<>> \/ l[i].down # <<>> \/ Held(l, q, X, i))
  /\ pr[p].pc = "gone" => pr[p].req = None /\ \A j \in DOMAIN l : l[j].who = p => ~l[j].alive

Callers(l, q, pr, X) == \A p \in Program : Caller(l, q, pr, X, p, pr[p].sock)

(* Nobody calls a module.                                                   *)
NoCalls(l, q, m) ==
  /\ \A i \in DOMAIN l : l[i].up # <<>> => l[i].up[1].kind # "call" \/ l[i].up[1].mod # m
  /\ \A n \in DOMAIN q : q[n].msg.mod # m

Enrolls(l, q, pr, s, i, m) ==
  /\ pr[s].pc = "start" => i = 0 /\ pr[s].req = None /\ m # None
  /\ pr[s].pc = "register" =>
       /\ m # None /\ pr[s].req = None
       /\ i \in DOMAIN l /\ l[i].who = s /\ l[i].alive /\ l[i].client = 0
       /\ \/ l[i].up = <<Register(m)>> /\ l[i].state # "closed"
          \/ l[i].up = <<>> /\ l[i].down = <<Ok>> /\ l[i].module = m
       /\ NoCalls(l, q, m)

Registers(l, q, pr, u) ==
  \A s \in Server : Enrolls(l, q, pr, s, pr[s].reg, u.module[s])

ServesOn(l, pr, s, i, m) ==
  pr[s].pc \in {"loop"} \cup Busy =>
    /\ i \in DOMAIN l /\ l[i].who = s /\ l[i].alive
    /\ l[i].module = m /\ m # None
    /\ l[i].down # <<>> => l[i].down[1].kind = "call"
    /\ pr[s].req = None <=> pr[s].pc = "loop"
    /\ pr[s].req # None => /\ pr[s].req.kind = "call"
                           /\ l[i].up = <<>> /\ l[i].down = <<>>
    /\ l[i].state = "open" /\ l[i].client = 0 => pr[s].req = None
    /\ l[i].state = "open" /\ l[i].client # 0 =>
         /\ l[i].up # <<>> \/ l[i].down # <<>> \/ pr[s].req # None
         /\ pr[s].req # None => Matches(l, pr, l[i].client, pr[s].req)

Serves(l, pr, u) == \A s \in Server : ServesOn(l, pr, s, pr[s].reg, u.module[s])

Good(l, con, q, pr, u, X) ==
  /\ Typed(l, con, q, pr, u, X)
  /\ Listed(l, con)
  /\ Plain(l)
  /\ Services(l, q, pr, X)
  /\ Ups(l, pr)
  /\ Downs(l, pr)
  /\ Holding(l, q, X)
  /\ Waits(l, q, pr)
  /\ Callers(l, q, pr, X)
  /\ Registers(l, q, pr, u)
  /\ Serves(l, pr, u)

Wrap(u) == [link : Seq(Link(u)), con : Seq(Nat), queue : Seq(Entry(u))]

WGood(w, pr, u, X) == w \in Wrap(u) /\ Good(w.link, w.con, w.queue, pr, u, X)

IInv == use \in Uses /\ WGood(wrap, proc, use, {})

-----------------------------------------------------------------------------
(* Sequences, boxes and links.                                              *)

LEMMA OneMessage ==
  ASSUME NEW m
  PROVE  /\ Append(<<>>, m) = <<m>> /\ <<m>> # <<>> /\ <<m>>[1] = m
         /\ Len(<<m>>) = 1 /\ Head(<<m>>) = m /\ Tail(<<m>>) = <<>>
OBVIOUS

LEMMA Boxes ==
  ASSUME NEW u, NEW b \in Box(u), b # <<>>
  PROVE  b[1] \in Message(u) /\ b = <<b[1]>> /\ Head(b) = b[1] /\ Tail(b) = <<>> /\ Len(b) = 1
<1>1. PICK m \in Message(u) : b = <<m>>
  BY DEF Box
<1> QED
  BY <1>1, OneMessage, Zenon

LEMMA Linked ==
  ASSUME NEW u, NEW l \in Seq(Link(u))
  PROVE  /\ DOMAIN l = 1..Len(l) /\ Len(l) \in Nat
         /\ \A i \in DOMAIN l : /\ i \in Nat \ {0} /\ l[i] \in Link(u)
                                /\ l[i].who \in Program /\ l[i].alive \in BOOLEAN
                                /\ l[i].state \in State /\ l[i].module \in Name(u)
                                /\ l[i].client \in Nat
                                /\ l[i].up \in Box(u) /\ l[i].down \in Box(u)
<1>1. DOMAIN l = 1..Len(l) /\ Len(l) \in Nat /\ \A i \in DOMAIN l : i \in Nat \ {0} /\ l[i] \in Link(u)
  OBVIOUS
<1> QED
  BY <1>1, Zenon DEF Link

(* One link is replaced.                                                    *)
LEMMA Update ==
  ASSUME NEW u, NEW l \in Seq(Link(u)), NEW i \in DOMAIN l, NEW r \in Link(u)
  PROVE  /\ [l EXCEPT ![i] = r] \in Seq(Link(u))
         /\ DOMAIN [l EXCEPT ![i] = r] = DOMAIN l
         /\ [l EXCEPT ![i] = r][i] = r
         /\ \A j \in DOMAIN l : j # i => [l EXCEPT ![i] = r][j] = l[j]
OBVIOUS

-----------------------------------------------------------------------------
(* The small operations of the wrapper.                                     *)

(* The clients of busy servers and of calls in the queue are links.         *)
LEMMA Clients ==
  ASSUME NEW l, NEW q, NEW u, NEW X, l \in Seq(Link(u)), q \in Seq(Entry(u)), Holding(l, q, X)
  PROVE  /\ \A j \in DOMAIN l : l[j].state = "open" /\ l[j].client # 0 => l[j].client \in DOMAIN l
         /\ \A n \in DOMAIN q : q[n].client \in DOMAIN l /\ q[n].client # 0
<1>1. ASSUME NEW j \in DOMAIN l, l[j].state = "open", l[j].client # 0
      PROVE  l[j].client \in DOMAIN l
  <2>1. l[j].client \in Nat \ {0}
    BY <1>1, Linked
  <2> QED
    BY <1>1, <2>1 DEF Holding, Held, Served
<1>2. ASSUME NEW n \in DOMAIN q
      PROVE  q[n].client \in DOMAIN l /\ q[n].client # 0
  <2>1. q[n] \in Entry(u)
    OBVIOUS
  <2>2. q[n].client \in Nat \ {0}
    BY <2>1 DEF Entry
  <2> QED
    BY <1>2, <2>2 DEF Holding, Held, Queued
<1> QED
  BY <1>1, <1>2

(* A call is read: it is in hand.                                           *)
LEMMA TakeUp ==
  ASSUME NEW l, NEW con, NEW q, NEW pr, NEW u, NEW X, Good(l, con, q, pr, u, X),
         NEW i \in DOMAIN l, l[i].state = "open", l[i].up # <<>>,
         l[i].up[1].kind \in {"call", "down"}
  PROVE  /\ Good([l EXCEPT ![i].up = <<>>], con, q, pr, u, X \cup {i})
         /\ i \notin X
<1> DEFINE l2 == [l EXCEPT ![i].up = <<>>]
<1>1. /\ l \in Seq(Link(u)) /\ con \in Seq(Nat) /\ q \in Seq(Entry(u))
      /\ pr \in [Program -> Proc(u)] /\ X \subseteq DOMAIN l
  BY DEF Good, Typed
<1>2. l[i] \in Link(u)
  BY <1>1, Linked
<1>3. [l[i] EXCEPT !.up = <<>>] \in Link(u)
  BY <1>2 DEF Link, Box
<1>4. l2 = [l EXCEPT ![i] = [l[i] EXCEPT !.up = <<>>]]
  OBVIOUS
<1>5. /\ l2 \in Seq(Link(u)) /\ DOMAIN l2 = DOMAIN l
      /\ \A j \in DOMAIN l : j # i => l2[j] = l[j]
      /\ l2[i] = [l[i] EXCEPT !.up = <<>>]
  BY <1>1, <1>3, <1>4, Update
<1>6. /\ DOMAIN l2 = DOMAIN l
      /\ \A j \in DOMAIN l : /\ l2[j].who = l[j].who /\ l2[j].alive = l[j].alive
                             /\ l2[j].state = l[j].state /\ l2[j].module = l[j].module
                             /\ l2[j].client = l[j].client /\ l2[j].down = l[j].down
                             /\ j # i => l2[j].up = l[j].up
      /\ l2[i].up = <<>>
  BY <1>2, <1>5 DEF Link
<1> HIDE DEF l2
<1>q. SUFFICES Good(l2, con, q, pr, u, X \cup {i}) /\ i \notin X
  BY DEF l2
<1>a. /\ l[i].module = None /\ l[i].client = 0 /\ l[i].down = <<>>
      /\ Matches(l, pr, i, l[i].up[1]) /\ ~Held(l, q, X, i) /\ i \in Nat \ {0}
  BY <1>1, Linked DEF Good, Plain, Ups, Holding
<1>b. \A c : Held(l2, q, X \cup {i}, c) <=> Held(l, q, X, c) \/ c = i
  BY <1>6 DEF Held, Served
<1>c. \A m : \A c \in DOMAIN l : Matches(l2, pr, c, m) <=> Matches(l, pr, c, m)
  BY <1>6 DEF Matches
<1>d. /\ \A j \in DOMAIN l : l[j].state = "open" /\ l[j].client # 0 => l[j].client \in DOMAIN l
      /\ \A n \in DOMAIN q : q[n].client \in DOMAIN l
  BY <1>1, Clients DEF Good
<1>7. Typed(l2, con, q, pr, u, X \cup {i})
  BY <1>1, <1>5 DEF Good, Typed
<1>8. Listed(l2, con)
  BY <1>6 DEF Good, Listed
<1>9. Plain(l2)
  BY <1>6 DEF Good, Plain
<1>10. Services(l2, q, pr, X \cup {i})
  <2> SUFFICES ASSUME NEW j \in DOMAIN l, Service(l2, j)
               PROVE  ServiceOf(l2, q, pr, X \cup {i}, j)
    BY <1>6 DEF Services
  <2>1. Service(l, j) /\ j # i
    BY <1>6, <1>a DEF Service
  <2>2. ServiceOf(l, q, pr, X, j)
    BY <2>1 DEF Good, Services
  <2> QED
    BY <1>6, <1>b, <2>1, <2>2 DEF ServiceOf
<1>11. Ups(l2, pr)
  BY <1>6, <1>c, <1>d DEF Good, Ups
<1>12. Downs(l2, pr)
  BY <1>6, <1>c, <1>d DEF Good, Downs
<1>13. Holding(l2, q, X \cup {i})
  <2>1. \A c : Served(l2, c) <=> Served(l, c)
    BY <1>6 DEF Served
  <2> QED
    BY <1>6, <1>a, <1>b, <2>1 DEF Good, Holding, Held, Queued
<1>14. Waits(l2, q, pr)
  BY <1>c, <1>d DEF Good, Waits
<1>15. Callers(l2, q, pr, X \cup {i})
  <2> SUFFICES ASSUME NEW p \in Program, NEW c, c = pr[p].sock
               PROVE  Caller(l2, q, pr, X \cup {i}, p, c)
    BY DEF Callers
  <2>1. Caller(l, q, pr, X, p, c)
    BY DEF Good, Callers
  <2> QED
    BY <1>6, <1>a, <1>b, <2>1, ZenonT(30) DEF Caller
<1>16. Registers(l2, q, pr, u)
  <2>1. \A m : NoCalls(l, q, m) => NoCalls(l2, q, m)
    BY <1>6 DEF NoCalls
  <2> SUFFICES ASSUME NEW s \in Server, NEW j, j = pr[s].reg
               PROVE  Enrolls(l2, q, pr, s, j, u.module[s])
    BY DEF Registers
  <2>2. pr[s].pc # "gone" => j # i
    BY DEF Good, Ups
  <2>3. Enrolls(l, q, pr, s, j, u.module[s])
    BY DEF Good, Registers
  <2> QED
    BY <1>6, <2>1, <2>2, <2>3 DEF Enrolls
<1>17. Serves(l2, pr, u)
  <2> SUFFICES ASSUME NEW s \in Server, NEW j, j = pr[s].reg
               PROVE  ServesOn(l2, pr, s, j, u.module[s])
    BY DEF Serves
  <2>2. pr[s].pc # "gone" => j # i
    BY DEF Good, Ups
  <2>3. ServesOn(l, pr, s, j, u.module[s])
    BY DEF Good, Serves
  <2> QED
    BY <1>6, <1>c, <1>d, <2>2, <2>3 DEF ServesOn
<1> QED
  BY <1>7, <1>8, <1>9, <1>10, <1>11, <1>12, <1>13, <1>14, <1>15, <1>16, <1>17, <1>a DEF Good, Held

(* A client is written the answer to its call, or a fault.                  *)
LEMMA Give ==
  ASSUME NEW l, NEW con, NEW q, NEW pr, NEW u, NEW X, Good(l, con, q, pr, u, X),
         NEW i \in X, NEW a \in Message(u),
         a.kind = "fault" \/ (a.kind = "answer" /\ Matches(l, pr, i, a))
  PROVE  Good(write(l, i, a), con, q, pr, u, X \ {i})
<1> DEFINE l2 == write(l, i, a)
<1>1. /\ l \in Seq(Link(u)) /\ con \in Seq(Nat) /\ q \in Seq(Entry(u))
      /\ pr \in [Program -> Proc(u)] /\ X \subseteq DOMAIN l
  BY DEF Good, Typed
<1>2. l[i] \in Link(u) /\ i \in Nat \ {0}
  BY <1>1, Linked
<1>a. /\ l[i].module = None /\ l[i].client = 0 /\ l[i].state # "pending"
      /\ l[i].up = <<>> /\ l[i].down = <<>> /\ Held(l, q, X, i)
      /\ ~Queued(q, i) /\ ~Served(l, i)
  BY <1>2 DEF Good, Plain, Holding, Held, Queued
<1>3. [l[i] EXCEPT !.down = <<a>>] \in Link(u)
  BY <1>2 DEF Link, Box
<1>5. l2 \in Seq(Link(u))
  BY <1>1, <1>2, <1>3, <1>a, OneMessage, Update DEF write
<1>6. /\ DOMAIN l2 = DOMAIN l
      /\ \A j \in DOMAIN l : /\ l2[j].who = l[j].who /\ l2[j].alive = l[j].alive
                             /\ l2[j].state = l[j].state /\ l2[j].module = l[j].module
                             /\ l2[j].client = l[j].client /\ l2[j].up = l[j].up
                             /\ j # i => l2[j].down = l[j].down
      /\ l2[i].down = IF l[i].state = "open" /\ l[i].alive THEN <<a>> ELSE <<>>
  <2>1. CASE ~(l[i].state = "open" /\ l[i].alive)
    BY <1>a, <2>1 DEF write
  <2>2. CASE l[i].state = "open" /\ l[i].alive
    <3>1. l2 = [l EXCEPT ![i] = [l[i] EXCEPT !.down = <<a>>]]
      BY <1>a, <2>2, OneMessage DEF write
    <3>2. /\ DOMAIN l2 = DOMAIN l
          /\ \A j \in DOMAIN l : j # i => l2[j] = l[j]
          /\ l2[i] = [l[i] EXCEPT !.down = <<a>>]
      BY <1>1, <1>3, <3>1, Update
    <3> QED
      BY <1>2, <2>2, <3>2 DEF Link
  <2> QED
    BY <2>1, <2>2
<1> HIDE DEF l2
<1> SUFFICES Good(l2, con, q, pr, u, X \ {i})
  BY DEF l2
<1>b. \A c : Held(l2, q, X \ {i}, c) <=> Held(l, q, X, c) /\ c # i
  BY <1>6, <1>a DEF Held, Served
<1>c. \A m : \A c \in DOMAIN l : Matches(l2, pr, c, m) <=> Matches(l, pr, c, m)
  BY <1>6 DEF Matches
<1>d. /\ \A j \in DOMAIN l : l[j].state = "open" /\ l[j].client # 0 => l[j].client \in DOMAIN l
      /\ \A n \in DOMAIN q : q[n].client \in DOMAIN l
  BY <1>1, Clients DEF Good
<1>e. <<a>>[1] = a /\ <<a>> # <<>>
  BY OneMessage
<1>f. \A s \in Server : pr[s].pc \in {"register", "loop"} \cup Busy => pr[s].reg # i
  <2> SUFFICES ASSUME NEW s \in Server, pr[s].pc \in {"register", "loop"} \cup Busy, pr[s].reg = i
               PROVE  FALSE
    OBVIOUS
  <2>1. Enrolls(l, q, pr, s, i, u.module[s]) /\ ServesOn(l, pr, s, i, u.module[s])
    BY DEF Good, Registers, Serves
  <2> QED
    BY <1>a, <2>1, OneMessage DEF Enrolls, ServesOn
<1>7. Typed(l2, con, q, pr, u, X \ {i})
  BY <1>1, <1>5, <1>6 DEF Good, Typed
<1>8. Listed(l2, con)
  BY <1>6 DEF Good, Listed
<1>9. Plain(l2)
  BY <1>6, <1>a DEF Good, Plain
<1>10. Services(l2, q, pr, X \ {i})
  <2> SUFFICES ASSUME NEW j \in DOMAIN l, Service(l2, j)
               PROVE  ServiceOf(l2, q, pr, X \ {i}, j)
    BY <1>6 DEF Services
  <2>1. Service(l, j)
    BY <1>6, <1>a DEF Service
  <2>2. ServiceOf(l, q, pr, X, j)
    BY <2>1 DEF Good, Services
  <2> QED
    BY <1>6, <1>a, <1>b, <2>1, <2>2 DEF ServiceOf
<1>11. Ups(l2, pr)
  BY <1>6, <1>a, <1>c, <1>d DEF Good, Ups
<1>12. Downs(l2, pr)
  BY <1>6, <1>a, <1>c, <1>d, <1>e DEF Good, Downs
<1>13. Holding(l2, q, X \ {i})
  <2>1. \A c : Served(l2, c) <=> Served(l, c)
    BY <1>6 DEF Served
  <2> QED
    <3>1. \A c \in Nat \ {0} : Held(l, q, X, c) =>
            /\ c \in DOMAIN l /\ l[c].module = None /\ l[c].state # "pending"
            /\ l[c].up = <<>> /\ l[c].down = <<>>
      BY DEF Good, Holding
    <3>2. \A c \in Nat \ {0} : Held(l2, q, X \ {i}, c) =>
            /\ c \in DOMAIN l2 /\ l2[c].module = None /\ l2[c].state # "pending"
            /\ l2[c].up = <<>> /\ l2[c].down = <<>>
      BY <1>6, <1>b, <3>1
    <3>3. /\ \A n \in DOMAIN q : ~Served(l2, q[n].client) /\ q[n].client \notin X \ {i}
          /\ \A c \in X \ {i} : ~Served(l2, c)
          /\ \A m, n \in DOMAIN q : q[m].client = q[n].client => m = n
      BY <2>1 DEF Good, Holding
    <3>4. \A j, k \in DOMAIN l2 : l2[j].state = "open" /\ l2[k].state = "open"
                            /\ l2[j].client = l2[k].client /\ l2[j].client # 0 => j = k
      BY <1>6 DEF Good, Holding
    <3> QED
      BY <3>2, <3>3, <3>4 DEF Holding
<1>14. Waits(l2, q, pr)
  BY <1>c, <1>d DEF Good, Waits
<1>15. Callers(l2, q, pr, X \ {i})
  <2> SUFFICES ASSUME NEW p \in Program, NEW c, c = pr[p].sock
               PROVE  Caller(l2, q, pr, X \ {i}, p, c)
    BY DEF Callers
  <2>1. Caller(l, q, pr, X, p, c)
    BY DEF Good, Callers
  <2>2. l[i].state \in State
    BY <1>1, Linked
  <2>3. CASE c = i
    BY <1>2, <1>6, <1>a, <1>b, <1>e, <2>1, <2>2, <2>3, ZenonT(30) DEF Caller, State
  <2>4. CASE c # i
    BY <1>6, <1>b, <2>1, <2>4, ZenonT(30) DEF Caller
  <2> QED
    BY <2>3, <2>4
<1>16. Registers(l2, q, pr, u)
  <2>1. \A m : NoCalls(l, q, m) => NoCalls(l2, q, m)
    BY <1>6, <1>a DEF NoCalls
  <2> SUFFICES ASSUME NEW s \in Server, NEW j, j = pr[s].reg
               PROVE  Enrolls(l2, q, pr, s, j, u.module[s])
    BY DEF Registers
  <2>2. Enrolls(l, q, pr, s, j, u.module[s])
    BY DEF Good, Registers
  <2> QED
    BY <1>6, <1>f, <2>1, <2>2 DEF Enrolls
<1>17. Serves(l2, pr, u)
  <2> SUFFICES ASSUME NEW s \in Server, NEW j, j = pr[s].reg
               PROVE  ServesOn(l2, pr, s, j, u.module[s])
    BY DEF Serves
  <2>1. ServesOn(l, pr, s, j, u.module[s])
    BY DEF Good, Serves
  <2> QED
    BY <1>6, <1>c, <1>d, <1>f, <2>1 DEF ServesOn
<1> QED
  BY <1>7, <1>8, <1>9, <1>10, <1>11, <1>12, <1>13, <1>14, <1>15, <1>16, <1>17 DEF Good

(* A free server is written the call in hand.                               *)
LEMMA Assign ==
  ASSUME NEW l, NEW con, NEW q, NEW pr, NEW u, NEW X, Good(l, con, q, pr, u, X),
         NEW i \in X, NEW s \in DOMAIN l, NEW msg \in Message(u),
         l[s].state = "open", l[s].client = 0, l[s].module = msg.mod, msg.mod # None,
         msg.kind = "call", Matches(l, pr, i, msg),
         \A t \in Server : pr[t].pc = "register" => u.module[t] # msg.mod
  PROVE  Good(write([l EXCEPT ![s].client = i], s, msg), con, q, pr, u, X \ {i})
<1> DEFINE l1 == [l EXCEPT ![s].client = i]
           l2 == write(l1, s, msg)
<1>1. /\ l \in Seq(Link(u)) /\ con \in Seq(Nat) /\ q \in Seq(Entry(u))
      /\ pr \in [Program -> Proc(u)] /\ X \subseteq DOMAIN l
  BY DEF Good, Typed
<1>2. l[s] \in Link(u) /\ i \in Nat \ {0} /\ s \in Nat \ {0} /\ l[s].alive \in BOOLEAN
  BY <1>1, Linked
<1>a. /\ l[i].module = None /\ l[i].client = 0 /\ l[i].state # "pending"
      /\ l[i].up = <<>> /\ l[i].down = <<>> /\ Held(l, q, X, i)
      /\ ~Queued(q, i) /\ ~Served(l, i) /\ i # s /\ i \in DOMAIN l
  BY <1>1, <1>2 DEF Good, Plain, Holding, Held, Queued
<1>g. /\ l[s].up = <<>> /\ l[s].down = <<>>
      /\ \A t \in Server : pr[t].reg = s => pr[t].pc \notin {"start", "register"}
  <2>1. l[s].up = <<>>
    BY DEF Good, Ups
  <2>2. Service(l, s) /\ ServiceOf(l, q, pr, X, s)
    BY DEF Good, Services, Service
  <2>3. \A t \in Server : pr[t].reg = s => pr[t].pc \notin {"start", "register"}
    <3> SUFFICES ASSUME NEW t \in Server, pr[t].reg = s, pr[t].pc \in {"start", "register"}
                 PROVE  FALSE
      OBVIOUS
    <3>1. Enrolls(l, q, pr, t, s, u.module[t])
      BY DEF Good, Registers
    <3> QED
      BY <1>2, <2>1, <3>1, OneMessage DEF Enrolls
  <2>4. CASE l[s].alive
    <3>1. PICK t \in Server : t = l[s].who /\ pr[t].reg = s
      BY <2>2, <2>4 DEF ServiceOf
    <3>2. Caller(l, q, pr, X, t, pr[t].sock)
      BY DEF Good, Callers, Program
    <3>3. pr[t].pc # "gone"
      BY <2>4, <3>1, <3>2 DEF Caller
    <3>4. pr[t].pc \in {"loop"} \cup Busy
      BY <1>1, <2>3, <3>1, <3>3 DEF Good, Typed, Proc, Phase, Busy, Program
    <3>5. ServesOn(l, pr, t, s, u.module[t])
      BY <3>1 DEF Good, Serves
    <3> QED
      BY <2>1, <2>3, <3>4, <3>5 DEF ServesOn, Good, Downs
  <2>5. CASE ~l[s].alive
    BY <2>1, <2>3, <2>5 DEF Good, Plain
  <2> QED
    BY <1>2, <2>4, <2>5
<1>3. [l[s] EXCEPT !.client = i, !.down = IF l[s].alive THEN <<msg>> ELSE <<>>] \in Link(u)
  BY <1>2 DEF Link, Box
<1>4. l2 = [l EXCEPT ![s] = [l[s] EXCEPT !.client = i, !.down = IF l[s].alive THEN <<msg>> ELSE <<>>]]
  <2>1. /\ l1 = [l EXCEPT ![s] = [l[s] EXCEPT !.client = i]]
        /\ l1[s] = [l[s] EXCEPT !.client = i]
    BY <1>1
  <2>2. l1[s].state = "open" /\ l1[s].alive = l[s].alive /\ l1[s].down = <<>>
    BY <1>2, <1>g, <2>1 DEF Link
  <2> HIDE DEF l1
  <2>3. l2 = IF l[s].alive THEN [l1 EXCEPT ![s].down = <<msg>>] ELSE l1
    BY <2>2, OneMessage DEF write
  <2>4. [l[s] EXCEPT !.client = i] = [l[s] EXCEPT !.client = i, !.down = <<>>]
    BY <1>2, <1>g DEF Link
  <2> HIDE DEF l2
  <2>5. CASE l[s].alive
    BY <2>1, <2>3, <2>5
  <2>6. CASE ~l[s].alive
    BY <2>1, <2>3, <2>4, <2>6
  <2> QED
    BY <1>2, <2>5, <2>6
<1> HIDE DEF l1, l2
<1>5. /\ l2 \in Seq(Link(u)) /\ DOMAIN l2 = DOMAIN l
      /\ \A j \in DOMAIN l : j # s => l2[j] = l[j]
      /\ l2[s] = [l[s] EXCEPT !.client = i, !.down = IF l[s].alive THEN <<msg>> ELSE <<>>]
  BY <1>1, <1>3, <1>4, Update
<1>6. /\ DOMAIN l2 = DOMAIN l
      /\ \A j \in DOMAIN l : /\ l2[j].who = l[j].who /\ l2[j].alive = l[j].alive
                             /\ l2[j].state = l[j].state /\ l2[j].module = l[j].module
                             /\ l2[j].up = l[j].up
                             /\ j # s => l2[j].client = l[j].client /\ l2[j].down = l[j].down
      /\ l2[s].client = i /\ l2[s].down = IF l[s].alive THEN <<msg>> ELSE <<>>
  BY <1>2, <1>5, ZenonT(30) DEF Link
<1> SUFFICES Good(l2, con, q, pr, u, X \ {i})
  BY DEF l1, l2
<1>s. \A c : c # 0 => (Served(l2, c) <=> Served(l, c) \/ c = i)
  BY <1>6, <1>a DEF Served
<1>b. \A c : c # 0 => (Held(l2, q, X \ {i}, c) <=> Held(l, q, X, c))
  BY <1>6, <1>a, <1>s DEF Held
<1>c. \A m : \A c \in DOMAIN l : Matches(l2, pr, c, m) <=> Matches(l, pr, c, m)
  BY <1>6 DEF Matches
<1>d. /\ \A j \in DOMAIN l : l[j].state = "open" /\ l[j].client # 0 => l[j].client \in DOMAIN l
      /\ \A n \in DOMAIN q : q[n].client \in DOMAIN l /\ q[n].client # 0
      /\ \A j \in DOMAIN l : j # 0
  BY <1>1, Clients, Linked DEF Good
<1>e. <<msg>>[1] = msg /\ <<msg>> # <<>>
  BY OneMessage
<1>7. Typed(l2, con, q, pr, u, X \ {i})
  BY <1>1, <1>5, <1>6 DEF Good, Typed
<1>8. Listed(l2, con)
  BY <1>6 DEF Good, Listed
<1>9. Plain(l2)
  BY <1>6, <1>g DEF Good, Plain
<1>10. Services(l2, q, pr, X \ {i})
  <2> SUFFICES ASSUME NEW j \in DOMAIN l, Service(l2, j)
               PROVE  ServiceOf(l2, q, pr, X \ {i}, j)
    BY <1>6 DEF Services
  <2>1. Service(l, j) /\ j # 0
    BY <1>6, <1>a, <1>d DEF Service
  <2>2. ServiceOf(l, q, pr, X, j)
    BY <2>1 DEF Good, Services
  <2> QED
    BY <1>6, <1>b, <2>1, <2>2 DEF ServiceOf
<1>11. Ups(l2, pr)
  BY <1>6, <1>g, <1>c, <1>d DEF Good, Ups
<1>12. Downs(l2, pr)
  BY <1>6, <1>a, <1>c, <1>d, <1>e DEF Good, Downs
<1>13. Holding(l2, q, X \ {i})
  <2>1. /\ ~Queued(q, i) /\ ~Served(l, i) /\ i # 0 /\ i \in X
    BY <1>2, <1>a
  <2> QED
    <3>1. \A c \in Nat \ {0} : Held(l, q, X, c) =>
            /\ c \in DOMAIN l /\ l[c].module = None /\ l[c].state # "pending"
            /\ l[c].up = <<>> /\ l[c].down = <<>>
      BY DEF Good, Holding
    <3>2. \A c \in Nat \ {0} : Held(l2, q, X \ {i}, c) =>
            /\ c \in DOMAIN l2 /\ l2[c].module = None /\ l2[c].state # "pending"
            /\ l2[c].up = <<>> /\ l2[c].down = <<>>
      BY <1>6, <1>a, <1>b, <3>1
    <3>3. /\ \A n \in DOMAIN q : ~Served(l2, q[n].client) /\ q[n].client \notin X \ {i}
          /\ \A m, n \in DOMAIN q : q[m].client = q[n].client => m = n
      BY <1>d, <1>s, <2>1 DEF Good, Holding, Queued
    <3>4. \A c \in X \ {i} : ~Served(l2, c)
      BY <1>1, <1>d, <1>s DEF Good, Holding
    <3>5. \A j, k \in DOMAIN l2 : l2[j].state = "open" /\ l2[k].state = "open"
                            /\ l2[j].client = l2[k].client /\ l2[j].client # 0 => j = k
      <4>1. \A j \in DOMAIN l : l[j].state = "open" => l[j].client # i
        BY <2>1 DEF Served
      <4>2. \A j, k \in DOMAIN l : l[j].state = "open" /\ l[k].state = "open"
                            /\ l[j].client = l[k].client /\ l[j].client # 0 => j = k
        BY DEF Good, Holding
      <4> QED
        BY <1>6, <4>1, <4>2
    <3> QED
      BY <3>2, <3>3, <3>4, <3>5 DEF Holding
<1>14. Waits(l2, q, pr)
  BY <1>c, <1>d DEF Good, Waits
<1>15. Callers(l2, q, pr, X \ {i})
  <2> SUFFICES ASSUME NEW p \in Program, NEW c, c = pr[p].sock
               PROVE  Caller(l2, q, pr, X \ {i}, p, c)
    BY DEF Callers
  <2>1. Caller(l, q, pr, X, p, c)
    BY DEF Good, Callers
  <2>2. c # s
    BY DEF Good, Services, Service, ServiceOf
  <2> QED
    BY <1>6, <1>a, <1>b, <2>1, <2>2, ZenonT(30) DEF Caller
<1>16. Registers(l2, q, pr, u)
  <2>1. \A m : NoCalls(l, q, m) => NoCalls(l2, q, m)
    BY <1>6, <1>a DEF NoCalls
  <2> SUFFICES ASSUME NEW t \in Server, NEW j, j = pr[t].reg
               PROVE  Enrolls(l2, q, pr, t, j, u.module[t])
    BY DEF Registers
  <2>2. Enrolls(l, q, pr, t, j, u.module[t])
    BY DEF Good, Registers
  <2> QED
    BY <1>6, <1>g, <2>1, <2>2 DEF Enrolls
<1>17. Serves(l2, pr, u)
  <2> SUFFICES ASSUME NEW t \in Server, NEW j, j = pr[t].reg
               PROVE  ServesOn(l2, pr, t, j, u.module[t])
    BY DEF Serves
  <2>1. ServesOn(l, pr, t, j, u.module[t])
    BY DEF Good, Serves
  <2>2. CASE j # s
    BY <1>6, <1>c, <1>d, <2>1, <2>2 DEF ServesOn
  <2>3. CASE j = s
    BY <1>6, <1>e, <1>g, <1>2, <2>1, <2>3 DEF ServesOn
  <2> QED
    BY <2>2, <2>3
<1> QED
  BY <1>7, <1>8, <1>9, <1>10, <1>11, <1>12, <1>13, <1>14, <1>15, <1>16, <1>17 DEF Good

(* An element is taken out of a sequence.                                   *)
LEMMA Removed ==
  ASSUME NEW S, NEW s \in Seq(S), NEW n \in DOMAIN s
  PROVE  /\ RemoveAt(s, n) \in Seq(S) /\ Len(RemoveAt(s, n)) = Len(s) - 1
         /\ \A k \in DOMAIN RemoveAt(s, n) : \E j \in DOMAIN s \ {n} : RemoveAt(s, n)[k] = s[j]
         /\ \A j \in DOMAIN s \ {n} : \E k \in DOMAIN RemoveAt(s, n) : RemoveAt(s, n)[k] = s[j]
         /\ \A k, m \in DOMAIN RemoveAt(s, n) : k # m =>
              \E i, j \in DOMAIN s : i # j /\ RemoveAt(s, n)[k] = s[i] /\ RemoveAt(s, n)[m] = s[j]
<1> DEFINE t == RemoveAt(s, n)
<1>1. n \in 1..Len(s) /\ Len(s) \in Nat /\ DOMAIN s = 1..Len(s)
  OBVIOUS
<1>2. /\ SubSeq(s, 1, n-1) \in Seq(S) /\ Len(SubSeq(s, 1, n-1)) = n - 1
      /\ \A k \in 1..n-1 : SubSeq(s, 1, n-1)[k] = s[k]
      /\ SubSeq(s, n+1, Len(s)) \in Seq(S) /\ Len(SubSeq(s, n+1, Len(s))) = Len(s) - n
      /\ \A k \in 1..Len(s)-n : SubSeq(s, n+1, Len(s))[k] = s[n+k]
  BY <1>1, SMTT(20)
<1>3. /\ t \in Seq(S) /\ Len(t) = Len(s) - 1
      /\ \A k \in 1..Len(s)-1 : t[k] = IF k < n THEN s[k] ELSE s[k+1]
  <2> DEFINE a == SubSeq(s, 1, n-1)
             b == SubSeq(s, n+1, Len(s))
  <2>1. t = a \o b
    BY DEF RemoveAt
  <2> HIDE DEF a, b, t
  <2>2. /\ a \in Seq(S) /\ Len(a) = n - 1 /\ \A k \in 1..n-1 : a[k] = s[k]
        /\ b \in Seq(S) /\ Len(b) = Len(s) - n /\ \A k \in 1..Len(s)-n : b[k] = s[n+k]
    BY <1>2 DEF a, b
  <2> DEFINE ab == a \o b
  <2>3. /\ ab \in Seq(S) /\ Len(ab) = Len(a) + Len(b)
        /\ \A k \in 1..Len(a)+Len(b) : ab[k] = IF k <= Len(a) THEN a[k] ELSE b[k - Len(a)]
    <3> HIDE DEF ab
    <3>1. a \in Seq(S) /\ b \in Seq(S)
      BY <2>2
    <3> QED
      BY <3>1, ConcatProperties, Zenon DEF ab
  <2> HIDE DEF ab
  <2>4. \A k \in 1..Len(s)-1 : ab[k] = IF k < n THEN s[k] ELSE s[k+1]
    <3> TAKE k \in 1..Len(s)-1
    <3>1. ab[k] = IF k <= n - 1 THEN a[k] ELSE b[k - (n-1)]
      BY <1>1, <2>2, <2>3, SMTT(20)
    <3>2. CASE k < n
      BY <1>1, <2>2, <3>1, <3>2
    <3>3. CASE ~(k < n)
      <4>1. k - (n-1) \in 1..Len(s)-n /\ n + (k - (n-1)) = k + 1
        BY <1>1, <3>3
      <4>2. b[k - (n-1)] = s[n + (k - (n-1))]
        BY <2>2, <4>1
      <4> QED
        BY <1>1, <3>1, <3>3, <4>1, <4>2
    <3> QED
      BY <3>2, <3>3
  <2> QED
    BY <1>1, <2>1, <2>2, <2>3, <2>4 DEF ab
<1> HIDE DEF t
<1>4. DOMAIN t = 1..Len(s)-1
  BY <1>3
<1>5. \A k \in DOMAIN t : \E j \in DOMAIN s \ {n} : t[k] = s[j]
  <2> TAKE k \in DOMAIN t
  <2>1. (IF k < n THEN k ELSE k+1) \in DOMAIN s \ {n}
    BY <1>1, <1>4
  <2> QED
    BY <1>3, <1>4, <2>1
<1>6. \A j \in DOMAIN s \ {n} : \E k \in DOMAIN t : t[k] = s[j]
  <2> TAKE j \in DOMAIN s \ {n}
  <2> DEFINE k == IF j < n THEN j ELSE j-1
  <2>1. k \in 1..Len(s)-1 /\ (IF k < n THEN k ELSE k+1) = j
    BY <1>1
  <2>2. t[k] = s[j]
    BY <1>3, <2>1
  <2> QED
    BY <1>4, <2>1, <2>2
<1>7. \A k, m \in DOMAIN t : k # m => \E i, j \in DOMAIN s : i # j /\ t[k] = s[i] /\ t[m] = s[j]
  <2> TAKE k, m \in DOMAIN t
  <2> HAVE k # m
  <2> DEFINE i == IF k < n THEN k ELSE k+1
             j == IF m < n THEN m ELSE m+1
  <2>1. i \in DOMAIN s /\ j \in DOMAIN s /\ i # j
    BY <1>1, <1>4
  <2>2. t[k] = s[i] /\ t[m] = s[j]
    BY <1>3, <1>4
  <2> QED
    BY <2>1, <2>2
<1> QED
  BY <1>3, <1>5, <1>6, <1>7 DEF t

LEMMA RemovedFrom ==
  ASSUME NEW S, NEW s \in Seq(S), NEW n \in DOMAIN s
  PROVE  /\ RemoveAt(s, n) \in Seq(S)
         /\ \A k \in DOMAIN RemoveAt(s, n) : \E j \in DOMAIN s : j # n /\ RemoveAt(s, n)[k] = s[j]
         /\ \A j \in DOMAIN s : j # n => \E k \in DOMAIN RemoveAt(s, n) : RemoveAt(s, n)[k] = s[j]
         /\ \A k, m \in DOMAIN RemoveAt(s, n) : k # m =>
              \E a, b \in DOMAIN s : a # b /\ RemoveAt(s, n)[k] = s[a] /\ RemoveAt(s, n)[m] = s[b]
BY Removed, SMTT(20)

(* A call is taken from the queue.                                          *)
LEMMA Dequeue ==
  ASSUME NEW l, NEW con, NEW q, NEW pr, NEW u, NEW X, Good(l, con, q, pr, u, X),
         NEW n \in DOMAIN q
  PROVE  /\ Good(l, con, RemoveAt(q, n), pr, u, X \cup {q[n].client})
         /\ q[n].client \notin X
<1> DEFINE q2 == RemoveAt(q, n)
           c0 == q[n].client
<1>1. /\ l \in Seq(Link(u)) /\ con \in Seq(Nat) /\ q \in Seq(Entry(u))
      /\ pr \in [Program -> Proc(u)] /\ X \subseteq DOMAIN l
  BY DEF Good, Typed
<1>2. /\ q2 \in Seq(Entry(u))
      /\ \A k \in DOMAIN q2 : \E j \in DOMAIN q : j # n /\ q2[k] = q[j]
      /\ \A j \in DOMAIN q : j # n => \E k \in DOMAIN q2 : q2[k] = q[j]
      /\ \A k, m \in DOMAIN q2 : k # m => \E i, j \in DOMAIN q : i # j /\ q2[k] = q[i] /\ q2[m] = q[j]
  BY <1>1, Removed, SMTT(20)
<1> HIDE DEF q2
<1>d. /\ \A k \in DOMAIN q : q[k].client \in DOMAIN l /\ q[k].client # 0
      /\ \A j \in DOMAIN l : j # 0
  BY <1>1, Clients, Linked DEF Good
<1>3. /\ \A j \in DOMAIN q : j # n => q[j].client # c0
      /\ ~Served(l, c0) /\ c0 \notin X /\ c0 \in DOMAIN l
  BY <1>d DEF Good, Holding
<1> HIDE DEF c0
<1> SUFFICES Good(l, con, q2, pr, u, X \cup {c0}) /\ c0 \notin X
  BY DEF q2, c0
<1>4. \A c : Queued(q, c) <=> Queued(q2, c) \/ c = c0
  <2>1. \A c : Queued(q2, c) => Queued(q, c)
    BY <1>2 DEF Queued
  <2>2. \A c : Queued(q, c) => Queued(q2, c) \/ c = c0
    <3> SUFFICES ASSUME NEW c, NEW j \in DOMAIN q, q[j].client = c, c # c0
                 PROVE  Queued(q2, c)
      BY DEF Queued
    <3>1. j # n
      BY DEF c0
    <3> QED
      BY <1>2, <3>1 DEF Queued
  <2>3. Queued(q, c0)
    BY DEF Queued, c0
  <2> QED
    BY <2>1, <2>2, <2>3
<1>b. \A c : Held(l, q2, X \cup {c0}, c) <=> Held(l, q, X, c)
  BY <1>4 DEF Held
<1>7. Typed(l, con, q2, pr, u, X \cup {c0})
  BY <1>1, <1>2, <1>3 DEF Good, Typed
<1>10. Services(l, q2, pr, X \cup {c0})
  BY <1>b DEF Good, Services, ServiceOf
<1>13. Holding(l, q2, X \cup {c0})
  <2>1. \A k \in DOMAIN q2 : ~Served(l, q2[k].client) /\ q2[k].client \notin X \cup {c0}
    BY <1>2, <1>3 DEF Good, Holding
  <2>2. \A k, m \in DOMAIN q2 : q2[k].client = q2[m].client => k = m
    <3> SUFFICES ASSUME NEW k \in DOMAIN q2, NEW m \in DOMAIN q2, q2[k].client = q2[m].client, k # m
                 PROVE  FALSE
      OBVIOUS
    <3>1. PICK i, j \in DOMAIN q : i # j /\ q2[k] = q[i] /\ q2[m] = q[j]
      BY <1>2
    <3>2. q[i].client = q[j].client
      BY <3>1
    <3> QED
      BY <3>1, <3>2 DEF Good, Holding
  <2> QED
    BY <1>b, <1>3, <2>1, <2>2 DEF Good, Holding
<1>14. Waits(l, q2, pr)
  BY <1>2 DEF Good, Waits
<1>15. Callers(l, q2, pr, X \cup {c0})
  BY <1>b DEF Good, Callers, Caller
<1>16. Registers(l, q2, pr, u)
  <2>1. \A m : NoCalls(l, q, m) => NoCalls(l, q2, m)
    BY <1>2 DEF NoCalls
  <2> QED
    BY <2>1 DEF Good, Registers, Enrolls
<1> QED
  BY <1>7, <1>10, <1>13, <1>14, <1>15, <1>16, <1>3 DEF Good

(* The call in hand is queued.                                              *)
LEMMA Enqueue ==
  ASSUME NEW l, NEW con, NEW q, NEW pr, NEW u, NEW X, Good(l, con, q, pr, u, X),
         NEW i \in X, NEW msg \in Message(u),
         msg.kind = "call", msg.mod # None, Matches(l, pr, i, msg),
         \A t \in Server : pr[t].pc = "register" => u.module[t] # msg.mod
  PROVE  Good(l, con, Append(q, [client |-> i, msg |-> msg]), pr, u, X \ {i})
<1> DEFINE e == [client |-> i, msg |-> msg]
           q2 == Append(q, e)
<1>1. /\ l \in Seq(Link(u)) /\ con \in Seq(Nat) /\ q \in Seq(Entry(u))
      /\ pr \in [Program -> Proc(u)] /\ X \subseteq DOMAIN l
  BY DEF Good, Typed
<1>2. i \in Nat \ {0} /\ e \in Entry(u) /\ e.client = i /\ e.msg = msg
  BY <1>1, Linked DEF Entry
<1> HIDE DEF e
<1>3. /\ q2 \in Seq(Entry(u)) /\ Len(q) \in Nat /\ DOMAIN q = 1..Len(q) /\ DOMAIN q2 = 1..Len(q)+1
      /\ q2[Len(q)+1] = e /\ \A n \in DOMAIN q : n \in DOMAIN q2 /\ q2[n] = q[n]
  BY <1>1, <1>2
<1>4. PICK N : N = Len(q) + 1
  OBVIOUS
<1>5. /\ DOMAIN q2 = DOMAIN q \cup {N} /\ N \notin DOMAIN q /\ q2[N] = e
      /\ \A n \in DOMAIN q : q2[n] = q[n]
  BY <1>3, <1>4
<1> HIDE DEF q2
<1> SUFFICES Good(l, con, q2, pr, u, X \ {i})
  BY DEF q2, e
<1>a. ~Queued(q, i) /\ ~Served(l, i)
  BY DEF Good, Holding, Queued
<1>6. \A c : Queued(q2, c) <=> Queued(q, c) \/ c = i
  BY <1>2, <1>5 DEF Queued
<1>b. \A c : Held(l, q2, X \ {i}, c) <=> Held(l, q, X, c)
  BY <1>6 DEF Held
<1>7. Typed(l, con, q2, pr, u, X \ {i})
  BY <1>1, <1>3 DEF Good, Typed
<1>10. Services(l, q2, pr, X \ {i})
  BY <1>b DEF Good, Services, ServiceOf
<1>13. Holding(l, q2, X \ {i})
  BY <1>2, <1>5, <1>a, <1>b DEF Good, Holding, Queued
<1>14. Waits(l, q2, pr)
  BY <1>2, <1>5 DEF Good, Waits
<1>15. Callers(l, q2, pr, X \ {i})
  BY <1>b DEF Good, Callers, Caller
<1>16. Registers(l, q2, pr, u)
  <2> SUFFICES ASSUME NEW t \in Server, NEW j, j = pr[t].reg
               PROVE  Enrolls(l, q2, pr, t, j, u.module[t])
    BY DEF Registers
  <2>1. Enrolls(l, q, pr, t, j, u.module[t])
    BY DEF Good, Registers
  <2>2. pr[t].pc = "register" => (NoCalls(l, q, u.module[t]) => NoCalls(l, q2, u.module[t]))
    BY <1>2, <1>5 DEF NoCalls
  <2> QED
    BY <2>1, <2>2 DEF Enrolls
<1> QED
  BY <1>7, <1>10, <1>13, <1>14, <1>15, <1>16 DEF Good

(* An answer is read from a server: it and the call are in hand.            *)
LEMMA TakeAnswer ==
  ASSUME NEW l, NEW con, NEW q, NEW pr, NEW u, NEW X, Good(l, con, q, pr, u, X),
         NEW i \in DOMAIN l, l[i].state = "open", l[i].up # <<>>, l[i].client # 0
  PROVE  /\ Good([l EXCEPT ![i] = [l[i] EXCEPT !.up = <<>>, !.client = 0]],
                 con, q, pr, u, X \cup {l[i].client})
         /\ l[i].client \notin X
         /\ l[i].up[1].kind = "answer" /\ Matches(l, pr, l[i].client, l[i].up[1])
<1> DEFINE r == [l[i] EXCEPT !.up = <<>>, !.client = 0]
           l2 == [l EXCEPT ![i] = r]
           c0 == l[i].client
<1>1. /\ l \in Seq(Link(u)) /\ con \in Seq(Nat) /\ q \in Seq(Entry(u))
      /\ pr \in [Program -> Proc(u)] /\ X \subseteq DOMAIN l
  BY DEF Good, Typed
<1>2. l[i] \in Link(u) /\ c0 \in Nat \ {0} /\ i \in Nat \ {0}
  BY <1>1, Linked
<1>3. r \in Link(u)
  BY <1>2 DEF Link, Box
<1> HIDE DEF r
<1>5. /\ l2 \in Seq(Link(u)) /\ DOMAIN l2 = DOMAIN l
      /\ \A j \in DOMAIN l : j # i => l2[j] = l[j]
      /\ l2[i] = r
  BY <1>1, <1>3, Update
<1> HIDE DEF l2
<1>6. /\ DOMAIN l2 = DOMAIN l
      /\ \A j \in DOMAIN l : /\ l2[j].who = l[j].who /\ l2[j].alive = l[j].alive
                             /\ l2[j].state = l[j].state /\ l2[j].module = l[j].module
                             /\ l2[j].down = l[j].down
                             /\ j # i => l2[j].up = l[j].up /\ l2[j].client = l[j].client
      /\ l2[i].up = <<>> /\ l2[i].client = 0
  BY <1>2, <1>5, ZenonT(30) DEF Link, r
<1>a. /\ l[i].module # None /\ l[i].down = <<>> /\ l[i].up[1].kind = "answer"
      /\ Matches(l, pr, c0, l[i].up[1]) /\ i # 0
      /\ Served(l, c0) /\ Held(l, q, X, c0) /\ c0 # 0
  BY <1>1, <1>2 DEF Good, Plain, Ups, Held, Served
<1>s. \A c : c # 0 => (Served(l2, c) <=> Served(l, c) /\ c # c0)
  <2>1. \A j \in DOMAIN l : l[j].state = "open" /\ l[j].client = c0 => j = i
    BY <1>a DEF Good, Holding
  <2> QED
    BY <1>6, <2>1 DEF Served
<1>c. \A m : \A c \in DOMAIN l : Matches(l2, pr, c, m) <=> Matches(l, pr, c, m)
  BY <1>6 DEF Matches
<1>d. /\ \A j \in DOMAIN l : l[j].state = "open" /\ l[j].client # 0 => l[j].client \in DOMAIN l
      /\ \A n \in DOMAIN q : q[n].client \in DOMAIN l /\ q[n].client # 0
      /\ \A j \in DOMAIN l : j # 0
  BY <1>1, Clients, Linked DEF Good
<1>h. c0 \in DOMAIN l /\ c0 \notin X /\ ~Queued(q, c0)
  BY <1>a, <1>d DEF Good, Holding, Queued
<1> HIDE DEF c0
<1> SUFFICES Good(l2, con, q, pr, u, X \cup {c0}) /\ c0 \notin X
             /\ l[i].up[1].kind = "answer" /\ Matches(l, pr, c0, l[i].up[1])
  BY DEF l2, r, c0
<1>b. \A c : c # 0 => (Held(l2, q, X \cup {c0}, c) <=> Held(l, q, X, c))
  BY <1>a, <1>s DEF Held
<1>7. Typed(l2, con, q, pr, u, X \cup {c0})
  BY <1>1, <1>5, <1>h DEF Good, Typed
<1>8. Listed(l2, con)
  BY <1>6 DEF Good, Listed
<1>9. Plain(l2)
  BY <1>6 DEF Good, Plain
<1>10. Services(l2, q, pr, X \cup {c0})
  <2> SUFFICES ASSUME NEW j \in DOMAIN l, Service(l2, j)
               PROVE  ServiceOf(l2, q, pr, X \cup {c0}, j)
    BY <1>6 DEF Services
  <2>1. Service(l, j) /\ j # 0
    BY <1>6, <1>a, <1>d DEF Service
  <2>2. ServiceOf(l, q, pr, X, j)
    BY <2>1 DEF Good, Services
  <2> QED
    BY <1>6, <1>b, <2>1, <2>2 DEF ServiceOf
<1>11. Ups(l2, pr)
  BY <1>6, <1>a, <1>c, <1>d DEF Good, Ups
<1>12. Downs(l2, pr)
  BY <1>6, <1>a, <1>c, <1>d DEF Good, Downs
<1>13. Holding(l2, q, X \cup {c0})
  <2>1. \A c \in Nat \ {0} : Held(l, q, X, c) =>
          /\ c \in DOMAIN l /\ l[c].module = None /\ l[c].state # "pending"
          /\ l[c].up = <<>> /\ l[c].down = <<>>
    BY DEF Good, Holding
  <2>2. \A c \in Nat \ {0} : Held(l2, q, X \cup {c0}, c) =>
          /\ c \in DOMAIN l2 /\ l2[c].module = None /\ l2[c].state # "pending"
          /\ l2[c].up = <<>> /\ l2[c].down = <<>>
    BY <1>6, <1>b, <2>1
  <2>3. \A n \in DOMAIN q : ~Served(l2, q[n].client) /\ q[n].client \notin X \cup {c0}
    BY <1>d, <1>s, <1>h DEF Good, Holding, Queued
  <2>4. \A c \in X \cup {c0} : ~Served(l2, c)
    BY <1>1, <1>d, <1>s, <1>h DEF Good, Holding
  <2>5. \A j, k \in DOMAIN l2 : l2[j].state = "open" /\ l2[k].state = "open"
                            /\ l2[j].client = l2[k].client /\ l2[j].client # 0 => j = k
    BY <1>6 DEF Good, Holding
  <2>6. \A m, n \in DOMAIN q : q[m].client = q[n].client => m = n
    BY DEF Good, Holding
  <2> QED
    BY <2>2, <2>3, <2>4, <2>5, <2>6 DEF Holding
<1>14. Waits(l2, q, pr)
  BY <1>c, <1>d DEF Good, Waits
<1>15. Callers(l2, q, pr, X \cup {c0})
  <2> SUFFICES ASSUME NEW p \in Program, NEW c, c = pr[p].sock
               PROVE  Caller(l2, q, pr, X \cup {c0}, p, c)
    BY DEF Callers
  <2>1. Caller(l, q, pr, X, p, c)
    BY DEF Good, Callers
  <2>2. c # i
    BY <1>a DEF Good, Services, Service, ServiceOf
  <2> QED
    BY <1>6, <1>b, <2>1, <2>2 DEF Caller
<1>16. Registers(l2, q, pr, u)
  <2>1. \A m : NoCalls(l, q, m) => NoCalls(l2, q, m)
    BY <1>6, <1>a DEF NoCalls
  <2> SUFFICES ASSUME NEW s \in Server, NEW j, j = pr[s].reg
               PROVE  Enrolls(l2, q, pr, s, j, u.module[s])
    BY DEF Registers
  <2>2. Enrolls(l, q, pr, s, j, u.module[s])
    BY DEF Good, Registers
  <2>3. pr[s].pc = "register" => j # i
    BY <2>2 DEF Enrolls
  <2> QED
    BY <1>6, <1>a, <2>1, <2>2, <2>3 DEF Enrolls
<1>17. Serves(l2, pr, u)
  <2> SUFFICES ASSUME NEW s \in Server, NEW j, j = pr[s].reg
               PROVE  ServesOn(l2, pr, s, j, u.module[s])
    BY DEF Serves
  <2>1. ServesOn(l, pr, s, j, u.module[s])
    BY DEF Good, Serves
  <2>2. CASE j # i
    BY <1>6, <1>c, <1>d, <2>1, <2>2 DEF ServesOn
  <2>3. CASE j = i
    BY <1>6, <1>a, <2>1, <2>3 DEF ServesOn
  <2> QED
    BY <2>2, <2>3
<1> QED
  BY <1>7, <1>8, <1>9, <1>10, <1>11, <1>12, <1>13, <1>14, <1>15, <1>16, <1>17, <1>a, <1>h DEF Good

(* A server is registered.                                                 *)
LEMMA Enrolled ==
  ASSUME NEW l, NEW con, NEW q, NEW pr, NEW u, NEW X, Good(l, con, q, pr, u, X),
         NEW i \in DOMAIN l, l[i].state = "open", l[i].up # <<>>, l[i].up[1].kind = "register"
  PROVE  Good([l EXCEPT ![i] = [l[i] EXCEPT !.up = <<>>, !.module = l[i].up[1].mod,
                                            !.down = IF l[i].alive THEN <<Ok>> ELSE <<>>]],
              con, q, pr, u, X)
<1> DEFINE nm == l[i].up[1].mod
           b == IF l[i].alive THEN <<Ok>> ELSE <<>>
           r == [l[i] EXCEPT !.up = <<>>, !.module = nm, !.down = b]
           l2 == [l EXCEPT ![i] = r]
<1>1. /\ l \in Seq(Link(u)) /\ con \in Seq(Nat) /\ q \in Seq(Entry(u))
      /\ pr \in [Program -> Proc(u)] /\ X \subseteq DOMAIN l
  BY DEF Good, Typed
<1>2. l[i] \in Link(u) /\ i \in Nat \ {0} /\ l[i].up \in Box(u) /\ l[i].alive \in BOOLEAN
  BY <1>1, Linked
<1>3. nm \in Name(u) /\ b \in Box(u)
  <2>1. l[i].up[1] \in Message(u)
    BY <1>2, Boxes
  <2>2. Ok \in Message(u)
    BY DEF Ok, Message, Kind, Name
  <2> QED
    BY <2>1, <2>2 DEF Message, Box
<1>e. /\ b # <<>> => l[i].alive /\ b[1] = Ok
      /\ l[i].alive => b = <<Ok>>
      /\ Ok.kind = "ok"
  BY <1>2, OneMessage DEF Ok
<1> HIDE DEF nm, b
<1>4. r \in Link(u) /\ r.up = <<>> /\ r.module = nm /\ r.down = b /\ r.who = l[i].who
      /\ r.alive = l[i].alive /\ r.state = l[i].state /\ r.client = l[i].client
  BY <1>2, <1>3 DEF Link, Box
<1> HIDE DEF r
<1>5. /\ l2 \in Seq(Link(u)) /\ DOMAIN l2 = DOMAIN l
      /\ \A j \in DOMAIN l : j # i => l2[j] = l[j]
      /\ l2[i] = r
  BY <1>1, <1>4, Update
<1> HIDE DEF l2
<1>6. /\ DOMAIN l2 = DOMAIN l
      /\ \A j \in DOMAIN l : /\ l2[j].who = l[j].who /\ l2[j].alive = l[j].alive
                             /\ l2[j].state = l[j].state /\ l2[j].client = l[j].client
                             /\ j # i => l2[j].up = l[j].up /\ l2[j].module = l[j].module /\ l2[j].down = l[j].down
      /\ l2[i].up = <<>> /\ l2[i].module = nm /\ l2[i].down = b
  BY <1>4, <1>5
<1> SUFFICES Good(l2, con, q, pr, u, X)
  BY DEF l2, r, nm, b
<1>a. /\ l[i].module = None /\ l[i].down = <<>> /\ l[i].client = 0 /\ nm # None
      /\ Service(l, i) /\ ~Held(l, q, X, i) /\ ServiceOf(l, q, pr, X, i) /\ i # 0
  <2>1. Service(l, i)
    BY DEF Service
  <2> QED
    BY <1>2, <2>1 DEF Good, Plain, Ups, Services, ServiceOf, nm
<1>b. \A c : Held(l2, q, X, c) <=> Held(l, q, X, c)
  BY <1>6 DEF Held, Served
<1>c. \A m : \A c \in DOMAIN l : Matches(l2, pr, c, m) <=> Matches(l, pr, c, m)
  BY <1>6 DEF Matches
<1>d. /\ \A j \in DOMAIN l : l[j].state = "open" /\ l[j].client # 0 => l[j].client \in DOMAIN l
      /\ \A n \in DOMAIN q : q[n].client \in DOMAIN l /\ q[n].client # 0
      /\ \A j \in DOMAIN l : j # 0
  BY <1>1, Clients, Linked DEF Good
<1>g. \A s \in Server : pr[s].reg = i => pr[s].pc \notin {"loop"} \cup Busy
  BY <1>a DEF Good, Serves, ServesOn
<1>7. Typed(l2, con, q, pr, u, X)
  BY <1>1, <1>5 DEF Good, Typed
<1>8. Listed(l2, con)
  BY <1>6 DEF Good, Listed
<1>9. Plain(l2)
  BY <1>6, <1>a, <1>e DEF Good, Plain
<1>10. Services(l2, q, pr, X)
  <2> SUFFICES ASSUME NEW j \in DOMAIN l, Service(l2, j)
               PROVE  ServiceOf(l2, q, pr, X, j)
    BY <1>6 DEF Services
  <2>1. Service(l, j)
    BY <1>6, <1>a DEF Service
  <2>2. ServiceOf(l, q, pr, X, j)
    BY <2>1 DEF Good, Services
  <2> QED
    BY <1>6, <1>a, <1>b, <2>1, <2>2 DEF ServiceOf
<1>11. Ups(l2, pr)
  BY <1>6, <1>a, <1>c, <1>d DEF Good, Ups
<1>12. Downs(l2, pr)
  BY <1>6, <1>a, <1>c, <1>d, <1>e DEF Good, Downs
<1>13. Holding(l2, q, X)
  <2>1. \A c : Served(l2, c) <=> Served(l, c)
    BY <1>6 DEF Served
  <2> QED
    BY <1>6, <1>a, <1>b, <2>1 DEF Good, Holding, Held, Queued
<1>14. Waits(l2, q, pr)
  BY <1>c, <1>d DEF Good, Waits
<1>15. Callers(l2, q, pr, X)
  <2> SUFFICES ASSUME NEW p \in Program, NEW c, c = pr[p].sock
               PROVE  Caller(l2, q, pr, X, p, c)
    BY DEF Callers
  <2>1. Caller(l, q, pr, X, p, c)
    BY DEF Good, Callers
  <2>2. c # i
    BY <1>a DEF ServiceOf
  <2> QED
    BY <1>6, <1>b, <2>1, <2>2 DEF Caller
<1>16. Registers(l2, q, pr, u)
  <2>1. \A n : NoCalls(l, q, n) => NoCalls(l2, q, n)
    BY <1>6, <1>a DEF NoCalls
  <2> SUFFICES ASSUME NEW s \in Server, NEW j, j = pr[s].reg
               PROVE  Enrolls(l2, q, pr, s, j, u.module[s])
    BY DEF Registers
  <2>2. Enrolls(l, q, pr, s, j, u.module[s])
    BY DEF Good, Registers
  <2>3. CASE j # i
    BY <1>6, <1>a, <2>1, <2>2, <2>3 DEF Enrolls
  <2>4. CASE j = i /\ pr[s].pc = "register"
    <3>1. l[i].up = <<Register(u.module[s])>>
      BY <2>2, <2>4 DEF Enrolls
    <3>2. nm = u.module[s]
      BY <3>1, OneMessage DEF nm, Register
    <3> QED
      BY <1>6, <1>a, <1>e, <2>1, <2>2, <2>4, <3>2 DEF Enrolls
  <2>5. CASE j = i /\ pr[s].pc # "register"
    BY <1>a, <2>2, <2>5 DEF Enrolls
  <2> QED
    BY <2>3, <2>4, <2>5
<1>17. Serves(l2, pr, u)
  <2> SUFFICES ASSUME NEW s \in Server, NEW j, j = pr[s].reg
               PROVE  ServesOn(l2, pr, s, j, u.module[s])
    BY DEF Serves
  <2>1. ServesOn(l, pr, s, j, u.module[s])
    BY DEF Good, Serves
  <2> QED
    BY <1>6, <1>c, <1>d, <1>g, <2>1 DEF ServesOn
<1> QED
  BY <1>7, <1>8, <1>9, <1>10, <1>11, <1>12, <1>13, <1>14, <1>15, <1>16, <1>17 DEF Good

(* A connection is closed: the call its server works on is in hand.        *)
LEMMA Shut ==
  ASSUME NEW l, NEW con, NEW q, NEW pr, NEW u, NEW X, Good(l, con, q, pr, u, X),
         NEW n \in DOMAIN con, NEW i, i = con[n],
         l[i].module = None /\ l[i].alive => l[i].up = <<>>
  PROVE  /\ Good([l EXCEPT ![i] = [l[i] EXCEPT !.state = "closed"]], RemoveAt(con, n), q, pr, u,
                 IF l[i].client = 0 THEN X ELSE X \cup {l[i].client})
         /\ l[i].client # 0 => l[i].client \notin X
<1> DEFINE r == [l[i] EXCEPT !.state = "closed"]
           l2 == [l EXCEPT ![i] = r]
           c0 == l[i].client
           X2 == IF c0 = 0 THEN X ELSE X \cup {c0}
           con2 == RemoveAt(con, n)
<1>1. /\ l \in Seq(Link(u)) /\ con \in Seq(Nat) /\ q \in Seq(Entry(u))
      /\ pr \in [Program -> Proc(u)] /\ X \subseteq DOMAIN l
  BY DEF Good, Typed
<1>2. l[i] \in Link(u) /\ i \in Nat \ {0} /\ l[i].state = "open" /\ i \in DOMAIN l
  BY <1>1, Linked DEF Good, Listed
<1>3. /\ con2 \in Seq(Nat)
      /\ \A k \in DOMAIN con2 : \E j \in DOMAIN con : j # n /\ con2[k] = con[j]
      /\ \A j \in DOMAIN con : j # n => \E k \in DOMAIN con2 : con2[k] = con[j]
      /\ \A k, m \in DOMAIN con2 : k # m => \E a, b \in DOMAIN con : a # b /\ con2[k] = con[a] /\ con2[m] = con[b]
  BY <1>1, RemovedFrom
<1>4. /\ r \in Link(u) /\ r.up = l[i].up /\ r.module = l[i].module /\ r.down = l[i].down
      /\ r.who = l[i].who /\ r.alive = l[i].alive /\ r.state = "closed" /\ r.client = l[i].client
  BY <1>2 DEF Link, State
<1> HIDE DEF r, con2
<1>5. /\ l2 \in Seq(Link(u)) /\ DOMAIN l2 = DOMAIN l
      /\ \A j \in DOMAIN l : j # i => l2[j] = l[j]
      /\ l2[i] = r
  BY <1>1, <1>2, <1>4, Update
<1> HIDE DEF l2
<1>6. /\ DOMAIN l2 = DOMAIN l
      /\ \A j \in DOMAIN l : /\ l2[j].who = l[j].who /\ l2[j].alive = l[j].alive
                             /\ l2[j].module = l[j].module /\ l2[j].client = l[j].client
                             /\ l2[j].up = l[j].up /\ l2[j].down = l[j].down
                             /\ j # i => l2[j].state = l[j].state
      /\ l2[i].state = "closed"
  BY <1>4, <1>5
<1>s. \A c : c # 0 => (Served(l2, c) <=> Served(l, c) /\ c # c0)
  <2>1. \A j \in DOMAIN l : c0 # 0 /\ l[j].state = "open" /\ l[j].client = c0 => j = i
    BY <1>2 DEF Good, Holding
  <2> QED
    BY <1>2, <1>6, <2>1 DEF Served
<1>c. \A m : \A c \in DOMAIN l : Matches(l2, pr, c, m) <=> Matches(l, pr, c, m)
  BY <1>6 DEF Matches
<1>d. /\ \A j \in DOMAIN l : l[j].state = "open" /\ l[j].client # 0 => l[j].client \in DOMAIN l
      /\ \A k \in DOMAIN q : q[k].client \in DOMAIN l /\ q[k].client # 0
      /\ \A j \in DOMAIN l : j # 0
  BY <1>1, Clients, Linked DEF Good
<1>a. i # 0 /\ (c0 # 0 => /\ Served(l, c0) /\ c0 \in DOMAIN l /\ c0 \notin X /\ ~Queued(q, c0))
  <2>1. c0 # 0 => Served(l, c0)
    BY <1>2 DEF Served
  <2> QED
    BY <1>2, <1>d, <2>1 DEF Good, Holding, Queued
<1>b. \A c : c # 0 => (Held(l2, q, X2, c) <=> Held(l, q, X, c))
  BY <1>a, <1>s DEF Held
<1>x. /\ X \subseteq X2 /\ (c0 # 0 => c0 \in X2) /\ \A c \in X2 : c \in X \/ (c = c0 /\ c0 # 0)
  OBVIOUS
<1> HIDE DEF c0, X2
<1> SUFFICES Good(l2, con2, q, pr, u, X2) /\ (c0 # 0 => c0 \notin X)
  BY <1>6 DEF l2, r, c0, X2, con2
<1>7. Typed(l2, con2, q, pr, u, X2)
  BY <1>1, <1>3, <1>5, <1>a, <1>x DEF Good, Typed
<1>8. Listed(l2, con2)
  <2>1. /\ \A k \in DOMAIN con : con[k] \in DOMAIN l /\ l[con[k]].state = "open"
        /\ \A j \in DOMAIN l : l[j].state = "open" => \E k \in DOMAIN con : con[k] = j
        /\ \A m, k \in DOMAIN con : con[m] = con[k] => m = k
    BY DEF Good, Listed
  <2>2. \A k \in DOMAIN con2 : con2[k] \in DOMAIN l2 /\ l2[con2[k]].state = "open"
    <3> TAKE k \in DOMAIN con2
    <3>1. PICK j \in DOMAIN con : j # n /\ con2[k] = con[j]
      BY <1>3
    <3>2. con[j] # i /\ con[j] \in DOMAIN l /\ l[con[j]].state = "open"
      BY <2>1, <3>1
    <3> QED
      BY <1>6, <3>1, <3>2
  <2>3. \A j \in DOMAIN l2 : l2[j].state = "open" => \E k \in DOMAIN con2 : con2[k] = j
    <3> SUFFICES ASSUME NEW j \in DOMAIN l, l2[j].state = "open"
                 PROVE  \E k \in DOMAIN con2 : con2[k] = j
      BY <1>6
    <3>1. j # i /\ l[j].state = "open"
      BY <1>6
    <3>2. PICK k \in DOMAIN con : con[k] = j
      BY <2>1, <3>1
    <3> QED
      BY <1>3, <3>1, <3>2
  <2>4. \A m, k \in DOMAIN con2 : con2[m] = con2[k] => m = k
    <3> SUFFICES ASSUME NEW m \in DOMAIN con2, NEW k \in DOMAIN con2, con2[m] = con2[k], m # k
                 PROVE  FALSE
      OBVIOUS
    <3>1. PICK a, b \in DOMAIN con : a # b /\ con2[m] = con[a] /\ con2[k] = con[b]
      BY <1>3
    <3> QED
      BY <2>1, <3>1
  <2> QED
    BY <2>2, <2>3, <2>4 DEF Listed
<1>9. Plain(l2)
  BY <1>6 DEF Good, Plain
<1>10. Services(l2, q, pr, X2)
  <2> SUFFICES ASSUME NEW j \in DOMAIN l, Service(l2, j)
               PROVE  ServiceOf(l2, q, pr, X2, j)
    BY <1>6 DEF Services
  <2>1. Service(l, j) /\ j # 0
    BY <1>6, <1>a, <1>d DEF Service
  <2>2. ServiceOf(l, q, pr, X, j)
    BY <2>1 DEF Good, Services
  <2> QED
    BY <1>6, <1>b, <2>1, <2>2 DEF ServiceOf
<1>11. Ups(l2, pr)
  BY <1>6, <1>a, <1>c, <1>d DEF Good, Ups
<1>12. Downs(l2, pr)
  BY <1>6, <1>a, <1>c, <1>d DEF Good, Downs
<1>13. Holding(l2, q, X2)
  <2>1. \A c \in Nat \ {0} : Held(l, q, X, c) =>
          /\ c \in DOMAIN l /\ l[c].module = None /\ l[c].state # "pending"
          /\ l[c].up = <<>> /\ l[c].down = <<>>
    BY DEF Good, Holding
  <2>2. \A c \in Nat \ {0} : Held(l2, q, X2, c) =>
          /\ c \in DOMAIN l2 /\ l2[c].module = None /\ l2[c].state # "pending"
          /\ l2[c].up = <<>> /\ l2[c].down = <<>>
    BY <1>6, <1>b, <2>1
  <2>3. \A k \in DOMAIN q : ~Served(l2, q[k].client) /\ q[k].client \notin X2
    BY <1>d, <1>s, <1>a, <1>x DEF Good, Holding, Queued
  <2>4. \A c \in X2 : ~Served(l2, c)
    BY <1>1, <1>d, <1>s, <1>a, <1>x DEF Good, Holding
  <2>5. \A j, k \in DOMAIN l2 : l2[j].state = "open" /\ l2[k].state = "open"
                            /\ l2[j].client = l2[k].client /\ l2[j].client # 0 => j = k
    BY <1>6 DEF Good, Holding
  <2>6. \A m, k \in DOMAIN q : q[m].client = q[k].client => m = k
    BY DEF Good, Holding
  <2> QED
    BY <2>2, <2>3, <2>4, <2>5, <2>6 DEF Holding
<1>14. Waits(l2, q, pr)
  BY <1>c, <1>d DEF Good, Waits
<1>15. Callers(l2, q, pr, X2)
  <2> SUFFICES ASSUME NEW p \in Program, NEW c, c = pr[p].sock
               PROVE  Caller(l2, q, pr, X2, p, c)
    BY DEF Callers
  <2>1. Caller(l, q, pr, X, p, c)
    BY DEF Good, Callers
  <2> QED
    BY <1>6, <1>b, <1>2, <2>1 DEF Caller
<1>16. Registers(l2, q, pr, u)
  <2>1. \A m : NoCalls(l, q, m) => NoCalls(l2, q, m)
    BY <1>6 DEF NoCalls
  <2> SUFFICES ASSUME NEW s \in Server, NEW j, j = pr[s].reg
               PROVE  Enrolls(l2, q, pr, s, j, u.module[s])
    BY DEF Registers
  <2>2. Enrolls(l, q, pr, s, j, u.module[s])
    BY DEF Good, Registers
  <2>3. CASE j # i
    BY <1>6, <2>1, <2>2, <2>3 DEF Enrolls
  <2>4. CASE j = i /\ pr[s].pc = "register"
    <3>1. l[i].up # <<Register(u.module[s])>>
      <4>1. l[i].module = None => l[i].up = <<>>
        BY <2>2, <2>4 DEF Enrolls
      <4>2. l[i].module # None => l[i].up = <<>> \/ l[i].up[1].kind = "answer"
        BY <1>2 DEF Good, Ups
      <4> QED
        BY <4>1, <4>2, OneMessage DEF Register
    <3> QED
      BY <1>6, <2>1, <2>2, <2>4, <3>1 DEF Enrolls
  <2>5. CASE j = i /\ pr[s].pc # "register"
    BY <1>a, <2>2, <2>5 DEF Enrolls
  <2> QED
    BY <2>3, <2>4, <2>5
<1>17. Serves(l2, pr, u)
  <2> SUFFICES ASSUME NEW s \in Server, NEW j, j = pr[s].reg
               PROVE  ServesOn(l2, pr, s, j, u.module[s])
    BY DEF Serves
  <2>1. ServesOn(l, pr, s, j, u.module[s])
    BY DEF Good, Serves
  <2> QED
    BY <1>6, <1>a, <1>c, <1>d, <2>1 DEF ServesOn
<1> QED
  BY <1>7, <1>8, <1>9, <1>10, <1>11, <1>12, <1>13, <1>14, <1>15, <1>16, <1>17, <1>a DEF Good

(* A connection is accepted.                                               *)
LEMMA Accepted ==
  ASSUME NEW l, NEW con, NEW q, NEW pr, NEW u, NEW X, Good(l, con, q, pr, u, X),
         NEW i \in DOMAIN l, l[i].state = "pending"
  PROVE  Good([l EXCEPT ![i] = [l[i] EXCEPT !.state = "open"]], Append(con, i), q, pr, u, X)
<1> DEFINE r == [l[i] EXCEPT !.state = "open"]
           l2 == [l EXCEPT ![i] = r]
           con2 == Append(con, i)
<1>1. /\ l \in Seq(Link(u)) /\ con \in Seq(Nat) /\ q \in Seq(Entry(u))
      /\ pr \in [Program -> Proc(u)] /\ X \subseteq DOMAIN l
  BY DEF Good, Typed
<1>2. l[i] \in Link(u) /\ i \in Nat \ {0}
  BY <1>1, Linked
<1>3. PICK N : /\ con2 \in Seq(Nat) /\ DOMAIN con2 = DOMAIN con \cup {N} /\ N \notin DOMAIN con
               /\ con2[N] = i /\ \A k \in DOMAIN con : con2[k] = con[k]
  <2>1. /\ con2 \in Seq(Nat) /\ Len(con) \in Nat /\ DOMAIN con = 1..Len(con)
        /\ DOMAIN con2 = 1..Len(con)+1 /\ con2[Len(con)+1] = i
        /\ \A k \in DOMAIN con : k \in DOMAIN con2 /\ con2[k] = con[k]
    BY <1>1, <1>2
  <2> QED
    BY <2>1
<1>4. /\ r \in Link(u) /\ r.up = l[i].up /\ r.module = l[i].module /\ r.down = l[i].down
      /\ r.who = l[i].who /\ r.alive = l[i].alive /\ r.state = "open" /\ r.client = l[i].client
  BY <1>2 DEF Link, State
<1> HIDE DEF r, con2
<1>5. /\ l2 \in Seq(Link(u)) /\ DOMAIN l2 = DOMAIN l
      /\ \A j \in DOMAIN l : j # i => l2[j] = l[j]
      /\ l2[i] = r
  BY <1>1, <1>2, <1>4, Update
<1> HIDE DEF l2
<1>6. /\ DOMAIN l2 = DOMAIN l
      /\ \A j \in DOMAIN l : /\ l2[j].who = l[j].who /\ l2[j].alive = l[j].alive
                             /\ l2[j].module = l[j].module /\ l2[j].client = l[j].client
                             /\ l2[j].up = l[j].up /\ l2[j].down = l[j].down
                             /\ j # i => l2[j].state = l[j].state
      /\ l2[i].state = "open"
  BY <1>4, <1>5
<1> SUFFICES Good(l2, con2, q, pr, u, X)
  BY DEF l2, r, con2
<1>a. /\ l[i].module = None /\ l[i].client = 0 /\ i # 0
  BY <1>2 DEF Good, Plain
<1>s. \A c : c # 0 => (Served(l2, c) <=> Served(l, c))
  BY <1>6, <1>a DEF Served
<1>c. \A m : \A c \in DOMAIN l : Matches(l2, pr, c, m) <=> Matches(l, pr, c, m)
  BY <1>6 DEF Matches
<1>d. /\ \A j \in DOMAIN l : l[j].state = "open" /\ l[j].client # 0 => l[j].client \in DOMAIN l
      /\ \A n \in DOMAIN q : q[n].client \in DOMAIN l /\ q[n].client # 0
      /\ \A j \in DOMAIN l : j # 0
  BY <1>1, Clients, Linked DEF Good
<1>b. \A c : c # 0 => (Held(l2, q, X, c) <=> Held(l, q, X, c))
  BY <1>s DEF Held
<1>7. Typed(l2, con2, q, pr, u, X)
  BY <1>1, <1>3, <1>5 DEF Good, Typed
<1>8. Listed(l2, con2)
  <2>1. /\ \A k \in DOMAIN con : con[k] \in DOMAIN l /\ l[con[k]].state = "open"
        /\ \A j \in DOMAIN l : l[j].state = "open" => \E k \in DOMAIN con : con[k] = j
        /\ \A m, k \in DOMAIN con : con[m] = con[k] => m = k
    BY DEF Good, Listed
  <2>2. \A k \in DOMAIN con2 : con2[k] \in DOMAIN l2 /\ l2[con2[k]].state = "open"
    BY <1>3, <1>6, <2>1
  <2>3. \A j \in DOMAIN l2 : l2[j].state = "open" => \E k \in DOMAIN con2 : con2[k] = j
    BY <1>3, <1>6, <2>1
  <2>4. \A m, k \in DOMAIN con2 : con2[m] = con2[k] => m = k
    BY <1>3, <2>1
  <2> QED
    BY <2>2, <2>3, <2>4 DEF Listed
<1>9. Plain(l2)
  BY <1>6, <1>a DEF Good, Plain
<1>10. Services(l2, q, pr, X)
  <2> SUFFICES ASSUME NEW j \in DOMAIN l, Service(l2, j)
               PROVE  ServiceOf(l2, q, pr, X, j)
    BY <1>6 DEF Services
  <2>1. Service(l, j) /\ j # 0
    BY <1>6, <1>a, <1>d DEF Service
  <2>2. ServiceOf(l, q, pr, X, j)
    BY <2>1 DEF Good, Services
  <2> QED
    BY <1>6, <1>b, <2>1, <2>2 DEF ServiceOf
<1>11. Ups(l2, pr)
  BY <1>6, <1>a, <1>c, <1>d DEF Good, Ups
<1>12. Downs(l2, pr)
  BY <1>6, <1>a, <1>c, <1>d DEF Good, Downs
<1>13. Holding(l2, q, X)
  <2>1. \A c \in Nat \ {0} : Held(l, q, X, c) =>
          /\ c \in DOMAIN l /\ l[c].module = None /\ l[c].state # "pending"
          /\ l[c].up = <<>> /\ l[c].down = <<>>
    BY DEF Good, Holding
  <2>2. \A c \in Nat \ {0} : Held(l2, q, X, c) =>
          /\ c \in DOMAIN l2 /\ l2[c].module = None /\ l2[c].state # "pending"
          /\ l2[c].up = <<>> /\ l2[c].down = <<>>
    BY <1>6, <1>b, <2>1
  <2>3. \A k \in DOMAIN q : ~Served(l2, q[k].client) /\ q[k].client \notin X
    BY <1>d, <1>s DEF Good, Holding
  <2>4. \A c \in X : ~Served(l2, c)
    BY <1>1, <1>d, <1>s DEF Good, Holding
  <2>5. \A j, k \in DOMAIN l2 : l2[j].state = "open" /\ l2[k].state = "open"
                            /\ l2[j].client = l2[k].client /\ l2[j].client # 0 => j = k
    BY <1>6, <1>a DEF Good, Holding
  <2>6. \A m, k \in DOMAIN q : q[m].client = q[k].client => m = k
    BY DEF Good, Holding
  <2> QED
    BY <2>2, <2>3, <2>4, <2>5, <2>6 DEF Holding
<1>14. Waits(l2, q, pr)
  BY <1>c, <1>d DEF Good, Waits
<1>15. Callers(l2, q, pr, X)
  <2> SUFFICES ASSUME NEW p \in Program, NEW c, c = pr[p].sock
               PROVE  Caller(l2, q, pr, X, p, c)
    BY DEF Callers
  <2>1. Caller(l, q, pr, X, p, c)
    BY DEF Good, Callers
  <2> QED
    BY <1>6, <1>a, <1>b, <2>1 DEF Caller
<1>16. Registers(l2, q, pr, u)
  <2>1. \A m : NoCalls(l, q, m) => NoCalls(l2, q, m)
    BY <1>6, <1>a DEF NoCalls
  <2> SUFFICES ASSUME NEW s \in Server, NEW j, j = pr[s].reg
               PROVE  Enrolls(l2, q, pr, s, j, u.module[s])
    BY DEF Registers
  <2>2. Enrolls(l, q, pr, s, j, u.module[s])
    BY DEF Good, Registers
  <2> QED
    BY <1>6, <1>a, <2>1, <2>2 DEF Enrolls
<1>17. Serves(l2, pr, u)
  <2> SUFFICES ASSUME NEW s \in Server, NEW j, j = pr[s].reg
               PROVE  ServesOn(l2, pr, s, j, u.module[s])
    BY DEF Serves
  <2>1. ServesOn(l, pr, s, j, u.module[s])
    BY DEF Good, Serves
  <2> QED
    BY <1>6, <1>a, <1>c, <1>d, <2>1 DEF ServesOn
<1> QED
  BY <1>7, <1>8, <1>9, <1>10, <1>11, <1>12, <1>13, <1>14, <1>15, <1>16, <1>17 DEF Good


-----------------------------------------------------------------------------
(* Numbers.                                                                 *)

(* A set of numbers has a least one.                                        *)
LEMMA Least ==
  ASSUME NEW S \in SUBSET Nat, S # {}
  PROVE  \E i \in S : \A j \in S : i <= j
<1> DEFINE R == OpToRel(<, Nat)
<1>1. IsWellFoundedOn(R, Nat)
  BY NatLessThanWellFounded, Zenon
<1>2. \A x, y \in Nat : y < x => <<y, x>> \in R
  BY DEF OpToRel
<1> HIDE DEF R
<1>3. PICK x \in S : \A y \in S : <<y, x>> \notin R
  BY <1>1, WFMin
<1>4. \A y \in S : ~(y < x)
  BY <1>2, <1>3
<1> QED
  BY <1>4

LEMMA MinOf ==
  ASSUME NEW S \in SUBSET Nat, S # {}
  PROVE  Min(S) \in S /\ \A j \in S : Min(S) <= j
BY Least DEF Min

LEMMA MaxOf ==
  ASSUME NEW N \in Nat, NEW S \in SUBSET (1..N), S # {}
  PROVE  Max(S) \in S
<1> DEFINE T == {N - x : x \in S}
<1>1. T \in SUBSET Nat /\ T # {}
  <2>1. \A x \in S : N - x \in Nat
    OBVIOUS
  <2> QED
    BY <2>1
<1>2. PICK t \in T : \A j \in T : t <= j
  BY <1>1, Least
<1>3. PICK x \in S : t = N - x
  OBVIOUS
<1>4. \A y \in S : x >= y
  <2> TAKE y \in S
  <2>1. N - y \in T
    OBVIOUS
  <2> QED
    BY <1>2, <1>3, <2>1
<1> QED
  BY <1>4 DEF Max

-----------------------------------------------------------------------------
(* The operations of the wrapper, put together.                             *)

LEMMA NoServiceIsMessage ==
  ASSUME NEW u
  PROVE  noservice \in Message(u) /\ noservice.kind = "fault"
BY DEF noservice, Message, Kind, Name

(* findsrv finds a connection of a server of the module.                    *)
LEMMA Found ==
  ASSUME NEW u, NEW w \in Wrap(u), NEW m, Listed(w.link, w.con), findsrv(w, m) # 0
  PROVE  /\ findsrv(w, m) \in DOMAIN w.link
         /\ w.link[findsrv(w, m)].state = "open" /\ w.link[findsrv(w, m)].module = m
<1> DEFINE of == Serving(w, m)
           free == {n \in of : w.link[w.con[n]].client = 0}
<1>1. /\ w.con \in Seq(Nat) /\ DOMAIN w.con = 1..Len(w.con) /\ Len(w.con) \in Nat
  <2>1. w.con \in Seq(Nat)
    BY DEF Wrap
  <2> QED
    BY <2>1
<1>2. /\ of \in SUBSET (1..Len(w.con)) /\ free \in SUBSET Nat /\ free \subseteq of
      /\ of \in SUBSET Nat
  BY <1>1 DEF Serving
<1>3. \A n \in of : /\ w.con[n] \in DOMAIN w.link /\ w.link[w.con[n]].state = "open"
                    /\ w.link[w.con[n]].module = m
  BY DEF Serving, Listed
<1>4. findsrv(w, m) = IF free # {} THEN w.con[Min(free)] ELSE IF of # {} THEN w.con[Max(of)] ELSE 0
  BY DEF findsrv
<1> HIDE DEF of, free
<1>5. free # {} => Min(free) \in of
  BY <1>2, MinOf
<1>6. of # {} => Max(of) \in of
  BY <1>1, <1>2, MaxOf
<1> QED
  BY <1>3, <1>4, <1>5, <1>6

Closed(l, i) == [l EXCEPT ![i] = [l[i] EXCEPT !.state = "closed"]]

(* Only what is sent down may differ.                                       *)
SameLinks(l, l2) ==
  /\ DOMAIN l2 = DOMAIN l
  /\ \A j \in DOMAIN l : /\ l2[j].who = l[j].who /\ l2[j].alive = l[j].alive
                         /\ l2[j].state = l[j].state /\ l2[j].module = l[j].module
                         /\ l2[j].client = l[j].client /\ l2[j].up = l[j].up

LEMMA WriteTyped ==
  ASSUME NEW u, NEW l \in Seq(Link(u)), NEW c \in DOMAIN l, NEW a \in Message(u), l[c].down = <<>>
  PROVE  /\ write(l, c, a) \in Seq(Link(u)) /\ SameLinks(l, write(l, c, a))
         /\ \A j \in DOMAIN l : j # c => write(l, c, a)[j] = l[j]
<1>1. l[c] \in Link(u)
  BY Linked
<1>2. [l[c] EXCEPT !.down = <<a>>] \in Link(u)
  BY <1>1 DEF Link, Box
<1>3. CASE l[c].state = "open" /\ l[c].alive
  <2> DEFINE l2 == write(l, c, a)
  <2>1. l2 = [l EXCEPT ![c] = [l[c] EXCEPT !.down = <<a>>]]
    BY <1>3, OneMessage DEF write
  <2>2. /\ l2 \in Seq(Link(u)) /\ DOMAIN l2 = DOMAIN l
        /\ \A j \in DOMAIN l : j # c => l2[j] = l[j]
        /\ l2[c] = [l[c] EXCEPT !.down = <<a>>]
    BY <1>2, <2>1, Update
  <2> HIDE DEF l2
  <2>3. SameLinks(l, l2)
    BY <1>1, <2>2, ZenonT(30) DEF SameLinks, Link
  <2> QED
    BY <2>2, <2>3 DEF l2
<1>4. CASE ~(l[c].state = "open" /\ l[c].alive)
  BY <1>4 DEF write, SameLinks
<1> QED
  BY <1>3, <1>4

(* Writing and closing different links commute.                             *)
LEMMA WriteClosed ==
  ASSUME NEW u, NEW l \in Seq(Link(u)), NEW i \in DOMAIN l, NEW c \in DOMAIN l, c # i, NEW a
  PROVE  Closed(write(l, c, a), i) = write(Closed(l, i), c, a)
<1>1. Closed(l, i)[c] = l[c]
  BY DEF Closed
<1>2. CASE l[c].state = "open" /\ l[c].alive
  <2> DEFINE l2 == [l EXCEPT ![c].down = Append(@, a)]
  <2>1. write(l, c, a) = l2 /\ l2[i] = l[i]
    BY <1>2 DEF write
  <2>2. write(Closed(l, i), c, a) = [Closed(l, i) EXCEPT ![c].down = Append(@, a)]
    BY <1>1, <1>2 DEF write
  <2>3. Closed(l2, i) = [l2 EXCEPT ![i] = [l[i] EXCEPT !.state = "closed"]]
    BY <2>1, Zenon DEF Closed
  <2> QED
    BY <2>1, <2>2, <2>3 DEF Closed
<1>3. CASE ~(l[c].state = "open" /\ l[c].alive)
  BY <1>1, <1>3 DEF write
<1> QED
  BY <1>2, <1>3

(* While the connection i is being closed, it counts as closed.             *)
Shutting(w, i, pr, u, X) ==
  w \in Wrap(u) /\ i \in DOMAIN w.link /\ Good(Closed(w.link, i), w.con, w.queue, pr, u, X)

LEMMA FailOne ==
  ASSUME NEW w, NEW i, NEW pr, NEW u, NEW X, Shutting(w, i, pr, u, X),
         NEW k \in DOMAIN w.queue
  PROVE  LET v == FailAt(w, k, w.link[i].module) IN
         /\ Shutting(v, i, pr, u, X)
         /\ v.con = w.con /\ Len(v.queue) >= Len(w.queue) - 1
         /\ SameLinks(w.link, v.link)
<1> DEFINE m == w.link[i].module
           v == FailAt(w, k, m)
           l == w.link
           q == w.queue
           c == q[k].client
           l1 == Closed(l, i)
<1>1. l \in Seq(Link(u)) /\ w.con \in Seq(Nat) /\ q \in Seq(Entry(u)) /\ i \in DOMAIN l /\ w \in Wrap(u)
  BY DEF Wrap, Shutting
<1>2. CASE q[k].msg.mod # m
  <2>1. v = w
    BY <1>2 DEF FailAt
  <2>2. Len(q) \in Nat
    BY <1>1
  <2> HIDE DEF v
  <2>3. SameLinks(l, v.link) /\ v.con = w.con /\ Len(v.queue) >= Len(q) - 1 /\ Shutting(v, i, pr, u, X)
    BY <2>1, <2>2 DEF SameLinks
  <2> QED
    BY <2>1, <2>3 DEF v
<1>3. CASE q[k].msg.mod = m
  <2>1. v = [w EXCEPT !.link = write(l, c, noservice), !.queue = RemoveAt(q, k)]
    BY <1>3 DEF FailAt
  <2>2. v = [link |-> write(l, c, noservice), con |-> w.con, queue |-> RemoveAt(q, k)]
    BY <1>1, <2>1 DEF Wrap
  <2> HIDE DEF v
  <2>3. Good(l1, w.con, q, pr, u, X)
    BY DEF Shutting
  <2>4. /\ l[i] \in Link(u) /\ l1 \in Seq(Link(u)) /\ DOMAIN l1 = DOMAIN l
        /\ l1[i].module = m /\ \A j \in DOMAIN l : j # i => l1[j] = l[j]
    <3>1. l[i] \in Link(u)
      BY <1>1, Linked
    <3>2. [l[i] EXCEPT !.state = "closed"] \in Link(u)
      BY <3>1 DEF Link, State
    <3>3. /\ l1 \in Seq(Link(u)) /\ DOMAIN l1 = DOMAIN l /\ \A j \in DOMAIN l : j # i => l1[j] = l[j]
          /\ l1[i] = [l[i] EXCEPT !.state = "closed"]
      BY <1>1, <3>2, Update, ZenonT(30) DEF Closed
    <3> QED
      BY <3>1, <3>3 DEF Link
  <2> HIDE DEF l1, l, q, m
  <2>5. c \in DOMAIN l /\ c # i /\ l[c].down = <<>>
    <3>1. c \in DOMAIN l1 /\ c # 0
      BY <1>1, <2>3, <2>4, Clients DEF Good, q
    <3>2. c \in Nat \ {0} /\ Held(l1, q, X, c)
      BY <2>4, <3>1, Linked DEF Held, Queued, q
    <3>3. l1[c].module = None /\ l1[c].down = <<>> /\ m # None
      BY <1>3, <2>3, <3>2 DEF Good, Holding, Waits, q
    <3> QED
      BY <2>4, <3>1, <3>3
  <2>6. Good(l1, w.con, RemoveAt(q, k), pr, u, X \cup {c}) /\ c \notin X
    BY <2>3, Dequeue DEF q
  <2>7. Good(write(l1, c, noservice), w.con, RemoveAt(q, k), pr, u, (X \cup {c}) \ {c})
    <3> DEFINE Y == X \cup {c}
    <3>1. c \in Y
      OBVIOUS
    <3> HIDE DEF Y, c
    <3>2. Good(l1, w.con, RemoveAt(q, k), pr, u, Y)
      BY <2>6 DEF Y
    <3>3. Good(write(l1, c, noservice), w.con, RemoveAt(q, k), pr, u, Y \ {c})
      BY <3>1, <3>2, Give, NoServiceIsMessage
    <3> QED
      BY <3>3 DEF Y
  <2>8. (X \cup {c}) \ {c} = X
    BY <2>6
  <2>9. write(l1, c, noservice) = Closed(write(l, c, noservice), i)
    BY <1>1, <2>5, WriteClosed DEF l, l1
  <2>10. write(l, c, noservice) \in Seq(Link(u)) /\ SameLinks(l, write(l, c, noservice))
    BY <1>1, <2>5, WriteTyped, NoServiceIsMessage DEF l
  <2>11. RemoveAt(q, k) \in Seq(Entry(u)) /\ Len(RemoveAt(q, k)) = Len(q) - 1
    <3>1. q \in Seq(Entry(u)) /\ k \in DOMAIN q
      BY <1>1 DEF q
    <3> QED
      BY <3>1, Removed
  <2>12. v \in Wrap(u) /\ v.link = write(l, c, noservice) /\ v.con = w.con /\ v.queue = RemoveAt(q, k)
    <3>1. v.link = write(l, c, noservice) /\ v.con = w.con /\ v.queue = RemoveAt(q, k)
      BY <2>2
    <3>2. v.link \in Seq(Link(u)) /\ v.con \in Seq(Nat) /\ v.queue \in Seq(Entry(u))
      BY <1>1, <2>10, <2>11, <3>1
    <3> QED
      BY <2>2, <3>1, <3>2 DEF Wrap
  <2>13. Good(Closed(v.link, i), v.con, v.queue, pr, u, X)
    BY <2>7, <2>8, <2>9, <2>12, Zenon
  <2>14. i \in DOMAIN v.link
    BY <1>1, <2>10, <2>12 DEF SameLinks, l
  <2>15. Len(v.queue) >= Len(q) - 1
    BY <1>1, <2>11, <2>12 DEF q
  <2>16. Shutting(v, i, pr, u, X)
    BY <2>12, <2>13, <2>14 DEF Shutting
  <2>17. SameLinks(l, v.link)
    BY <2>10, <2>12
  <2> QED
    BY <2>12, <2>15, <2>16, <2>17, Zenon DEF v, l, q, m
<1> QED
  BY <1>2, <1>3

(* What the definition of FailQueued asks of a function.                    *)
IsFold(f, w, m, T) ==
  f = [s \in SUBSET T |-> IF s = {} THEN w ELSE FailAt(f[s \ {Min(s)}], Min(s), m)]

LEMMA FoldExists ==
  ASSUME NEW w, NEW m, NEW N \in Nat
  PROVE  \E f : IsFold(f, w, m, 1..N)
<1> DEFINE H(d) == \E f : IsFold(f, w, m, (N + 1 - d)..N)
           S == {d \in 0..N : ~H(d)}
<1>1. H(0)
  <2> DEFINE f == [s \in SUBSET ((N + 1)..N) |-> w]
  <2>1. (N + 1)..N = {} /\ N + 1 - 0 = N + 1
    OBVIOUS
  <2>2. \A s \in SUBSET ((N + 1)..N) : s = {}
    BY <2>1
  <2>3. IsFold(f, w, m, (N + 1)..N)
    BY <2>2 DEF IsFold
  <2> QED
    BY <2>1, <2>3
<1>2. ASSUME NEW d \in 0..N-1, H(d)
      PROVE  H(d + 1)
  <2> DEFINE k == N - d
             A == (k + 1)..N
             B == k..N
  <2>1. PICK f : IsFold(f, w, m, A)
    <3>1. N + 1 - d = k + 1
      OBVIOUS
    <3> QED
      BY <1>2, <3>1
  <2>2. /\ A \subseteq B /\ k \in B /\ k \notin A /\ B \subseteq Nat
        /\ \A s \in SUBSET B : /\ k \notin s => s \in SUBSET A
                               /\ s \ {k} \in SUBSET A
                               /\ k \in s => \A j \in s : k <= j
    OBVIOUS
  <2>3. \A s \in SUBSET B : k \in s => Min(s) = k
    <3> TAKE s \in SUBSET B
    <3> HAVE k \in s
    <3>1. Min(s) \in s /\ \A j \in s : Min(s) <= j
      BY <2>2, MinOf
    <3>2. Min(s) <= k /\ k <= Min(s) /\ Min(s) \in Nat /\ k \in Nat
      BY <2>2, <3>1
    <3> QED
      BY <3>2
  <2>4. N + 1 - (d + 1) = k
    OBVIOUS
  <2> HIDE DEF A, B, k
  <2> DEFINE g == [s \in SUBSET B |-> IF k \in s THEN FailAt(f[s \ {k}], k, m) ELSE f[s]]
  <2>5. f = [s \in SUBSET A |-> IF s = {} THEN w ELSE FailAt(f[s \ {Min(s)}], Min(s), m)]
    BY <2>1 DEF IsFold
  <2>6. \A s \in SUBSET A : f[s] = IF s = {} THEN w ELSE FailAt(f[s \ {Min(s)}], Min(s), m)
    BY <2>5
  <2>7. \A s \in SUBSET A : g[s] = f[s]
    BY <2>2
  <2>8. \A s \in SUBSET B : g[s] = IF s = {} THEN w ELSE FailAt(g[s \ {Min(s)}], Min(s), m)
    <3> TAKE s \in SUBSET B
    <3>1. CASE k \in s
      <4>1. Min(s) = k /\ s # {} /\ s \ {k} \in SUBSET A
        BY <2>2, <2>3, <3>1
      <4>2. g[s \ {k}] = f[s \ {k}]
        BY <2>7, <4>1
      <4>3. g[s] = FailAt(f[s \ {k}], k, m)
        BY <3>1
      <4> HIDE DEF g
      <4> QED
        BY <4>1, <4>2, <4>3
    <3>2. CASE k \notin s
      <4>1. s \in SUBSET A /\ s \ {Min(s)} \in SUBSET A
        BY <2>2, <3>2
      <4>2. g[s] = f[s] /\ g[s \ {Min(s)}] = f[s \ {Min(s)}]
        BY <2>7, <4>1
      <4> HIDE DEF g
      <4> QED
        BY <2>6, <4>1, <4>2
    <3> QED
      BY <3>1, <3>2
  <2>9. g = [s \in SUBSET B |-> g[s]]
    OBVIOUS
  <2> HIDE DEF g
  <2>10. g = [s \in SUBSET B |-> IF s = {} THEN w ELSE FailAt(g[s \ {Min(s)}], Min(s), m)]
    BY <2>8, <2>9
  <2>11. IsFold(g, w, m, B)
    BY <2>10 DEF IsFold
  <2> QED
    BY <2>4, <2>11 DEF B
<1>3. H(N)
  <2> SUFFICES ASSUME ~H(N) PROVE FALSE
    OBVIOUS
  <2>1. S \in SUBSET Nat /\ S # {}
    <3>1. N \in 0..N /\ 0..N \subseteq Nat
      OBVIOUS
    <3> HIDE DEF H
    <3> QED
      BY <3>1
  <2>2. PICK d \in S : \A j \in S : d <= j
    BY <2>1, Least
  <2>3. d \in 0..N /\ ~H(d) /\ d # 0
    BY <1>1, <2>2
  <2>4. d - 1 \in 0..N-1 /\ d - 1 \notin S /\ d - 1 \in 0..N /\ (d - 1) + 1 = d
    BY <2>2, <2>3
  <2>5. H(d - 1)
    BY <2>4
  <2> HIDE DEF H
  <2> QED
    BY <1>2, <2>3, <2>4, <2>5
<1>4. (N + 1 - N)..N = 1..N
  OBVIOUS
<1> QED
  BY <1>3, <1>4

LEMMA FailQueuedFolds ==
  ASSUME NEW w, NEW m, NEW N \in Nat, DOMAIN w.queue = 1..N, findsrv(w, m) = 0
  PROVE  \E f : IsFold(f, w, m, 1..N) /\ FailQueued(w, m) = f[1..N]
<1> DEFINE e == [n \in DOMAIN w.queue |-> n]
           P(g) == g = [s \in SUBSET (DOMAIN e) |->
                          IF s = {} THEN w ELSE FailAt(g[s \ {Min(s)}], e[Min(s)], m)]
           f == CHOOSE g : P(g)
<1>1. FailQueued(w, m) = f[DOMAIN e]
  BY DEF FailQueued, FoldRightDomain, FoldRight, MapThenFoldSet
<1>2. DOMAIN e = 1..N /\ \A n \in 1..N : e[n] = n
  OBVIOUS
<1> HIDE DEF e
<1>3. \A g : P(g) <=> IsFold(g, w, m, 1..N)
  <2> TAKE g
  <2>1. \A s \in SUBSET (1..N) : s # {} => e[Min(s)] = Min(s)
    <3> TAKE s \in SUBSET (1..N)
    <3> HAVE s # {}
    <3>1. Min(s) \in s
      BY MinOf
    <3> QED
      BY <1>2, <3>1
  <2>2. \A s \in SUBSET (1..N) :
          (IF s = {} THEN w ELSE FailAt(g[s \ {Min(s)}], e[Min(s)], m))
            = (IF s = {} THEN w ELSE FailAt(g[s \ {Min(s)}], Min(s), m))
    BY <2>1
  <2>3. [s \in SUBSET (1..N) |-> IF s = {} THEN w ELSE FailAt(g[s \ {Min(s)}], e[Min(s)], m)]
          = [s \in SUBSET (1..N) |-> IF s = {} THEN w ELSE FailAt(g[s \ {Min(s)}], Min(s), m)]
    BY <2>2
  <2>4. P(g) <=> g = [s \in SUBSET (1..N) |-> IF s = {} THEN w ELSE FailAt(g[s \ {Min(s)}], e[Min(s)], m)]
    BY <1>2
  <2> QED
    BY <2>3, <2>4, Zenon DEF IsFold
<1>4. \E g : P(g)
  BY <1>3, FoldExists
<1>5. P(f)
  <2> HIDE DEF P
  <2> QED
    BY <1>4
<1>6. IsFold(f, w, m, 1..N)
  BY <1>3, <1>5
<1> HIDE DEF f
<1> QED
  BY <1>1, <1>2, <1>6

(* The calls for the module of a connection that is being closed fail, if   *)
(* they do.                                                                 *)
LEMMA FailAll ==
  ASSUME NEW w, NEW i, NEW pr, NEW u, NEW X, Shutting(w, i, pr, u, X)
  PROVE  LET v == FailQueued(w, w.link[i].module) IN
         /\ Shutting(v, i, pr, u, X)
         /\ v.con = w.con /\ SameLinks(w.link, v.link)
<1> DEFINE m == w.link[i].module
           Fine(v, n) == /\ Shutting(v, i, pr, u, X) /\ v.con = w.con /\ SameLinks(w.link, v.link)
                         /\ Len(v.queue) >= n
<1>1. w.queue \in Seq(Entry(u)) /\ i \in DOMAIN w.link
  BY DEF Shutting, Wrap
<1>2. PICK N \in Nat : N = Len(w.queue) /\ DOMAIN w.queue = 1..N
  BY <1>1
<1>3. Fine(w, N)
  BY <1>2 DEF SameLinks
<1>4. CASE findsrv(w, m) # 0
  BY <1>3, <1>4 DEF FailQueued
<1>5. CASE findsrv(w, m) = 0
  <2>1. PICK f : IsFold(f, w, m, 1..N) /\ FailQueued(w, m) = f[1..N]
    BY <1>2, <1>5, FailQueuedFolds
  <2>2. f = [s \in SUBSET (1..N) |-> IF s = {} THEN w ELSE FailAt(f[s \ {Min(s)}], Min(s), m)]
    BY <2>1 DEF IsFold
  <2>3. \A s \in SUBSET (1..N) : f[s] = IF s = {} THEN w ELSE FailAt(f[s \ {Min(s)}], Min(s), m)
    BY <2>2
  <2> HIDE DEF m, Fine
  <2>4. \A v : \A n \in 1..N : Fine(v, n) => Fine(FailAt(v, n, m), n - 1)
    <3> SUFFICES ASSUME NEW v, NEW n \in 1..N, Fine(v, n)
                 PROVE  Fine(FailAt(v, n, m), n - 1)
      OBVIOUS
    <3>1. /\ Shutting(v, i, pr, u, X) /\ v.con = w.con /\ SameLinks(w.link, v.link)
          /\ Len(v.queue) >= n
      BY DEF Fine
    <3>2. v.queue \in Seq(Entry(u))
      BY <3>1 DEF Shutting, Wrap
    <3>3. n \in DOMAIN v.queue /\ Len(v.queue) \in Nat
      BY <3>1, <3>2
    <3>4. v.link[i].module = m
      BY <1>1, <3>1 DEF SameLinks, m
    <3> DEFINE y == FailAt(v, n, m)
    <3>5. /\ Shutting(y, i, pr, u, X) /\ y.con = v.con /\ Len(y.queue) >= Len(v.queue) - 1
          /\ SameLinks(v.link, y.link)
      BY <3>1, <3>3, <3>4, FailOne
    <3> HIDE DEF y
    <3>6. SameLinks(w.link, y.link)
      BY <3>1, <3>5 DEF SameLinks
    <3>7. y.queue \in Seq(Entry(u))
      BY <3>5 DEF Shutting, Wrap
    <3>8. Len(y.queue) >= n - 1
      BY <3>1, <3>3, <3>5, <3>7
    <3>9. Fine(y, n - 1)
      BY <3>1, <3>5, <3>6, <3>8 DEF Fine
    <3> QED
      BY <3>9 DEF y
  <2>5. \A n \in 1..N : Fine(f[(n + 1)..N], n) => Fine(f[n..N], n - 1)
    <3> TAKE n \in 1..N
    <3> HAVE Fine(f[(n + 1)..N], n)
    <3>1. n..N \in SUBSET (1..N) /\ n..N # {} /\ n..N \subseteq Nat /\ n \in n..N
      OBVIOUS
    <3>2. Min(n..N) = n
      <4>1. Min(n..N) \in n..N /\ \A j \in n..N : Min(n..N) <= j
        BY <3>1, MinOf
      <4> QED
        BY <3>1, <4>1
    <3>3. (n..N) \ {n} = (n + 1)..N
      OBVIOUS
    <3>4. f[n..N] = FailAt(f[(n + 1)..N], n, m)
      BY <2>3, <3>1, <3>2, <3>3
    <3> QED
      BY <2>4, <3>4
  <2> DEFINE H(d) == Fine(f[(N + 1 - d)..N], N - d)
             S == {d \in 0..N : ~H(d)}
  <2>6. H(0)
    <3>1. (N + 1 - 0)..N = {} /\ N - 0 = N /\ {} \in SUBSET (1..N)
      OBVIOUS
    <3>2. f[{}] = w
      BY <2>3, <3>1
    <3>3. Fine(w, N)
      BY <1>3 DEF Fine, m
    <3> QED
      BY <3>1, <3>2, <3>3
  <2>7. \A d \in 0..N-1 : H(d) => H(d + 1)
    <3> TAKE d \in 0..N-1
    <3> HAVE H(d)
    <3>0. N - d \in 1..N
      OBVIOUS
    <3>1. PICK n \in 1..N : n = N - d
      BY <3>0
    <3>4. N + 1 - d = n + 1 /\ N + 1 - (d + 1) = n /\ N - (d + 1) = n - 1
      BY <3>1
    <3>2. Fine(f[(n + 1)..N], n)
      BY <3>1, <3>4
    <3>3. Fine(f[n..N], n - 1)
      BY <2>5, <3>2
    <3> QED
      BY <3>3, <3>4
  <2> HIDE DEF H
  <2>8. H(N)
    <3> SUFFICES ASSUME ~H(N) PROVE FALSE
      OBVIOUS
    <3>1. S \in SUBSET Nat /\ S # {}
      <4>1. N \in 0..N /\ 0..N \subseteq Nat
        OBVIOUS
      <4> QED
        BY <4>1
    <3>2. PICK d \in S : \A j \in S : d <= j
      BY <3>1, Least
    <3>3. d \in 0..N /\ ~H(d) /\ d # 0
      BY <2>6, <3>2
    <3>4. d - 1 \in 0..N-1 /\ d - 1 \notin S /\ d - 1 \in 0..N /\ (d - 1) + 1 = d
      BY <3>2, <3>3
    <3>5. H(d - 1)
      BY <3>4
    <3> QED
      BY <2>7, <3>3, <3>4, <3>5
  <2>9. N + 1 - N = 1 /\ N - N = 0
    OBVIOUS
  <2>10. Fine(FailQueued(w, m), 0)
    BY <2>1, <2>8, <2>9 DEF H
  <2> QED
    BY <2>10 DEF Fine, m
<1> QED
  BY <1>4, <1>5

(* When no call is queued for the module, none fails.                       *)
LEMMA FailNone ==
  ASSUME NEW w, NEW m, NEW N \in Nat, DOMAIN w.queue = 1..N,
         \A k \in DOMAIN w.queue : w.queue[k].msg.mod # m
  PROVE  FailQueued(w, m) = w
<1>1. CASE findsrv(w, m) # 0
  BY <1>1 DEF FailQueued
<1>2. CASE findsrv(w, m) = 0
  <2>1. PICK f : IsFold(f, w, m, 1..N) /\ FailQueued(w, m) = f[1..N]
    BY <1>2, FailQueuedFolds
  <2>2. \A s \in SUBSET (1..N) : f[s] = IF s = {} THEN w ELSE FailAt(f[s \ {Min(s)}], Min(s), m)
    <3>1. f = [s \in SUBSET (1..N) |-> IF s = {} THEN w ELSE FailAt(f[s \ {Min(s)}], Min(s), m)]
      BY <2>1 DEF IsFold
    <3> QED
      BY <3>1
  <2> DEFINE D == {n \in 1..N+1 : f[n..N] # w}
             S == {N + 1 - n : n \in D}
  <2>3. SUFFICES ASSUME f[1..N] # w PROVE FALSE
    BY <2>1
  <2>4. S \in SUBSET Nat /\ S # {}
    <3>1. 1 \in D /\ \A n \in D : N + 1 - n \in Nat
      BY <2>3
    <3> QED
      BY <3>1
  <2>5. PICK d \in S : \A j \in S : d <= j
    BY <2>4, Least
  <2>6. PICK n \in D : d = N + 1 - n
    OBVIOUS
  <2>7. n \in 1..N+1 /\ f[n..N] # w
    OBVIOUS
  <2>8. n \in 1..N
    <3>1. n = N + 1 => n..N = {} /\ {} \in SUBSET (1..N)
      OBVIOUS
    <3>2. n # N + 1
      BY <2>2, <2>7, <3>1
    <3> QED
      BY <2>7, <3>2
  <2>9. f[(n + 1)..N] = w
    <3>1. n + 1 \in 1..N+1 /\ ~(d <= N + 1 - (n + 1))
      BY <2>6, <2>8
    <3>2. n + 1 \notin D
      BY <2>5, <3>1
    <3> QED
      BY <3>1, <3>2
  <2>10. n..N \in SUBSET (1..N) /\ n..N # {} /\ n..N \subseteq Nat /\ n \in n..N
    BY <2>8
  <2>11. Min(n..N) = n
    <3>1. Min(n..N) \in n..N /\ \A j \in n..N : Min(n..N) <= j
      BY <2>10, MinOf
    <3> QED
      BY <2>8, <2>10, <3>1
  <2>12. (n..N) \ {n} = (n + 1)..N
    BY <2>8
  <2>13. f[n..N] = FailAt(w, n, m)
    BY <2>2, <2>9, <2>10, <2>11, <2>12
  <2> QED
    BY <2>7, <2>8, <2>13 DEF FailAt
<1> QED
  BY <1>1, <1>2

(* Links of which one has been closed.                                      *)
OneClosed(l, l2, i) ==
  /\ DOMAIN l2 = DOMAIN l
  /\ \A j \in DOMAIN l : /\ l2[j].who = l[j].who /\ l2[j].alive = l[j].alive
                         /\ l2[j].module = l[j].module
                         /\ l2[j].client = l[j].client /\ l2[j].up = l[j].up
                         /\ j # i => l2[j].state = l[j].state

LEMMA ClosedTyped ==
  ASSUME NEW u, NEW l \in Seq(Link(u)), NEW i \in DOMAIN l
  PROVE  /\ Closed(l, i) \in Seq(Link(u)) /\ OneClosed(l, Closed(l, i), i)
         /\ Closed(l, i)[i].state = "closed"
         /\ \A j \in DOMAIN l : j # i => Closed(l, i)[j] = l[j]
<1>1. l[i] \in Link(u)
  BY Linked
<1>2. [l[i] EXCEPT !.state = "closed"] \in Link(u)
  BY <1>1 DEF Link, State
<1> DEFINE l2 == Closed(l, i)
<1>3. /\ l2 \in Seq(Link(u)) /\ DOMAIN l2 = DOMAIN l /\ \A j \in DOMAIN l : j # i => l2[j] = l[j]
      /\ l2[i] = [l[i] EXCEPT !.state = "closed"]
  BY <1>2, Update, Zenon DEF Closed
<1> HIDE DEF l2
<1>4. OneClosed(l, l2, i) /\ l2[i].state = "closed"
  BY <1>1, <1>3 DEF OneClosed, Link
<1> QED
  BY <1>3, <1>4 DEF l2

(* A connection is where conidx says.                                       *)
LEMMA ConIdx ==
  ASSUME NEW l, NEW con, Listed(l, con), NEW i \in DOMAIN l, l[i].state = "open"
  PROVE  conidx(con, i) \in DOMAIN con /\ con[conidx(con, i)] = i
BY DEF Listed, conidx

LEMMA Destructs ==
  ASSUME NEW w, NEW pr, NEW u, NEW X, WGood(w, pr, u, X), NEW i \in DOMAIN w.link,
         w.link[i].module = None /\ w.link[i].alive => w.link[i].up = <<>>
  PROVE  WGood(destruct(w, i), pr, u, X) /\ OneClosed(w.link, destruct(w, i).link, i)
<1> DEFINE l == w.link
           c == l[i].client
           n == conidx(w.con, i)
           con2 == RemoveAt(w.con, n)
           ltold == IF c # 0 THEN write(l, c, noservice) ELSE l
           told == [w EXCEPT !.con = con2, !.link = ltold]
           v == FailQueued(told, l[i].module)
<1>1. /\ l \in Seq(Link(u)) /\ w.con \in Seq(Nat) /\ w.queue \in Seq(Entry(u)) /\ i \in DOMAIN l
      /\ w \in Wrap(u) /\ Good(l, w.con, w.queue, pr, u, X)
  BY DEF Wrap, WGood
<1>2. CASE l[i].state # "open"
  BY <1>1, <1>2 DEF destruct, OneClosed
<1>3. CASE l[i].state = "open"
  <2>1. n \in DOMAIN w.con /\ w.con[n] = i
    BY <1>1, <1>3, ConIdx DEF Good
  <2>2. /\ Good(Closed(l, i), con2, w.queue, pr, u, IF c = 0 THEN X ELSE X \cup {c})
        /\ c # 0 => c \notin X
    BY <1>1, <2>1, Shut DEF Closed
  <2>3. con2 \in Seq(Nat)
    BY <1>1, <2>1, Removed
  <2>4. c # 0 => c \in DOMAIN l /\ c # i /\ l[c].down = <<>>
    <3> SUFFICES ASSUME c # 0 PROVE c \in DOMAIN l /\ c # i /\ l[c].down = <<>>
      OBVIOUS
    <3>1. c \in Nat \ {0} /\ Held(l, w.queue, X, c)
      BY <1>1, <1>3, Linked DEF Held, Served
    <3>2. c \in DOMAIN l /\ l[c].module = None /\ l[c].down = <<>>
      BY <1>1, <3>1 DEF Good, Holding
    <3>3. l[i].module # None
      BY <1>1 DEF Good, Plain
    <3> QED
      BY <3>2, <3>3
  <2>5. Good(Closed(ltold, i), con2, w.queue, pr, u, X)
    <3>1. CASE c = 0
      BY <2>2, <3>1
    <3>2. CASE c # 0
      <4> HIDE DEF c, con2
      <4> DEFINE Y == X \cup {c}
      <4>1. c \in Y
        OBVIOUS
      <4>2. Good(Closed(l, i), con2, w.queue, pr, u, Y)
        BY <2>2, <3>2
      <4>3. Y \ {c} = X
        BY <2>2, <3>2
      <4> HIDE DEF Y
      <4>4. Good(write(Closed(l, i), c, noservice), con2, w.queue, pr, u, Y \ {c})
        BY <4>1, <4>2, Give, NoServiceIsMessage
      <4>5. Closed(write(l, c, noservice), i) = write(Closed(l, i), c, noservice)
        BY <1>1, <2>4, <3>2, WriteClosed
      <4> QED
        BY <3>2, <4>3, <4>4, <4>5
    <3> QED
      BY <3>1, <3>2
  <2>6. ltold \in Seq(Link(u)) /\ SameLinks(l, ltold)
    <3>1. CASE c = 0
      BY <1>1, <3>1 DEF SameLinks
    <3>2. CASE c # 0
      <4> HIDE DEF c, l
      <4>1. write(l, c, noservice) \in Seq(Link(u)) /\ SameLinks(l, write(l, c, noservice))
        BY <1>1, <2>4, <3>2, WriteTyped, NoServiceIsMessage
      <4> QED
        BY <3>2, <4>1
    <3> QED
      BY <3>1, <3>2
  <2> HIDE DEF con2, ltold
  <2>7. told.link = ltold /\ told.con = con2 /\ told.queue = w.queue /\ told \in Wrap(u)
    BY <1>1, <2>3, <2>6 DEF Wrap
  <2> HIDE DEF told
  <2>8. Shutting(told, i, pr, u, X) /\ told.link[i].module = l[i].module
    BY <1>1, <2>5, <2>6, <2>7 DEF Shutting, SameLinks
  <2>9. Shutting(v, i, pr, u, X) /\ SameLinks(told.link, v.link)
    BY <2>8, FailAll
  <2> HIDE DEF v
  <2>10. destruct(w, i) = [v EXCEPT !.link[i].state = "closed"]
    BY <1>3 DEF destruct, v, told, ltold, con2
  <2>11. v \in Wrap(u) /\ i \in DOMAIN v.link /\ Good(Closed(v.link, i), v.con, v.queue, pr, u, X)
    BY <2>9 DEF Shutting
  <2>12. v.link \in Seq(Link(u)) /\ v.con \in Seq(Nat) /\ v.queue \in Seq(Entry(u))
    BY <2>11 DEF Wrap
  <2>13. Closed(v.link, i) \in Seq(Link(u)) /\ OneClosed(v.link, Closed(v.link, i), i)
    BY <2>11, <2>12, ClosedTyped
  <2>14. destruct(w, i) = [link |-> Closed(v.link, i), con |-> v.con, queue |-> v.queue]
    BY <2>10, <2>11 DEF Wrap, Closed
  <2>15. WGood(destruct(w, i), pr, u, X)
    BY <2>11, <2>12, <2>13, <2>14 DEF WGood, Wrap
  <2>16. OneClosed(l, Closed(v.link, i), i)
    BY <2>6, <2>7, <2>9, <2>13 DEF SameLinks, OneClosed
  <2> QED
    BY <2>14, <2>15, <2>16
<1> QED
  BY <1>2, <1>3

(* No server that registers serves the module of a call under way.          *)
LEMMA NoneRegisters ==
  ASSUME NEW l, NEW q, NEW pr, NEW u, Registers(l, q, pr, u), NEW m, ~NoCalls(l, q, m)
  PROVE  \A t \in Server : pr[t].pc = "register" => u.module[t] # m
BY DEF Registers, Enrolls

(* A server that is free takes a call from the queue, if there is one.      *)
LEMMA NextTaken ==
  ASSUME NEW v, NEW pr, NEW u, v \in Wrap(u), NEW i \in DOMAIN v.link,
         Good([v.link EXCEPT ![i].client = 0], v.con, v.queue, pr, u, {}),
         v.link[i].state = "open", v.link[i].module # None
  PROVE  WGood(TakeNext(v, i), pr, u, {})
<1> DEFINE l == v.link
           q == v.queue
           l0 == [l EXCEPT ![i].client = 0]
           m == l[i].module
           at == Waiting(v, i)
<1>1. /\ l \in Seq(Link(u)) /\ v.con \in Seq(Nat) /\ q \in Seq(Entry(u))
      /\ DOMAIN q = 1..Len(q) /\ Len(q) \in Nat
  <2>1. l \in Seq(Link(u)) /\ v.con \in Seq(Nat) /\ q \in Seq(Entry(u))
    BY DEF Wrap
  <2> QED
    BY <2>1
<1>2. l[i] \in Link(u)
  BY <1>1, Linked
<1>3. [l[i] EXCEPT !.client = 0] \in Link(u)
  BY <1>2 DEF Link
<1>4. /\ l0 \in Seq(Link(u)) /\ DOMAIN l0 = DOMAIN l /\ l0[i] = [l[i] EXCEPT !.client = 0]
      /\ \A j \in DOMAIN l : j # i => l0[j] = l[j]
  <2>1. l0 = [l EXCEPT ![i] = [l[i] EXCEPT !.client = 0]]
    OBVIOUS
  <2> HIDE DEF l0
  <2> QED
    BY <1>1, <1>3, <2>1, Update
<1>5. l0[i].client = 0 /\ l0[i].state = "open" /\ l0[i].module = m
  BY <1>2, <1>4, SMTT(20) DEF Link
<1>6. at = 0 \/ (at \in DOMAIN q /\ q[at].msg.mod = m)
  <2> DEFINE I == {n \in 1..Len(q) : q[n].msg.mod = m}
  <2>1. at = IF I # {} THEN Min(I) ELSE 0
    BY DEF Waiting, SelectInSeq
  <2>2. I \in SUBSET Nat
    OBVIOUS
  <2>3. I # {} => Min(I) \in I
    BY <2>2, MinOf
  <2> HIDE DEF at
  <2> QED
    BY <1>1, <2>1, <2>3
<1>7. CASE at = 0
  <2>1. TakeNext(v, i) = [v EXCEPT !.link[i].client = 0]
    BY <1>7 DEF TakeNext
  <2>2. TakeNext(v, i) = [link |-> l0, con |-> v.con, queue |-> q]
    BY <2>1 DEF Wrap
  <2> QED
    BY <1>1, <1>4, <2>2 DEF WGood, Wrap
<1>8. CASE at # 0
  <2> DEFINE c == q[at].client
             msg == q[at].msg
             q2 == RemoveAt(q, at)
             l2 == write([l EXCEPT ![i].client = c], i, msg)
  <2>1. at \in DOMAIN q /\ msg.mod = m
    BY <1>6, <1>8
  <2>2. q[at] \in Entry(u)
    BY <1>1, <2>1
  <2>3. msg \in Message(u)
    BY <2>2 DEF Entry
  <2>4. Good(l0, v.con, q, pr, u, {})
    OBVIOUS
  <2>5. Good(l0, v.con, q2, pr, u, {} \cup {c})
    BY <2>1, <2>4, Dequeue
  <2>6. c \in DOMAIN l0
    BY <1>1, <1>4, <2>1, <2>4, Clients, ZenonT(30) DEF Good
  <2>7. msg.kind = "call" /\ Matches(l0, pr, c, msg)
    BY <2>1, <2>4 DEF Good, Waits
  <2>8. \A t \in Server : pr[t].pc = "register" => u.module[t] # msg.mod
    <3>1. ~NoCalls(l0, q, msg.mod)
      BY <2>1 DEF NoCalls
    <3>2. Registers(l0, q, pr, u)
      BY <2>4 DEF Good
    <3> HIDE DEF msg, l0, q
    <3> QED
      BY <3>1, <3>2, NoneRegisters
  <2>9. [l0 EXCEPT ![i].client = c] = [l EXCEPT ![i].client = c]
    BY <1>1, <1>2
  <2>10. TakeNext(v, i) = [v EXCEPT !.link = l2, !.queue = q2]
    BY <1>8 DEF TakeNext
  <2>11. TakeNext(v, i) = [link |-> l2, con |-> v.con, queue |-> q2]
    BY <2>10 DEF Wrap
  <2> HIDE DEF c, msg, q2, l0
  <2> DEFINE Y == {} \cup {c}
  <2>12. c \in Y /\ Y \ {c} = {}
    OBVIOUS
  <2> HIDE DEF Y
  <2>13. Good(l0, v.con, q2, pr, u, Y)
    BY <2>5 DEF Y
  <2>14. Good(write([l0 EXCEPT ![i].client = c], i, msg), v.con, q2, pr, u, Y \ {c})
    BY <1>4, <1>5, <2>1, <2>3, <2>7, <2>8, <2>12, <2>13, Assign
  <2>15. Good(l2, v.con, q2, pr, u, {})
    BY <2>9, <2>12, <2>14
  <2>16. l2 \in Seq(Link(u)) /\ q2 \in Seq(Entry(u))
    BY <2>15 DEF Good, Typed
  <2> QED
    BY <1>1, <2>11, <2>15, <2>16 DEF WGood, Wrap
<1> QED
  BY <1>7, <1>8

(* A call is forwarded to a server, queued, or refused.                     *)
LEMMA CallForwarded ==
  ASSUME NEW w, NEW pr, NEW u, WGood(w, pr, u, {}), NEW i \in DOMAIN w.link,
         w.link[i].state = "open", w.link[i].up # <<>>, w.link[i].up[1].kind = "call"
  PROVE  WGood(forwardCall([w EXCEPT !.link[i].up = <<>>], i, w.link[i].up[1]), pr, u, {})
<1> DEFINE l == w.link
           q == w.queue
           msg == l[i].up[1]
           l1 == [l EXCEPT ![i].up = <<>>]
           w1 == [w EXCEPT !.link[i].up = <<>>]
           s == findsrv(w1, msg.mod)
           v == forwardCall(w1, i, msg)
           Y == {} \cup {i}
<1>1. /\ l \in Seq(Link(u)) /\ w.con \in Seq(Nat) /\ q \in Seq(Entry(u))
      /\ Good(l, w.con, q, pr, u, {})
  BY DEF WGood, Wrap
<1>2. w1 = [link |-> l1, con |-> w.con, queue |-> q]
  <2>1. w \in Wrap(u)
    BY DEF WGood
  <2>2. w = [link |-> l, con |-> w.con, queue |-> q]
    BY <2>1 DEF Wrap
  <2>3. w1 = [w EXCEPT !.link = l1]
    BY <2>2
  <2> HIDE DEF l, l1, q, w1
  <2> QED
    BY <2>2, <2>3
<1>3. Good(l1, w.con, q, pr, u, Y)
  BY <1>1, TakeUp
<1>4. msg \in Message(u) /\ Matches(l, pr, i, msg) /\ msg.mod # None /\ msg.kind = "call"
  <2>1. l[i].up \in Box(u)
    BY <1>1, Linked
  <2>2. msg \in Message(u)
    BY <2>1, Boxes
  <2> QED
    BY <1>1, <2>2 DEF Good, Ups
<1>5. \A t \in Server : pr[t].pc = "register" => u.module[t] # msg.mod
  <2>1. ~NoCalls(l, q, msg.mod)
    BY DEF NoCalls
  <2>2. Registers(l, q, pr, u)
    BY <1>1 DEF Good
  <2> HIDE DEF msg, l, q
  <2> QED
    BY <2>1, <2>2, NoneRegisters
<1>6. Matches(l1, pr, i, msg)
  <2>1. l1[i].who = l[i].who
    OBVIOUS
  <2> QED
    BY <1>4, <2>1 DEF Matches
<1>7. w1.link = l1 /\ w1.con = w.con /\ w1.queue = q /\ w1 \in Wrap(u)
  <2>1. l1 \in Seq(Link(u))
    BY <1>3 DEF Good, Typed
  <2> QED
    BY <1>1, <1>2, <2>1 DEF Wrap
<1>8. i \in Y /\ Y \ {i} = {}
  OBVIOUS
<1> HIDE DEF w1, l1, msg, Y, q, l, v
<1> SUFFICES WGood(v, pr, u, {})
  BY DEF v, w1, msg, l
<1>9. s # 0 => s \in DOMAIN l1 /\ l1[s].state = "open" /\ l1[s].module = msg.mod
  <2>1. Listed(w1.link, w1.con)
    BY <1>3, <1>7 DEF Good
  <2> QED
    BY <1>7, <2>1, Found
<1>10. CASE s = 0
  <2>1. v = [w1 EXCEPT !.link = write(l1, i, noservice)]
    BY <1>7, <1>10 DEF forwardCall, v
  <2>4. v = [link |-> write(l1, i, noservice), con |-> w.con, queue |-> q]
    BY <1>2, <2>1
  <2>2. Good(write(l1, i, noservice), w.con, q, pr, u, Y \ {i})
    BY <1>3, <1>8, Give, NoServiceIsMessage
  <2>3. write(l1, i, noservice) \in Seq(Link(u))
    BY <2>2 DEF Good, Typed
  <2> QED
    BY <1>1, <1>8, <2>2, <2>3, <2>4 DEF WGood, Wrap
<1>11. CASE s # 0 /\ l1[s].client = 0
  <2>1. v = [w1 EXCEPT !.link = write([l1 EXCEPT ![s].client = i], s, msg)]
    BY <1>7, <1>11 DEF forwardCall, v
  <2>4. v = [link |-> write([l1 EXCEPT ![s].client = i], s, msg), con |-> w.con, queue |-> q]
    BY <1>2, <2>1
  <2> HIDE DEF s
  <2>2. Good(write([l1 EXCEPT ![s].client = i], s, msg), w.con, q, pr, u, Y \ {i})
    BY <1>3, <1>4, <1>5, <1>6, <1>8, <1>9, <1>11, Assign
  <2>3. write([l1 EXCEPT ![s].client = i], s, msg) \in Seq(Link(u))
    BY <2>2 DEF Good, Typed
  <2> QED
    BY <1>1, <1>8, <2>2, <2>3, <2>4 DEF WGood, Wrap
<1>12. CASE s # 0 /\ l1[s].client # 0
  <2> DEFINE q2 == Append(q, [client |-> i, msg |-> msg])
  <2>1. v = [w1 EXCEPT !.queue = q2]
    BY <1>7, <1>12 DEF forwardCall, v
  <2>4. v = [link |-> l1, con |-> w.con, queue |-> q2]
    BY <1>2, <2>1
  <2>2. Good(l1, w.con, q2, pr, u, Y \ {i})
    BY <1>3, <1>4, <1>5, <1>6, <1>8, Enqueue
  <2> HIDE DEF q2
  <2>3. q2 \in Seq(Entry(u)) /\ l1 \in Seq(Link(u))
    BY <2>2 DEF Good, Typed
  <2> QED
    BY <1>1, <1>8, <2>2, <2>3, <2>4 DEF WGood, Wrap
<1> QED
  BY <1>10, <1>11, <1>12

(* A server may be shut down before the answer is written.                  *)
LEMMA DownAnswered ==
  ASSUME NEW w, NEW pr, NEW u, WGood(w, pr, u, {}), NEW i \in DOMAIN w.link,
         w.link[i].state = "open", w.link[i].up # <<>>, w.link[i].up[1].kind = "down",
         NEW v, v \in {[w EXCEPT !.link[i].up = <<>>],
                       down([w EXCEPT !.link[i].up = <<>>], w.link[i].up[1].mod)}
  PROVE  WGood([v EXCEPT !.link = write(@, i, Answer(w.link[i].up[1]))], pr, u, {})
<1> DEFINE l == w.link
           q == w.queue
           msg == l[i].up[1]
           l1 == [l EXCEPT ![i].up = <<>>]
           w1 == [w EXCEPT !.link[i].up = <<>>]
           Y == {} \cup {i}
           a == Answer(msg)
<1>1. /\ l \in Seq(Link(u)) /\ w.con \in Seq(Nat) /\ q \in Seq(Entry(u))
      /\ Good(l, w.con, q, pr, u, {})
  BY DEF WGood, Wrap
<1>2. w1 = [link |-> l1, con |-> w.con, queue |-> q]
  <2>1. w \in Wrap(u)
    BY DEF WGood
  <2>2. w = [link |-> l, con |-> w.con, queue |-> q]
    BY <2>1 DEF Wrap
  <2>3. w1 = [w EXCEPT !.link = l1]
    BY <2>2
  <2> HIDE DEF l, l1, q, w1
  <2> QED
    BY <2>2, <2>3
<1>3. Good(l1, w.con, q, pr, u, Y)
  BY <1>1, TakeUp
<1>4. msg \in Message(u) /\ Matches(l, pr, i, msg) /\ msg.mod # None
  <2>1. l[i].up \in Box(u)
    BY <1>1, Linked
  <2>2. msg \in Message(u)
    BY <2>1, Boxes
  <2> QED
    BY <1>1, <2>2 DEF Good, Ups
<1>5. l1[i].who = l[i].who /\ DOMAIN l1 = DOMAIN l
  OBVIOUS
<1>6. w1.link = l1 /\ w1.con = w.con /\ w1.queue = q /\ w1 \in Wrap(u) /\ WGood(w1, pr, u, Y)
  <2>1. l1 \in Seq(Link(u))
    BY <1>3 DEF Good, Typed
  <2> QED
    BY <1>1, <1>2, <1>3, <2>1 DEF Wrap, WGood
<1>7. i \in Y /\ Y \ {i} = {}
  OBVIOUS
<1>8. v \in {w1, down(w1, msg.mod)}
  OBVIOUS
<1>9. a \in Message(u) /\ a.kind = "answer" /\ a.who = msg.who /\ a.k = msg.k
  BY <1>4 DEF Answer, Message, Kind
<1> HIDE DEF w1, l1, msg, Y, q, l
<1>10. WGood(v, pr, u, Y) /\ i \in DOMAIN v.link /\ v.link[i].who = l1[i].who
  <2>1. CASE v = w1
    BY <1>5, <1>6, <2>1 DEF l
  <2>2. CASE v = down(w1, msg.mod) /\ Serving(w1, msg.mod) = {}
    BY <1>5, <1>6, <2>2 DEF down, l
  <2>3. CASE v = down(w1, msg.mod) /\ Serving(w1, msg.mod) # {}
    <3> DEFINE P == Serving(w1, msg.mod)
               n == Min(P)
               j == w1.con[n]
    <3>1. v = destruct(w1, j)
      BY <2>3 DEF down
    <3>2. P \in SUBSET Nat
      <4>1. w1.con \in Seq(Nat)
        BY <1>1, <1>6
      <4> QED
        BY <4>1 DEF Serving
    <3>3. n \in P
      BY <2>3, <3>2, MinOf
    <3>4. j \in DOMAIN w1.link /\ w1.link[j].module = msg.mod
      BY <1>3, <1>6, <3>3, Zenon DEF Serving, Good, Listed
    <3> HIDE DEF j
    <3>5. WGood(v, pr, u, Y) /\ OneClosed(w1.link, v.link, j)
      BY <1>4, <1>6, <3>1, <3>4, Destructs
    <3> QED
      BY <1>5, <1>6, <3>5 DEF OneClosed, l
  <2> QED
    BY <1>8, <2>1, <2>2, <2>3
<1>11. Good(v.link, v.con, v.queue, pr, u, Y) /\ v \in Wrap(u)
  BY <1>10 DEF WGood
<1>12. Matches(v.link, pr, i, a)
  BY <1>4, <1>5, <1>9, <1>10 DEF Matches
<1> HIDE DEF a
<1>13. Good(write(v.link, i, a), v.con, v.queue, pr, u, Y \ {i})
  BY <1>7, <1>9, <1>11, <1>12, Give
<1>14. write(v.link, i, a) \in Seq(Link(u))
  BY <1>13 DEF Good, Typed
<1>15. [v EXCEPT !.link = write(@, i, a)] = [link |-> write(v.link, i, a), con |-> v.con, queue |-> v.queue]
  BY <1>11 DEF Wrap
<1>16. WGood([v EXCEPT !.link = write(@, i, a)], pr, u, {})
  BY <1>7, <1>11, <1>13, <1>14, <1>15 DEF WGood, Wrap
<1> QED
  BY <1>16 DEF a, msg, l

Freed(l, i) == [l EXCEPT ![i].client = 0]

LEMMA FreedCommutes ==
  ASSUME NEW l, NEW i \in DOMAIN l, NEW c \in DOMAIN l, c # i, NEW a
  PROVE  /\ Freed(write(l, c, a), i) = write(Freed(l, i), c, a)
         /\ Freed(Closed(l, c), i) = Closed(Freed(l, i), c)
<1>1. Freed(l, i)[c] = l[c]
  BY DEF Freed
<1>2. Freed(write(l, c, a), i) = write(Freed(l, i), c, a)
  <2>1. CASE l[c].state = "open" /\ l[c].alive
    <3> DEFINE l2 == [l EXCEPT ![c].down = Append(@, a)]
    <3>1. write(l, c, a) = l2 /\ l2[i] = l[i]
      BY <2>1 DEF write
    <3>2. write(Freed(l, i), c, a) = [Freed(l, i) EXCEPT ![c].down = Append(@, a)]
      BY <1>1, <2>1 DEF write
    <3>3. Freed(l2, i) = [l2 EXCEPT ![i] = [l[i] EXCEPT !.client = 0]]
      BY <3>1 DEF Freed
    <3> QED
      BY <3>1, <3>2, <3>3 DEF Freed
  <2>2. CASE ~(l[c].state = "open" /\ l[c].alive)
    BY <1>1, <2>2 DEF write
  <2> QED
    BY <2>1, <2>2
<1>3. Freed(Closed(l, c), i) = Closed(Freed(l, i), c)
  BY DEF Freed, Closed
<1> QED
  BY <1>2, <1>3

(* An answer is forwarded, and the server takes the next call.              *)
LEMMA AnswerForwarded ==
  ASSUME NEW w, NEW pr, NEW u, WGood(w, pr, u, {}), NEW i \in DOMAIN w.link,
         w.link[i].state = "open", w.link[i].up # <<>>, w.link[i].client # 0
  PROVE  WGood(TakeNext(forwardAnswer([w EXCEPT !.link[i].up = <<>>], i, w.link[i].up[1]), i), pr, u, {})
<1> DEFINE l == w.link
           q == w.queue
           c == l[i].client
           msg == l[i].up[1]
           l1 == [l EXCEPT ![i].up = <<>>]
           w1 == [w EXCEPT !.link[i].up = <<>>]
           lz == [l EXCEPT ![i] = [l[i] EXCEPT !.up = <<>>, !.client = 0]]
           lw == write(lz, c, msg)
           told == [w1 EXCEPT !.link = write(l1, c, msg)]
           v == forwardAnswer(w1, i, msg)
           Y == {} \cup {c}
<1>1. /\ l \in Seq(Link(u)) /\ w.con \in Seq(Nat) /\ q \in Seq(Entry(u)) /\ i \in DOMAIN l
      /\ Good(l, w.con, q, pr, u, {}) /\ w \in Wrap(u)
  BY DEF WGood, Wrap
<1>2. w1 = [link |-> l1, con |-> w.con, queue |-> q]
  <2>1. w = [link |-> l, con |-> w.con, queue |-> q]
    BY <1>1 DEF Wrap
  <2>2. w1 = [w EXCEPT !.link = l1]
    BY <2>1
  <2> HIDE DEF l, l1, q, w1
  <2> QED
    BY <2>1, <2>2
<1>3. /\ Good(lz, w.con, q, pr, u, Y)
      /\ msg.kind = "answer" /\ Matches(l, pr, c, msg)
  BY <1>1, TakeAnswer, ZenonT(30)
<1>4. /\ l[i] \in Link(u) /\ msg \in Message(u)
  <2>1. l[i] \in Link(u) /\ l[i].up \in Box(u)
    BY <1>1, Linked
  <2> QED
    BY <2>1, Boxes
<1>5. /\ l1 \in Seq(Link(u)) /\ DOMAIN l1 = DOMAIN l /\ l1[i] = [l[i] EXCEPT !.up = <<>>]
      /\ \A j \in DOMAIN l : j # i => l1[j] = l[j]
  <2>1. [l[i] EXCEPT !.up = <<>>] \in Link(u)
    BY <1>4 DEF Link, Box
  <2>2. l1 = [l EXCEPT ![i] = [l[i] EXCEPT !.up = <<>>]]
    OBVIOUS
  <2> HIDE DEF l1
  <2> QED
    BY <1>1, <2>1, <2>2, Update
<1>6. lz = Freed(l1, i)
  BY <1>1 DEF Freed
<1>7. /\ c \in DOMAIN l /\ c # i /\ l[c].module = None /\ l[c].client = 0
      /\ l[c].up = <<>> /\ l[c].down = <<>> /\ l[i].module # None
  <2>1. c \in Nat \ {0} /\ Held(l, q, {}, c)
    BY <1>1, Linked DEF Held, Served
  <2>2. c \in DOMAIN l /\ l[c].module = None /\ l[c].up = <<>> /\ l[c].down = <<>>
    BY <1>1, <2>1 DEF Good, Holding
  <2> QED
    BY <1>1, <2>1, <2>2 DEF Good, Plain
<1>8. c \in Y /\ Y \ {c} = {}
  OBVIOUS
<1>9. lz \in Seq(Link(u)) /\ DOMAIN lz = DOMAIN l /\ lz[c] = l[c]
  <2>1. lz \in Seq(Link(u))
    BY <1>3 DEF Good, Typed
  <2> QED
    BY <1>1, <1>7, <2>1
<1>10. l1[i].module = l[i].module /\ l1[i].state = "open"
  BY <1>4, <1>5 DEF Link
<1>11. v = IF l[c].who \in Old THEN destruct(told, c) ELSE told
  <2>1. w1.link = l1 /\ l1[c] = l[c] /\ l1[i].client = c
    BY <1>2, <1>4, <1>5, <1>7 DEF Link
  <2> HIDE DEF w1, l1, l, c, msg
  <2> QED
    BY <2>1 DEF forwardAnswer
<1> HIDE DEF w1, l1, lz, l, q, c, msg, Y, v
<1> SUFFICES WGood(TakeNext(v, i), pr, u, {})
  BY DEF v, w1, msg, l
<1>12. Good(lw, w.con, q, pr, u, {})
  <2>1. Matches(lz, pr, c, msg)
    BY <1>3, <1>9 DEF Matches
  <2>2. Good(lw, w.con, q, pr, u, Y \ {c})
    BY <1>3, <1>4, <1>8, <2>1, Give
  <2> QED
    BY <1>8, <2>2
<1>13. lw \in Seq(Link(u)) /\ SameLinks(lz, lw)
  BY <1>4, <1>7, <1>9, WriteTyped
<1>14. /\ write(l1, c, msg) \in Seq(Link(u)) /\ SameLinks(l1, write(l1, c, msg))
       /\ write(l1, c, msg)[i] = l1[i]
  <2>1. c \in DOMAIN l1 /\ i \in DOMAIN l1 /\ l1[c].down = <<>>
    BY <1>1, <1>5, <1>7
  <2>2. l1 \in Seq(Link(u)) /\ msg \in Message(u) /\ c # i
    BY <1>4, <1>5, <1>7
  <2> QED
    BY <2>1, <2>2, WriteTyped
<1>15. Freed(write(l1, c, msg), i) = lw
  BY <1>1, <1>5, <1>6, <1>7, FreedCommutes
<1>16. told = [link |-> write(l1, c, msg), con |-> w.con, queue |-> q]
  BY <1>2
<1> DEFINE lt == write(l1, c, msg)
<1> HIDE DEF told, lw, lt
<1>17. CASE v = told
  <2>1. told \in Wrap(u) /\ told.link = lt /\ told.con = w.con /\ told.queue = q
    BY <1>1, <1>14, <1>16 DEF Wrap, lt
  <2>2. /\ i \in DOMAIN told.link /\ told.link[i].state = "open" /\ told.link[i].module # None
        /\ Good(Freed(told.link, i), told.con, told.queue, pr, u, {})
    BY <1>1, <1>5, <1>7, <1>10, <1>12, <1>14, <1>15, <2>1, ZenonT(30) DEF SameLinks, lt
  <2> QED
    BY <1>17, <2>1, <2>2, NextTaken DEF Freed
<1>18. CASE v # told
  <2>1. v = destruct(told, c)
    BY <1>11, <1>18
  <2>2. told.link = lt /\ told.con = w.con /\ told.queue = q
    BY <1>16 DEF lt
  <2>3. lt[c].client = 0 /\ lt[c].module = None /\ DOMAIN lt = DOMAIN l
    BY <1>5, <1>7, <1>14 DEF SameLinks, lt
  <2>4. lt[c].state = "open"
    BY <1>18, <2>1, <2>2 DEF destruct
  <2> DEFINE n == conidx(w.con, c)
             con2 == RemoveAt(w.con, n)
             t2 == [link |-> lt, con |-> con2, queue |-> q]
  <2>5. [told EXCEPT !.con = con2, !.link = lt] = t2
    <3>1. told = [link |-> lt, con |-> w.con, queue |-> q]
      BY <1>16 DEF lt
    <3> DEFINE r == [told EXCEPT !.con = con2]
    <3> HIDE DEF con2
    <3>2. r = [link |-> lt, con |-> con2, queue |-> q]
      BY <3>1
    <3> HIDE DEF r
    <3>3. [r EXCEPT !.link = lt] = t2
      BY <3>2
    <3> QED
      BY <3>3 DEF r
  <2>6. FailQueued(t2, None) = t2
    <3>1. \A k \in DOMAIN q : q[k].msg.mod # None
      BY <1>12 DEF Good, Waits
    <3>2. PICK N \in Nat : DOMAIN q = 1..N
      BY <1>1
    <3>3. t2.queue = q
      OBVIOUS
    <3> HIDE DEF t2
    <3> QED
      BY <3>1, <3>2, <3>3, FailNone
  <2>7. v = [t2 EXCEPT !.link[c].state = "closed"]
    <3> HIDE DEF t2, con2
    <3> QED
      BY <2>1, <2>2, <2>3, <2>4, <2>5, <2>6 DEF destruct, con2
  <2>8. v = [link |-> Closed(lt, c), con |-> con2, queue |-> q]
    BY <2>7 DEF Closed
  <2>9. lw[c].state = "open" /\ lw[c].client = 0 /\ lw[c].module = None /\ lw[c].up = <<>>
        /\ c \in DOMAIN lw
    BY <1>5, <1>7, <1>9, <1>13, <1>14, <2>4 DEF SameLinks, lt
  <2>10. n \in DOMAIN w.con /\ w.con[n] = c
    BY <1>12, <2>9, ConIdx DEF Good
  <2>11. Good(Closed(lw, c), con2, q, pr, u, {})
    BY <1>12, <2>9, <2>10, Shut DEF Closed
  <2>12. Freed(Closed(lt, c), i) = Closed(lw, c)
    <3>1. i \in DOMAIN lt /\ c \in DOMAIN lt /\ c # i
      BY <1>1, <1>7, <2>3 DEF l
    <3>2. Freed(lt, i) = lw
      BY <1>15 DEF lt
    <3>3. Freed(Closed(lt, c), i) = Closed(Freed(lt, i), c)
      BY <3>1, FreedCommutes
    <3> QED
      BY <3>2, <3>3
  <2>13. /\ Closed(lt, c) \in Seq(Link(u)) /\ OneClosed(lt, Closed(lt, c), c)
    BY <1>7, <1>14, <2>3, ClosedTyped DEF lt
  <2>14. con2 \in Seq(Nat)
    BY <2>11 DEF Good, Typed
  <2>15. v \in Wrap(u) /\ v.link = Closed(lt, c) /\ v.con = con2 /\ v.queue = q
    BY <1>1, <2>8, <2>13, <2>14 DEF Wrap
  <2>16. lt[i].state = "open" /\ lt[i].module # None
    BY <1>7, <1>10, <1>14 DEF lt
  <2>17. i \in DOMAIN v.link /\ v.link[i].state = "open" /\ v.link[i].module # None
    BY <1>1, <1>7, <2>3, <2>13, <2>15, <2>16 DEF OneClosed
  <2>18. Good(Freed(v.link, i), v.con, v.queue, pr, u, {})
    BY <2>11, <2>12, <2>15
  <2> HIDE DEF con2, n
  <2> QED
    BY <2>15, <2>17, <2>18, NextTaken DEF Freed
<1> QED
  BY <1>17, <1>18

(* A registration is answered.                                              *)
LEMMA RegistrationDone ==
  ASSUME NEW w, NEW pr, NEW u, WGood(w, pr, u, {}), NEW i \in DOMAIN w.link,
         w.link[i].state = "open", w.link[i].up # <<>>, w.link[i].up[1].kind = "register"
  PROVE  LET w1 == [w EXCEPT !.link[i].up = <<>>] IN
         WGood([w1 EXCEPT !.link = write([@ EXCEPT ![i].module = w.link[i].up[1].mod], i, Ok)], pr, u, {})
<1> DEFINE w1 == [w EXCEPT !.link[i].up = <<>>]
           l == w.link
           m == l[i].up[1].mod
           l1 == [l EXCEPT ![i].up = <<>>]
           l2 == [l1 EXCEPT ![i].module = m]
           l3 == [l EXCEPT ![i] = [l[i] EXCEPT !.up = <<>>, !.module = m,
                                               !.down = IF l[i].alive THEN <<Ok>> ELSE <<>>]]
<1>1. /\ l \in Seq(Link(u)) /\ w.con \in Seq(Nat) /\ w.queue \in Seq(Entry(u)) /\ i \in DOMAIN l
      /\ Good(l, w.con, w.queue, pr, u, {}) /\ w \in Wrap(u)
  BY DEF WGood, Wrap
<1>2. w1 = [link |-> l1, con |-> w.con, queue |-> w.queue]
  <2>1. w = [link |-> l, con |-> w.con, queue |-> w.queue]
    BY <1>1 DEF Wrap
  <2>2. w1 = [w EXCEPT !.link = l1]
    BY <2>1
  <2> HIDE DEF l, l1
  <2> QED
    BY <2>1, <2>2
<1>3. Good(l3, w.con, w.queue, pr, u, {})
  BY <1>1, Enrolled, ZenonT(30)
<1>4. l3 \in Seq(Link(u))
  BY <1>3, Zenon DEF Good, Typed
<1>5. l[i] \in Link(u) /\ l[i].down = <<>>
  BY <1>1, Linked DEF Good, Plain
<1>6. write(l2, i, Ok) = l3
  <2>1. /\ l2 = [l EXCEPT ![i] = [l[i] EXCEPT !.up = <<>>, !.module = m]]
        /\ l2[i] = [l[i] EXCEPT !.up = <<>>, !.module = m]
    BY <1>1
  <2>2. l2[i].state = "open" /\ l2[i].alive = l[i].alive /\ l2[i].down = <<>> /\ l[i].alive \in BOOLEAN
    BY <1>5, <2>1 DEF Link
  <2>3. CASE l[i].alive
    <3> HIDE DEF l2, m
    <3>1. write(l2, i, Ok) = [l2 EXCEPT ![i].down = <<Ok>>]
      BY <2>2, <2>3, OneMessage DEF write
    <3> QED
      BY <1>1, <2>1, <2>3, <3>1
  <2>4. CASE ~l[i].alive
    <3> HIDE DEF l2, m
    <3>1. write(l2, i, Ok) = l2
      BY <2>2, <2>4 DEF write
    <3>2. [l[i] EXCEPT !.up = <<>>, !.module = m] = [l[i] EXCEPT !.up = <<>>, !.module = m, !.down = <<>>]
      BY <1>5 DEF Link
    <3> QED
      BY <2>1, <2>4, <3>1, <3>2
  <2> QED
    BY <2>2, <2>3, <2>4
<1>7. w1.link = l1
  BY <1>2
<1> HIDE DEF l3, w1, l1, m
<1>8. [w1 EXCEPT !.link = write([@ EXCEPT ![i].module = m], i, Ok)] = [w1 EXCEPT !.link = l3]
  BY <1>6, <1>7
<1>9. [w1 EXCEPT !.link = l3] = [link |-> l3, con |-> w.con, queue |-> w.queue]
  BY <1>2
<1>10. WGood([link |-> l3, con |-> w.con, queue |-> w.queue], pr, u, {})
  BY <1>1, <1>3, <1>4 DEF WGood, Wrap
<1>11. WGood([w1 EXCEPT !.link = write([@ EXCEPT ![i].module = m], i, Ok)], pr, u, {})
  BY <1>8, <1>9, <1>10
<1> QED
  BY <1>11 DEF w1, m

-----------------------------------------------------------------------------
(* The wrapper's steps.                                                     *)

LEMMA ReadStep ==
  ASSUME IInv, NEW i \in DOMAIN link, Read(i)
  PROVE  IInv'
<1> DEFINE msg == link[i].up[1]
           w1 == [wrap EXCEPT !.link[i].up = <<>>]
<1>1. /\ use \in Uses /\ WGood(wrap, proc, use, {}) /\ i \in DOMAIN wrap.link
      /\ wrap.link[i].state = "open" /\ wrap.link[i].up # <<>>
      /\ link[i].up = wrap.link[i].up /\ link[i].client = wrap.link[i].client
  BY DEF IInv, link, Read
<1>2. Head(link[i].up) = msg /\ Tail(link[i].up) = <<>> /\ msg \in Message(use)
  <2>1. link \in Seq(Link(use))
    BY <1>1 DEF WGood, Wrap, link
  <2>2. link[i].up \in Box(use)
    BY <2>1, Linked
  <2> QED
    BY <1>1, <2>2, Boxes
<1>3. [wrap EXCEPT !.link[i].up = Tail(@)] = w1
  BY <1>2, Zenon DEF link
<1>4. Request(i, msg)
  BY <1>2 DEF Read
<1>5. SUFFICES use' = use /\ proc' = proc /\ WGood(wrap', proc, use, {})
  BY <1>1 DEF IInv
<1>m. msg = wrap.link[i].up[1]
  BY DEF link
<1>6. CASE link[i].client # 0
  <2>1. PICK v \in {forwardAnswer([wrap EXCEPT !.link[i].up = Tail(@)], i, msg)} : Step(TakeNext(v, i))
    BY <1>4, <1>6 DEF Request
  <2>2. v = forwardAnswer(w1, i, msg)
    BY <1>3, <2>1
  <2>3. WGood(TakeNext(forwardAnswer(w1, i, msg), i), proc, use, {})
    BY <1>1, <1>6, AnswerForwarded DEF link
  <2> QED
    BY <2>1, <2>2, <2>3 DEF Step
<1>7. CASE link[i].client = 0
  <2> HIDE DEF w1, msg
  <2>1. \/ msg.kind = "register" /\ Step([w1 EXCEPT !.link = write([@ EXCEPT ![i].module = msg.mod], i, Ok)])
        \/ msg.kind = "call" /\ Step(forwardCall(w1, i, msg))
        \/ msg.kind = "down" /\ Step([down(w1, msg.mod) EXCEPT !.link = write(@, i, Answer(msg))])
        \/ msg.kind = "down" /\ Step([w1 EXCEPT !.link = write(@, i, Answer(msg))])
    BY <1>3, <1>4, <1>7, Zenon DEF Request
  <2>2. CASE msg.kind = "register" /\ Step([w1 EXCEPT !.link = write([@ EXCEPT ![i].module = msg.mod], i, Ok)])
    <3>1. WGood([w1 EXCEPT !.link = write([@ EXCEPT ![i].module = msg.mod], i, Ok)], proc, use, {})
      BY <1>1, <1>m, <2>2, RegistrationDone, Zenon DEF w1
    <3> QED
      BY <2>2, <3>1 DEF Step
  <2>3. CASE msg.kind = "call" /\ Step(forwardCall(w1, i, msg))
    <3>1. WGood(forwardCall(w1, i, msg), proc, use, {})
      BY <1>1, <1>m, <2>3, CallForwarded, SMTT(20) DEF w1
    <3> QED
      BY <2>3, <3>1 DEF Step
  <2>4. CASE msg.kind = "down" /\ Step([down(w1, msg.mod) EXCEPT !.link = write(@, i, Answer(msg))])
    <3>1. \A v \in {w1, down(w1, msg.mod)} : WGood([v EXCEPT !.link = write(@, i, Answer(msg))], proc, use, {})
      BY <1>1, <1>m, <2>4, DownAnswered DEF w1
    <3>2. WGood([down(w1, msg.mod) EXCEPT !.link = write(@, i, Answer(msg))], proc, use, {})
      BY <3>1
    <3> QED
      BY <2>4, <3>2 DEF Step
  <2>5. CASE msg.kind = "down" /\ Step([w1 EXCEPT !.link = write(@, i, Answer(msg))])
    <3>1. \A v \in {w1, down(w1, msg.mod)} : WGood([v EXCEPT !.link = write(@, i, Answer(msg))], proc, use, {})
      BY <1>1, <1>m, <2>5, DownAnswered DEF w1
    <3>2. WGood([w1 EXCEPT !.link = write(@, i, Answer(msg))], proc, use, {})
      BY <3>1
    <3> QED
      BY <2>5, <3>2 DEF Step
  <2> QED
    BY <2>1, <2>2, <2>3, <2>4, <2>5
<1> QED
  BY <1>6, <1>7

LEMMA AcceptStep ==
  ASSUME IInv, NEW i \in DOMAIN link, Accept(i)
  PROVE  IInv'
<1> DEFINE l2 == [link EXCEPT ![i] = [link[i] EXCEPT !.state = "open"]]
           con2 == Append(wrap.con, i)
<1>1. /\ use \in Uses /\ wrap \in Wrap(use) /\ Good(link, wrap.con, wrap.queue, proc, use, {})
      /\ link[i].state = "pending" /\ link = wrap.link
  BY DEF IInv, WGood, Accept, link
<1>2. Good(l2, con2, wrap.queue, proc, use, {})
  BY <1>1, Accepted
<1>3. wrap' = [wrap EXCEPT !.link = l2, !.con = con2] /\ proc' = proc /\ use' = use
  BY DEF Accept, Step, link
<1>4. l2 \in Seq(Link(use)) /\ con2 \in Seq(Nat)
  BY <1>2 DEF Good, Typed
<1> HIDE DEF l2, con2
<1>5. wrap' = [link |-> l2, con |-> con2, queue |-> wrap.queue]
  BY <1>1, <1>3 DEF Wrap
<1>6. WGood(wrap', proc, use, {})
  BY <1>1, <1>2, <1>4, <1>5 DEF WGood, Wrap
<1> QED
  BY <1>1, <1>3, <1>6 DEF IInv

LEMMA EndStep ==
  ASSUME IInv, NEW i \in DOMAIN link, ReadFails(i) \/ Idle(i)
  PROVE  IInv'
<1>1. /\ use \in Uses /\ WGood(wrap, proc, use, {}) /\ i \in DOMAIN wrap.link
      /\ wrap.link[i].up = <<>> /\ Step(destruct(wrap, i))
  BY DEF IInv, ReadFails, Idle, link
<1>2. WGood(destruct(wrap, i), proc, use, {})
  BY <1>1, Destructs
<1> QED
  BY <1>1, <1>2 DEF IInv, Step

-----------------------------------------------------------------------------
(* The steps of the programs.                                               *)

LEMMA Updated ==
  ASSUME NEW u, NEW pr \in [Program -> Proc(u)], NEW p \in Program, NEW r \in Proc(u)
  PROVE  /\ [pr EXCEPT ![p] = r] \in [Program -> Proc(u)]
         /\ [pr EXCEPT ![p] = r][p] = r
         /\ \A t \in Program : t # p => [pr EXCEPT ![p] = r][t] = pr[t]
OBVIOUS

(* A program that does not wait any more hangs up.                          *)
LEMMA Hang ==
  ASSUME NEW l, NEW con, NEW q, NEW pr, NEW u, NEW X, Good(l, con, q, pr, u, X),
         NEW p \in Program, pr[p].sock # 0, pr[p].pc # "gone",
         NEW pc, p \in Client => pc = "idle",
         p \in Server => pr[p].pc \in Busy /\ pc \in {"call", "answer"}
  PROVE  LET i == pr[p].sock IN
         Good([l EXCEPT ![i] = [l[i] EXCEPT !.alive = FALSE, !.down = <<>>]], con, q,
              [pr EXCEPT ![p] = [pr[p] EXCEPT !.pc = pc, !.sock = 0]], u, X)
<1> DEFINE i == pr[p].sock
           rl == [l[i] EXCEPT !.alive = FALSE, !.down = <<>>]
           l2 == [l EXCEPT ![i] = rl]
           rp == [pr[p] EXCEPT !.pc = pc, !.sock = 0]
           pr2 == [pr EXCEPT ![p] = rp]
<1>1. /\ l \in Seq(Link(u)) /\ con \in Seq(Nat) /\ q \in Seq(Entry(u))
      /\ pr \in [Program -> Proc(u)] /\ X \subseteq DOMAIN l
      /\ p \in Program /\ pr[p] \in Proc(u)
  BY DEF Good, Typed, Program
<1>a. /\ i \in DOMAIN l /\ l[i].who = p /\ i # 0 /\ i = pr[p].sock
      /\ ~Service(l, i) /\ l[i].module = None
      /\ pc \in {"idle", "call", "answer"} /\ pc \in Phase
      /\ p \in Client => p \notin Server /\ pc = "idle"
      /\ p \in Server => pr[p].pc \in Busy /\ pc \in Busy \ {"wait"}
  <2>1. Caller(l, q, pr, X, p, i)
    BY <1>1 DEF Good, Callers
  <2>2. i \in DOMAIN l /\ l[i].who = p
    BY <2>1 DEF Caller
  <2>3. ~Service(l, i)
    BY <1>1, <2>2 DEF Good, Services, ServiceOf
  <2> QED
    BY <1>1, <2>2, <2>3, ProgramAssumption DEF Service, Program, Phase, Busy
<1>2. l[i] \in Link(u)
  BY <1>1, <1>a, Linked
<1>3. rl \in Link(u) /\ rl.alive = FALSE /\ rl.down = <<>> /\ rl.who = l[i].who /\ rl.state = l[i].state
      /\ rl.module = l[i].module /\ rl.client = l[i].client /\ rl.up = l[i].up
  BY <1>2 DEF Link, Box
<1>4. /\ rp \in Proc(u) /\ rp.pc = pc /\ rp.sock = 0 /\ rp.reg = pr[p].reg
      /\ rp.k = pr[p].k /\ rp.req = pr[p].req
  BY <1>1, <1>a DEF Proc
<1> SUFFICES Good(l2, con, q, pr2, u, X)
  OBVIOUS
<1> HIDE DEF rl, rp, i
<1>5. /\ l2 \in Seq(Link(u)) /\ DOMAIN l2 = DOMAIN l
      /\ \A j \in DOMAIN l : j # i => l2[j] = l[j]
      /\ l2[i] = rl
  BY <1>1, <1>3, <1>a, Update
<1>p. /\ pr2 \in [Program -> Proc(u)]
      /\ \A t \in Program : t # p => pr2[t] = pr[t]
      /\ pr2[p].pc = pc /\ pr2[p].sock = 0 /\ pr2[p].reg = pr[p].reg
      /\ pr2[p].k = pr[p].k /\ pr2[p].req = pr[p].req
  BY <1>1, <1>4, Updated
<1> HIDE DEF l2, pr2
<1>6. /\ DOMAIN l2 = DOMAIN l
      /\ \A j \in DOMAIN l : /\ l2[j].who = l[j].who /\ l2[j].state = l[j].state
                             /\ l2[j].module = l[j].module /\ l2[j].client = l[j].client
                             /\ l2[j].up = l[j].up
                             /\ j # i => l2[j].alive = l[j].alive /\ l2[j].down = l[j].down
      /\ l2[i].alive = FALSE /\ l2[i].down = <<>>
  BY <1>3, <1>5
<1>s. \A c : Served(l2, c) <=> Served(l, c)
  BY <1>6 DEF Served
<1>b. \A c : Held(l2, q, X, c) <=> Held(l, q, X, c)
  BY <1>s DEF Held
<1>d. /\ \A j \in DOMAIN l : l[j].state = "open" /\ l[j].client # 0 => l[j].client \in DOMAIN l
      /\ \A n \in DOMAIN q : q[n].client \in DOMAIN l /\ q[n].client # 0
      /\ \A j \in DOMAIN l : j # 0 /\ l[j].who \in Program
  BY <1>1, Clients, Linked DEF Good
<1>c. \A m : \A c \in DOMAIN l : Matches(l, pr, c, m) => Matches(l2, pr2, c, m)
  BY <1>6, <1>p, <1>d DEF Matches
<1>7. Typed(l2, con, q, pr2, u, X)
  <2>1. /\ \A t \in Client : t \in Program /\ pr[t].pc \in {"idle", "wait", "gone"}
        /\ \A s \in Server : s \in Program /\ pr[s].pc # "idle"
    BY DEF Good, Typed, Program
  <2>2. /\ \A t \in Client : pr2[t].pc \in {"idle", "wait", "gone"}
        /\ \A s \in Server : pr2[s].pc # "idle"
    BY <1>p, <1>a, <2>1 DEF Busy
  <2> QED
    BY <1>1, <1>5, <1>p, <2>2 DEF Typed
<1>8. Listed(l2, con)
  BY <1>6 DEF Good, Listed
<1>9. Plain(l2)
  BY <1>6, <1>a DEF Good, Plain
<1>10. Services(l2, q, pr2, X)
  <2> SUFFICES ASSUME NEW j \in DOMAIN l, Service(l2, j)
               PROVE  ServiceOf(l2, q, pr2, X, j)
    BY <1>6 DEF Services
  <2>1. Service(l, j)
    BY <1>6, <1>a DEF Service
  <2>2. ServiceOf(l, q, pr, X, j) /\ l[j].who \in Program
    BY <1>d, <2>1 DEF Good, Services
  <2> QED
    BY <1>6, <1>a, <1>b, <1>p, <1>d, <2>1, <2>2 DEF ServiceOf
<1>11. Ups(l2, pr2)
  <2> SUFFICES ASSUME NEW j \in DOMAIN l, l[j].up # <<>>, NEW m, m = l[j].up[1]
               PROVE  \/ /\ m.kind \in {"call", "down"} /\ l[j].module = None
                         /\ Matches(l2, pr2, j, m) /\ m.mod # None
                         /\ \A s \in Server : pr2[s].pc # "gone" => pr2[s].reg # j
                      \/ /\ m.kind = "register" /\ l[j].module = None /\ m.mod # None
                      \/ /\ m.kind = "answer" /\ l[j].module # None
                         /\ l[j].state = "open" => l[j].client # 0 /\ Matches(l2, pr2, l[j].client, m)
    BY <1>6, <1>a DEF Ups
  <2>1. \/ /\ m.kind \in {"call", "down"} /\ l[j].module = None
           /\ Matches(l, pr, j, m) /\ m.mod # None
           /\ \A s \in Server : pr[s].pc # "gone" => pr[s].reg # j
        \/ /\ m.kind = "register" /\ l[j].module = None /\ m.mod # None
        \/ /\ m.kind = "answer" /\ l[j].module # None
           /\ l[j].state = "open" => l[j].client # 0 /\ Matches(l, pr, l[j].client, m)
    BY DEF Good, Ups
  <2>2. \A s \in Server : pr2[s].pc # "gone" => pr[s].pc # "gone" /\ pr2[s].reg = pr[s].reg
    <3>1. \A s \in Server : s \in Program
      BY DEF Program
    <3> QED
      BY <1>p, <1>a, <3>1 DEF Busy
  <2>3. /\ Matches(l, pr, j, m) => Matches(l2, pr2, j, m)
        /\ l[j].state = "open" /\ l[j].client # 0 /\ Matches(l, pr, l[j].client, m)
              => Matches(l2, pr2, l[j].client, m)
    BY <1>c, <1>d
  <2> QED
    BY <2>1, <2>2, <2>3
<1>12. Downs(l2, pr2)
  BY <1>6, <1>a, <1>c, <1>d DEF Good, Downs
<1>13. Holding(l2, q, X)
  BY <1>6, <1>a, <1>b, <1>s DEF Good, Holding
<1>14. Waits(l2, q, pr2)
  BY <1>c, <1>d DEF Good, Waits
<1>15. Callers(l2, q, pr2, X)
  <2> SUFFICES ASSUME NEW t \in Program, NEW c, c = pr2[t].sock
               PROVE  Caller(l2, q, pr2, X, t, c)
    BY DEF Callers
  <2>1. CASE t # p
    <3>1. Caller(l, q, pr, X, t, c)
      BY <1>p, <2>1 DEF Good, Callers
    <3> QED
      BY <1>6, <1>a, <1>b, <1>p, <2>1, <3>1 DEF Caller
  <2>2. CASE t = p
    <3>1. Caller(l, q, pr, X, p, i)
      BY <1>a DEF Good, Callers
    <3> QED
      BY <1>6, <1>a, <1>b, <1>p, <2>2, <3>1 DEF Caller
  <2> QED
    BY <2>1, <2>2
<1>16. Registers(l2, q, pr2, u)
  <2>1. \A m : NoCalls(l, q, m) => NoCalls(l2, q, m)
    BY <1>6, <1>a DEF NoCalls
  <2> SUFFICES ASSUME NEW s \in Server, NEW j, j = pr2[s].reg
               PROVE  Enrolls(l2, q, pr2, s, j, u.module[s])
    BY DEF Registers
  <2>2. Enrolls(l, q, pr, s, pr[s].reg, u.module[s]) /\ s \in Program
    BY DEF Good, Registers, Program
  <2>3. CASE s # p
    BY <1>6, <1>a, <1>p, <2>1, <2>2, <2>3 DEF Enrolls
  <2>4. CASE s = p
    BY <1>6, <1>a, <1>p, <2>1, <2>2, <2>4 DEF Enrolls, Busy
  <2> QED
    BY <2>3, <2>4
<1>17. Serves(l2, pr2, u)
  <2> SUFFICES ASSUME NEW s \in Server, NEW j, j = pr2[s].reg
               PROVE  ServesOn(l2, pr2, s, j, u.module[s])
    BY DEF Serves
  <2>1. ServesOn(l, pr, s, pr[s].reg, u.module[s]) /\ s \in Program
    BY DEF Good, Serves, Program
  <2>2. CASE s # p
    BY <1>6, <1>a, <1>c, <1>d, <1>p, <2>1, <2>2 DEF ServesOn
  <2>3. CASE s = p
    BY <1>6, <1>a, <1>c, <1>d, <1>p, <2>1, <2>3 DEF ServesOn, Busy
  <2> QED
    BY <2>2, <2>3
<1> QED
  BY <1>7, <1>8, <1>9, <1>10, <1>11, <1>12, <1>13, <1>14, <1>15, <1>16, <1>17 DEF Good

(* A program has its answer, or the end of the connection, and goes on.     *)
LEMMA Returns ==
  ASSUME NEW l, NEW con, NEW q, NEW pr, NEW u, NEW X, Good(l, con, q, pr, u, X),
         NEW p \in Program, pr[p].pc = "wait",
         l[pr[p].sock].down # <<>> \/ l[pr[p].sock].state = "closed"
  PROVE  LET i == pr[p].sock IN
         Good([l EXCEPT ![i] = [l[i] EXCEPT !.down = <<>>]], con, q,
              [pr EXCEPT ![p] = [pr[p] EXCEPT !.pc = Returned(p)]], u, X)
<1> DEFINE i == pr[p].sock
           rl == [l[i] EXCEPT !.down = <<>>]
           l2 == [l EXCEPT ![i] = rl]
           pc == Returned(p)
           rp == [pr[p] EXCEPT !.pc = pc]
           pr2 == [pr EXCEPT ![p] = rp]
<1>1. /\ l \in Seq(Link(u)) /\ con \in Seq(Nat) /\ q \in Seq(Entry(u))
      /\ pr \in [Program -> Proc(u)] /\ X \subseteq DOMAIN l
      /\ p \in Program /\ pr[p] \in Proc(u)
  BY DEF Good, Typed, Program
<1>a. /\ i \in DOMAIN l /\ l[i].who = p /\ i # 0 /\ i = pr[p].sock
      /\ ~Service(l, i) /\ l[i].module = None
      /\ pr[p].pc \in Busy /\ pc \in {"idle", "answer"} /\ pc \in Phase
      /\ p \in Client => p \notin Server /\ pc = "idle"
      /\ p \in Server => pc \in Busy \ {"wait"}
      /\ l[i].state # "closed" => l[i].up = <<>> /\ ~Held(l, q, X, i)
  <2>1. Caller(l, q, pr, X, p, i)
    BY <1>1 DEF Good, Callers
  <2>2. i \in DOMAIN l /\ l[i].who = p /\ i # 0
    BY <2>1 DEF Caller
  <2>3. ~Service(l, i)
    BY <1>1, <2>2 DEF Good, Services, ServiceOf
  <2>4. l[i].state # "closed" => l[i].up = <<>> /\ ~Held(l, q, X, i)
    <3>1. i \in Nat \ {0}
      BY <1>1, <2>2, Linked
    <3> QED
      BY <2>2, <3>1 DEF Good, Plain, Holding
  <2> QED
    BY <2>2, <2>3, <2>4, ProgramAssumption DEF Service, Program, Phase, Busy, Returned
<1>2. l[i] \in Link(u)
  BY <1>1, <1>a, Linked
<1>3. rl \in Link(u) /\ rl.alive = l[i].alive /\ rl.down = <<>> /\ rl.who = l[i].who /\ rl.state = l[i].state
      /\ rl.module = l[i].module /\ rl.client = l[i].client /\ rl.up = l[i].up
  BY <1>2 DEF Link, Box
<1>4. /\ rp \in Proc(u) /\ rp.pc = pc /\ rp.sock = pr[p].sock /\ rp.reg = pr[p].reg
      /\ rp.k = pr[p].k /\ rp.req = pr[p].req
  BY <1>1, <1>a DEF Proc
<1> SUFFICES Good(l2, con, q, pr2, u, X)
  OBVIOUS
<1> HIDE DEF rl, rp, i, pc
<1>5. /\ l2 \in Seq(Link(u)) /\ DOMAIN l2 = DOMAIN l
      /\ \A j \in DOMAIN l : j # i => l2[j] = l[j]
      /\ l2[i] = rl
  BY <1>1, <1>3, <1>a, Update
<1>p. /\ pr2 \in [Program -> Proc(u)]
      /\ \A t \in Program : t # p => pr2[t] = pr[t]
      /\ pr2[p].pc = pc /\ pr2[p].sock = pr[p].sock /\ pr2[p].reg = pr[p].reg
      /\ pr2[p].k = pr[p].k /\ pr2[p].req = pr[p].req
  BY <1>1, <1>4, Updated
<1> HIDE DEF l2, pr2
<1>6. /\ DOMAIN l2 = DOMAIN l
      /\ \A j \in DOMAIN l : /\ l2[j].who = l[j].who /\ l2[j].alive = l[j].alive
                             /\ l2[j].state = l[j].state /\ l2[j].module = l[j].module
                             /\ l2[j].client = l[j].client /\ l2[j].up = l[j].up
                             /\ j # i => l2[j].down = l[j].down
      /\ l2[i].down = <<>>
  BY <1>3, <1>5
<1>s. \A c : Served(l2, c) <=> Served(l, c)
  BY <1>6 DEF Served
<1>b. \A c : Held(l2, q, X, c) <=> Held(l, q, X, c)
  BY <1>s DEF Held
<1>d. /\ \A j \in DOMAIN l : l[j].state = "open" /\ l[j].client # 0 => l[j].client \in DOMAIN l
      /\ \A n \in DOMAIN q : q[n].client \in DOMAIN l /\ q[n].client # 0
      /\ \A j \in DOMAIN l : j # 0 /\ l[j].who \in Program
  BY <1>1, Clients, Linked DEF Good
<1>c. \A m : \A c \in DOMAIN l : Matches(l, pr, c, m) => Matches(l2, pr2, c, m)
  BY <1>6, <1>p, <1>d DEF Matches
<1>7. Typed(l2, con, q, pr2, u, X)
  <2>1. /\ \A t \in Client : t \in Program /\ pr[t].pc \in {"idle", "wait", "gone"}
        /\ \A s \in Server : s \in Program /\ pr[s].pc # "idle"
    BY DEF Good, Typed, Program
  <2>2. /\ \A t \in Client : pr2[t].pc \in {"idle", "wait", "gone"}
        /\ \A s \in Server : pr2[s].pc # "idle"
    BY <1>p, <1>a, <2>1 DEF Busy
  <2> QED
    BY <1>1, <1>5, <1>p, <2>2 DEF Typed
<1>8. Listed(l2, con)
  BY <1>6 DEF Good, Listed
<1>9. Plain(l2)
  BY <1>6, <1>a DEF Good, Plain
<1>10. Services(l2, q, pr2, X)
  <2> SUFFICES ASSUME NEW j \in DOMAIN l, Service(l2, j)
               PROVE  ServiceOf(l2, q, pr2, X, j)
    BY <1>6 DEF Services
  <2>1. Service(l, j)
    BY <1>6, <1>a DEF Service
  <2>2. ServiceOf(l, q, pr, X, j) /\ l[j].who \in Program
    BY <1>d, <2>1 DEF Good, Services
  <2> QED
    BY <1>6, <1>a, <1>b, <1>p, <1>d, <2>1, <2>2 DEF ServiceOf
<1>11. Ups(l2, pr2)
  <2> SUFFICES ASSUME NEW j \in DOMAIN l, l[j].up # <<>>, NEW m, m = l[j].up[1]
               PROVE  \/ /\ m.kind \in {"call", "down"} /\ l[j].module = None
                         /\ Matches(l2, pr2, j, m) /\ m.mod # None
                         /\ \A s \in Server : pr2[s].pc # "gone" => pr2[s].reg # j
                      \/ /\ m.kind = "register" /\ l[j].module = None /\ m.mod # None
                      \/ /\ m.kind = "answer" /\ l[j].module # None
                         /\ l[j].state = "open" => l[j].client # 0 /\ Matches(l2, pr2, l[j].client, m)
    BY <1>6, <1>a DEF Ups
  <2>1. \/ /\ m.kind \in {"call", "down"} /\ l[j].module = None
           /\ Matches(l, pr, j, m) /\ m.mod # None
           /\ \A s \in Server : pr[s].pc # "gone" => pr[s].reg # j
        \/ /\ m.kind = "register" /\ l[j].module = None /\ m.mod # None
        \/ /\ m.kind = "answer" /\ l[j].module # None
           /\ l[j].state = "open" => l[j].client # 0 /\ Matches(l, pr, l[j].client, m)
    BY DEF Good, Ups
  <2>2. \A s \in Server : pr2[s].pc # "gone" => pr[s].pc # "gone" /\ pr2[s].reg = pr[s].reg
    <3>1. \A s \in Server : s \in Program
      BY DEF Program
    <3> QED
      BY <1>p, <1>a, <3>1 DEF Busy
  <2>3. /\ Matches(l, pr, j, m) => Matches(l2, pr2, j, m)
        /\ l[j].state = "open" /\ l[j].client # 0 /\ Matches(l, pr, l[j].client, m)
              => Matches(l2, pr2, l[j].client, m)
    BY <1>c, <1>d
  <2> QED
    BY <2>1, <2>2, <2>3
<1>12. Downs(l2, pr2)
  BY <1>6, <1>a, <1>c, <1>d DEF Good, Downs
<1>13. Holding(l2, q, X)
  BY <1>6, <1>a, <1>b, <1>s DEF Good, Holding
<1>14. Waits(l2, q, pr2)
  BY <1>c, <1>d DEF Good, Waits
<1>15. Callers(l2, q, pr2, X)
  <2> SUFFICES ASSUME NEW t \in Program, NEW c, c = pr2[t].sock
               PROVE  Caller(l2, q, pr2, X, t, c)
    BY DEF Callers
  <2>1. CASE t # p
    <3>1. Caller(l, q, pr, X, t, c)
      BY <1>p, <2>1 DEF Good, Callers
    <3> QED
      BY <1>6, <1>a, <1>b, <1>p, <2>1, <3>1 DEF Caller
  <2>2. CASE t = p
    <3>1. Caller(l, q, pr, X, p, i)
      BY <1>a DEF Good, Callers
    <3> QED
      BY <1>6, <1>a, <1>b, <1>p, <2>2, <3>1 DEF Caller
  <2> QED
    BY <2>1, <2>2
<1>16. Registers(l2, q, pr2, u)
  <2>1. \A m : NoCalls(l, q, m) => NoCalls(l2, q, m)
    BY <1>6, <1>a DEF NoCalls
  <2> SUFFICES ASSUME NEW s \in Server, NEW j, j = pr2[s].reg
               PROVE  Enrolls(l2, q, pr2, s, j, u.module[s])
    BY DEF Registers
  <2>2. Enrolls(l, q, pr, s, pr[s].reg, u.module[s]) /\ s \in Program
    BY DEF Good, Registers, Program
  <2>3. CASE s # p
    BY <1>6, <1>a, <1>p, <2>1, <2>2, <2>3 DEF Enrolls
  <2>4. CASE s = p
    BY <1>6, <1>a, <1>p, <2>1, <2>2, <2>4 DEF Enrolls, Busy
  <2> QED
    BY <2>3, <2>4
<1>17. Serves(l2, pr2, u)
  <2> SUFFICES ASSUME NEW s \in Server, NEW j, j = pr2[s].reg
               PROVE  ServesOn(l2, pr2, s, j, u.module[s])
    BY DEF Serves
  <2>1. ServesOn(l, pr, s, pr[s].reg, u.module[s]) /\ s \in Program
    BY DEF Good, Serves, Program
  <2>2. CASE s # p
    BY <1>6, <1>a, <1>c, <1>d, <1>p, <2>1, <2>2 DEF ServesOn
  <2>3. CASE s = p
    BY <1>6, <1>a, <1>c, <1>d, <1>p, <2>1, <2>3 DEF ServesOn, Busy
  <2> QED
    BY <2>2, <2>3
<1> QED
  BY <1>7, <1>8, <1>9, <1>10, <1>11, <1>12, <1>13, <1>14, <1>15, <1>16, <1>17 DEF Good

(* A server has read the reply to its registration.                         *)
LEMMA Confirmed ==
  ASSUME NEW l, NEW con, NEW q, NEW pr, NEW u, NEW X, Good(l, con, q, pr, u, X),
         NEW p \in Server, pr[p].pc = "register", l[pr[p].reg].up = <<>>
  PROVE  LET i == pr[p].reg IN
         /\ Good([l EXCEPT ![i] = [l[i] EXCEPT !.down = <<>>]], con, q,
                 [pr EXCEPT ![p] = [pr[p] EXCEPT !.pc = "loop"]], u, X)
         /\ i \in DOMAIN l /\ l[i].down = <<Ok>>
<1> DEFINE i == pr[p].reg
           rl == [l[i] EXCEPT !.down = <<>>]
           l2 == [l EXCEPT ![i] = rl]
           rp == [pr[p] EXCEPT !.pc = "loop"]
           pr2 == [pr EXCEPT ![p] = rp]
<1>1. /\ l \in Seq(Link(u)) /\ con \in Seq(Nat) /\ q \in Seq(Entry(u))
      /\ pr \in [Program -> Proc(u)] /\ X \subseteq DOMAIN l
      /\ p \in Program /\ pr[p] \in Proc(u)
  BY DEF Good, Typed, Program
<1>a. /\ i \in DOMAIN l /\ l[i].who = p /\ i # 0 /\ i = pr[p].reg
      /\ l[i].alive /\ l[i].up = <<>> /\ l[i].down = <<Ok>> /\ l[i].down # <<>>
      /\ l[i].client = 0 /\ l[i].module = u.module[p] /\ u.module[p] # None
      /\ pr[p].pc = "register" /\ pr[p].req = None /\ "loop" \in Phase
      /\ p \notin Client /\ p \in Server
      /\ \A t \in Program : pr[t].sock # i
  <2>1. Enrolls(l, q, pr, p, i, u.module[p])
    BY DEF Good, Registers
  <2>2. l[i].up # <<Register(u.module[p])>>
    BY OneMessage
  <2>3. /\ i \in DOMAIN l /\ l[i].who = p /\ l[i].alive /\ l[i].client = 0
        /\ l[i].down = <<Ok>> /\ l[i].module = u.module[p] /\ u.module[p] # None /\ pr[p].req = None
    BY <2>1, <2>2 DEF Enrolls
  <2>4. \A t \in Program : pr[t].sock # i
    BY <2>3 DEF Good, Services, Service, ServiceOf
  <2>5. i # 0
    BY <1>1, <2>3, Linked
  <2>6. <<Ok>> # <<>>
    BY OneMessage
  <2> QED
    BY <2>3, <2>4, <2>5, <2>6, ProgramAssumption DEF Phase
<1>2. l[i] \in Link(u)
  BY <1>1, <1>a, Linked
<1>3. rl \in Link(u) /\ rl.alive = l[i].alive /\ rl.down = <<>> /\ rl.who = l[i].who /\ rl.state = l[i].state
      /\ rl.module = l[i].module /\ rl.client = l[i].client /\ rl.up = l[i].up
  BY <1>2 DEF Link, Box
<1>4. /\ rp \in Proc(u) /\ rp.pc = "loop" /\ rp.sock = pr[p].sock /\ rp.reg = pr[p].reg
      /\ rp.k = pr[p].k /\ rp.req = pr[p].req
  BY <1>1, <1>a DEF Proc
<1> SUFFICES Good(l2, con, q, pr2, u, X)
  BY <1>a
<1> HIDE DEF rl, rp, i
<1>5. /\ l2 \in Seq(Link(u)) /\ DOMAIN l2 = DOMAIN l
      /\ \A j \in DOMAIN l : j # i => l2[j] = l[j]
      /\ l2[i] = rl
  BY <1>1, <1>3, <1>a, Update
<1>p. /\ pr2 \in [Program -> Proc(u)]
      /\ \A t \in Program : t # p => pr2[t] = pr[t]
      /\ pr2[p].pc = "loop" /\ pr2[p].sock = pr[p].sock /\ pr2[p].reg = pr[p].reg
      /\ pr2[p].k = pr[p].k /\ pr2[p].req = pr[p].req
  BY <1>1, <1>4, Updated
<1> HIDE DEF l2, pr2
<1>6. /\ DOMAIN l2 = DOMAIN l
      /\ \A j \in DOMAIN l : /\ l2[j].who = l[j].who /\ l2[j].alive = l[j].alive
                             /\ l2[j].state = l[j].state /\ l2[j].module = l[j].module
                             /\ l2[j].client = l[j].client /\ l2[j].up = l[j].up
                             /\ j # i => l2[j].down = l[j].down
      /\ l2[i].down = <<>>
  BY <1>3, <1>5
<1>s. \A c : Served(l2, c) <=> Served(l, c)
  BY <1>6 DEF Served
<1>b. \A c : Held(l2, q, X, c) <=> Held(l, q, X, c)
  BY <1>s DEF Held
<1>d. /\ \A j \in DOMAIN l : l[j].state = "open" /\ l[j].client # 0 => l[j].client \in DOMAIN l
      /\ \A n \in DOMAIN q : q[n].client \in DOMAIN l /\ q[n].client # 0
      /\ \A j \in DOMAIN l : j # 0 /\ l[j].who \in Program
  BY <1>1, Clients, Linked DEF Good
<1>c. \A m : \A c \in DOMAIN l : Matches(l, pr, c, m) => Matches(l2, pr2, c, m)
  BY <1>6, <1>p, <1>d DEF Matches
<1>7. Typed(l2, con, q, pr2, u, X)
  <2>1. /\ \A t \in Client : t \in Program /\ pr[t].pc \in {"idle", "wait", "gone"}
        /\ \A s \in Server : s \in Program /\ pr[s].pc # "idle"
    BY DEF Good, Typed, Program
  <2>2. /\ \A t \in Client : pr2[t].pc \in {"idle", "wait", "gone"}
        /\ \A s \in Server : pr2[s].pc # "idle"
    BY <1>p, <1>a, <2>1 DEF Busy
  <2> QED
    BY <1>1, <1>5, <1>p, <2>2 DEF Typed
<1>8. Listed(l2, con)
  BY <1>6 DEF Good, Listed
<1>9. Plain(l2)
  BY <1>6, <1>a DEF Good, Plain
<1>10. Services(l2, q, pr2, X)
  <2> SUFFICES ASSUME NEW j \in DOMAIN l, Service(l2, j)
               PROVE  ServiceOf(l2, q, pr2, X, j)
    BY <1>6 DEF Services
  <2>1. Service(l, j)
    BY <1>6, <1>a DEF Service
  <2>2. ServiceOf(l, q, pr, X, j) /\ l[j].who \in Program
    BY <1>d, <2>1 DEF Good, Services
  <2> QED
    BY <1>6, <1>a, <1>b, <1>p, <1>d, <2>1, <2>2 DEF ServiceOf
<1>11. Ups(l2, pr2)
  <2> SUFFICES ASSUME NEW j \in DOMAIN l, l[j].up # <<>>, NEW m, m = l[j].up[1]
               PROVE  \/ /\ m.kind \in {"call", "down"} /\ l[j].module = None
                         /\ Matches(l2, pr2, j, m) /\ m.mod # None
                         /\ \A s \in Server : pr2[s].pc # "gone" => pr2[s].reg # j
                      \/ /\ m.kind = "register" /\ l[j].module = None /\ m.mod # None
                      \/ /\ m.kind = "answer" /\ l[j].module # None
                         /\ l[j].state = "open" => l[j].client # 0 /\ Matches(l2, pr2, l[j].client, m)
    BY <1>6, <1>a DEF Ups
  <2>1. \/ /\ m.kind \in {"call", "down"} /\ l[j].module = None
           /\ Matches(l, pr, j, m) /\ m.mod # None
           /\ \A s \in Server : pr[s].pc # "gone" => pr[s].reg # j
        \/ /\ m.kind = "register" /\ l[j].module = None /\ m.mod # None
        \/ /\ m.kind = "answer" /\ l[j].module # None
           /\ l[j].state = "open" => l[j].client # 0 /\ Matches(l, pr, l[j].client, m)
    BY DEF Good, Ups
  <2>2. \A s \in Server : pr2[s].pc # "gone" => pr[s].pc # "gone" /\ pr2[s].reg = pr[s].reg
    <3>1. \A s \in Server : s \in Program
      BY DEF Program
    <3> QED
      BY <1>p, <1>a, <3>1 DEF Busy
  <2>3. /\ Matches(l, pr, j, m) => Matches(l2, pr2, j, m)
        /\ l[j].state = "open" /\ l[j].client # 0 /\ Matches(l, pr, l[j].client, m)
              => Matches(l2, pr2, l[j].client, m)
    BY <1>c, <1>d
  <2> QED
    BY <2>1, <2>2, <2>3
<1>12. Downs(l2, pr2)
  BY <1>6, <1>a, <1>c, <1>d DEF Good, Downs
<1>13. Holding(l2, q, X)
  BY <1>6, <1>a, <1>b, <1>s DEF Good, Holding
<1>14. Waits(l2, q, pr2)
  BY <1>c, <1>d DEF Good, Waits
<1>15. Callers(l2, q, pr2, X)
  <2> SUFFICES ASSUME NEW t \in Program, NEW c, c = pr2[t].sock
               PROVE  Caller(l2, q, pr2, X, t, c)
    BY DEF Callers
  <2>1. c = pr[t].sock /\ c # i /\ (pr2[t].pc = "wait" <=> pr[t].pc = "wait")
        /\ (pr2[t].pc = "gone" <=> pr[t].pc = "gone") /\ (pr[t].pc = "gone" => pr2[t].req = pr[t].req)
    <3>1. CASE t = p
      BY <1>a, <1>p, <3>1
    <3>2. CASE t # p
      BY <1>a, <1>p, <3>2
    <3> QED
      BY <3>1, <3>2
  <2>2. Caller(l, q, pr, X, t, c)
    BY <2>1 DEF Good, Callers
  <2> QED
    BY <1>6, <1>b, <2>1, <2>2 DEF Caller
<1>16. Registers(l2, q, pr2, u)
  <2>1. \A m : NoCalls(l, q, m) => NoCalls(l2, q, m)
    BY <1>6, <1>a DEF NoCalls
  <2> SUFFICES ASSUME NEW s \in Server, NEW j, j = pr2[s].reg
               PROVE  Enrolls(l2, q, pr2, s, j, u.module[s])
    BY DEF Registers
  <2>2. Enrolls(l, q, pr, s, pr[s].reg, u.module[s]) /\ s \in Program
    BY DEF Good, Registers, Program
  <2>3. CASE s # p
    BY <1>6, <1>a, <1>p, <2>1, <2>2, <2>3 DEF Enrolls
  <2>4. CASE s = p
    BY <1>6, <1>a, <1>p, <2>1, <2>2, <2>4 DEF Enrolls, Busy
  <2> QED
    BY <2>3, <2>4
<1>17. Serves(l2, pr2, u)
  <2> SUFFICES ASSUME NEW s \in Server, NEW j, j = pr2[s].reg
               PROVE  ServesOn(l2, pr2, s, j, u.module[s])
    BY DEF Serves
  <2>1. ServesOn(l, pr, s, pr[s].reg, u.module[s]) /\ s \in Program
    BY DEF Good, Serves, Program
  <2>2. CASE s # p
    BY <1>6, <1>a, <1>c, <1>d, <1>p, <2>1, <2>2 DEF ServesOn
  <2>3. CASE s = p
    BY <1>6, <1>a, <1>c, <1>d, <1>p, <2>1, <2>3 DEF ServesOn, Busy
  <2> QED
    BY <2>2, <2>3
<1> QED
  BY <1>7, <1>8, <1>9, <1>10, <1>11, <1>12, <1>13, <1>14, <1>15, <1>16, <1>17 DEF Good

(* A server takes the call it has been sent.                                *)
LEMMA Taken ==
  ASSUME NEW l, NEW con, NEW q, NEW pr, NEW u, NEW X, Good(l, con, q, pr, u, X), u \in Uses,
         NEW p \in Server, pr[p].pc = "loop", l[pr[p].reg].down # <<>>,
         NEW pc \in {"call", "answer"}
  PROVE  LET i == pr[p].reg IN
         /\ Good([l EXCEPT ![i] = [l[i] EXCEPT !.down = <<>>]], con, q,
                 [pr EXCEPT ![p] = [pr[p] EXCEPT !.pc = pc, !.req = Head(l[i].down)]], u, X)
         /\ i \in DOMAIN l
<1> DEFINE i == pr[p].reg
           rl == [l[i] EXCEPT !.down = <<>>]
           l2 == [l EXCEPT ![i] = rl]
           msg == Head(l[i].down)
           rp == [pr[p] EXCEPT !.pc = pc, !.req = msg]
           pr2 == [pr EXCEPT ![p] = rp]
<1>1. /\ l \in Seq(Link(u)) /\ con \in Seq(Nat) /\ q \in Seq(Entry(u))
      /\ pr \in [Program -> Proc(u)] /\ X \subseteq DOMAIN l
      /\ p \in Program /\ pr[p] \in Proc(u)
  BY DEF Good, Typed, Program
<1>a. /\ i \in DOMAIN l /\ l[i].who = p /\ i # 0 /\ i = pr[p].reg
      /\ l[i].alive /\ l[i].up = <<>> /\ l[i].down # <<>>
      /\ l[i].module = u.module[p] /\ u.module[p] # None
      /\ pr[p].pc = "loop" /\ pc \in Phase /\ pc \in {"call", "answer"}
      /\ p \notin Client /\ p \in Server
      /\ \A t \in Program : pr[t].sock # i
      /\ msg \in Message(u) /\ msg # None /\ msg.kind = "call"
      /\ l[i].state = "open" => l[i].client # 0 /\ Matches(l, pr, l[i].client, msg)
  <2>1. ServesOn(l, pr, p, i, u.module[p])
    BY DEF Good, Serves
  <2>2. /\ i \in DOMAIN l /\ l[i].who = p /\ l[i].alive
        /\ l[i].module = u.module[p] /\ u.module[p] # None /\ l[i].down[1].kind = "call"
    BY <2>1 DEF ServesOn
  <2>4. \A t \in Program : pr[t].sock # i
    BY <2>2 DEF Good, Services, Service, ServiceOf
  <2>5. i # 0 /\ l[i].down \in Box(u)
    BY <1>1, <2>2, Linked
  <2>6. msg = l[i].down[1] /\ msg \in Message(u)
    BY <2>5, Boxes
  <2>7. l[i].state = "open" => l[i].client # 0 /\ Matches(l, pr, l[i].client, msg)
    BY <2>2, <2>6 DEF Good, Downs
  <2>8. l[i].up = <<>>
    BY <2>2 DEF Good, Plain
  <2>9. msg # None
    BY <2>6, NoneAssumption
  <2> QED
    BY <2>2, <2>4, <2>5, <2>6, <2>7, <2>8, <2>9, ProgramAssumption DEF Phase
<1>2. l[i] \in Link(u)
  BY <1>1, <1>a, Linked
<1>3. rl \in Link(u) /\ rl.alive = l[i].alive /\ rl.down = <<>> /\ rl.who = l[i].who /\ rl.state = l[i].state
      /\ rl.module = l[i].module /\ rl.client = l[i].client /\ rl.up = l[i].up
  BY <1>2 DEF Link, Box
<1> HIDE DEF msg
<1>4. /\ rp \in Proc(u) /\ rp.pc = pc /\ rp.sock = pr[p].sock /\ rp.reg = pr[p].reg
      /\ rp.k = pr[p].k /\ rp.req = msg
  BY <1>1, <1>a DEF Proc
<1> SUFFICES Good(l2, con, q, pr2, u, X)
  BY <1>a DEF msg
<1> HIDE DEF rl, rp, i
<1>5. /\ l2 \in Seq(Link(u)) /\ DOMAIN l2 = DOMAIN l
      /\ \A j \in DOMAIN l : j # i => l2[j] = l[j]
      /\ l2[i] = rl
  BY <1>1, <1>3, <1>a, Update
<1>p. /\ pr2 \in [Program -> Proc(u)]
      /\ \A t \in Program : t # p => pr2[t] = pr[t]
      /\ pr2[p].pc = pc /\ pr2[p].sock = pr[p].sock /\ pr2[p].reg = pr[p].reg
      /\ pr2[p].k = pr[p].k /\ pr2[p].req = msg
  BY <1>1, <1>4, Updated
<1> HIDE DEF l2, pr2
<1>6. /\ DOMAIN l2 = DOMAIN l
      /\ \A j \in DOMAIN l : /\ l2[j].who = l[j].who /\ l2[j].alive = l[j].alive
                             /\ l2[j].state = l[j].state /\ l2[j].module = l[j].module
                             /\ l2[j].client = l[j].client /\ l2[j].up = l[j].up
                             /\ j # i => l2[j].down = l[j].down
      /\ l2[i].down = <<>>
  BY <1>3, <1>5
<1>s. \A c : Served(l2, c) <=> Served(l, c)
  BY <1>6 DEF Served
<1>b. \A c : Held(l2, q, X, c) <=> Held(l, q, X, c)
  BY <1>s DEF Held
<1>d. /\ \A j \in DOMAIN l : l[j].state = "open" /\ l[j].client # 0 => l[j].client \in DOMAIN l
      /\ \A n \in DOMAIN q : q[n].client \in DOMAIN l /\ q[n].client # 0
      /\ \A j \in DOMAIN l : j # 0 /\ l[j].who \in Program
  BY <1>1, Clients, Linked DEF Good
<1>c. \A m : \A c \in DOMAIN l : Matches(l, pr, c, m) => Matches(l2, pr2, c, m)
  BY <1>6, <1>p, <1>d DEF Matches
<1>7. Typed(l2, con, q, pr2, u, X)
  <2>1. /\ \A t \in Client : t \in Program /\ pr[t].pc \in {"idle", "wait", "gone"}
        /\ \A s \in Server : s \in Program /\ pr[s].pc # "idle"
    BY DEF Good, Typed, Program
  <2>2. /\ \A t \in Client : pr2[t].pc \in {"idle", "wait", "gone"}
        /\ \A s \in Server : pr2[s].pc # "idle"
    BY <1>p, <1>a, <2>1 DEF Busy
  <2> QED
    BY <1>1, <1>5, <1>p, <2>2 DEF Typed
<1>8. Listed(l2, con)
  BY <1>6 DEF Good, Listed
<1>9. Plain(l2)
  BY <1>6, <1>a DEF Good, Plain
<1>10. Services(l2, q, pr2, X)
  <2> SUFFICES ASSUME NEW j \in DOMAIN l, Service(l2, j)
               PROVE  ServiceOf(l2, q, pr2, X, j)
    BY <1>6 DEF Services
  <2>1. Service(l, j)
    BY <1>6, <1>a DEF Service
  <2>2. ServiceOf(l, q, pr, X, j) /\ l[j].who \in Program
    BY <1>d, <2>1 DEF Good, Services
  <2> QED
    BY <1>6, <1>a, <1>b, <1>p, <1>d, <2>1, <2>2 DEF ServiceOf
<1>11. Ups(l2, pr2)
  <2> SUFFICES ASSUME NEW j \in DOMAIN l, l[j].up # <<>>, NEW m, m = l[j].up[1]
               PROVE  \/ /\ m.kind \in {"call", "down"} /\ l[j].module = None
                         /\ Matches(l2, pr2, j, m) /\ m.mod # None
                         /\ \A s \in Server : pr2[s].pc # "gone" => pr2[s].reg # j
                      \/ /\ m.kind = "register" /\ l[j].module = None /\ m.mod # None
                      \/ /\ m.kind = "answer" /\ l[j].module # None
                         /\ l[j].state = "open" => l[j].client # 0 /\ Matches(l2, pr2, l[j].client, m)
    BY <1>6, <1>a DEF Ups
  <2>1. \/ /\ m.kind \in {"call", "down"} /\ l[j].module = None
           /\ Matches(l, pr, j, m) /\ m.mod # None
           /\ \A s \in Server : pr[s].pc # "gone" => pr[s].reg # j
        \/ /\ m.kind = "register" /\ l[j].module = None /\ m.mod # None
        \/ /\ m.kind = "answer" /\ l[j].module # None
           /\ l[j].state = "open" => l[j].client # 0 /\ Matches(l, pr, l[j].client, m)
    BY DEF Good, Ups
  <2>2. \A s \in Server : pr2[s].pc # "gone" => pr[s].pc # "gone" /\ pr2[s].reg = pr[s].reg
    <3>1. \A s \in Server : s \in Program
      BY DEF Program
    <3> QED
      BY <1>p, <1>a, <3>1 DEF Busy
  <2>3. /\ Matches(l, pr, j, m) => Matches(l2, pr2, j, m)
        /\ l[j].state = "open" /\ l[j].client # 0 /\ Matches(l, pr, l[j].client, m)
              => Matches(l2, pr2, l[j].client, m)
    BY <1>c, <1>d
  <2> QED
    BY <2>1, <2>2, <2>3
<1>12. Downs(l2, pr2)
  BY <1>6, <1>a, <1>c, <1>d DEF Good, Downs
<1>13. Holding(l2, q, X)
  BY <1>6, <1>a, <1>b, <1>s DEF Good, Holding
<1>14. Waits(l2, q, pr2)
  BY <1>c, <1>d DEF Good, Waits
<1>15. Callers(l2, q, pr2, X)
  <2> SUFFICES ASSUME NEW t \in Program, NEW c, c = pr2[t].sock
               PROVE  Caller(l2, q, pr2, X, t, c)
    BY DEF Callers
  <2>1. c = pr[t].sock /\ c # i /\ (pr2[t].pc = "wait" <=> pr[t].pc = "wait")
        /\ (pr2[t].pc = "gone" <=> pr[t].pc = "gone") /\ (pr[t].pc = "gone" => pr2[t].req = pr[t].req)
    <3>1. CASE t = p
      BY <1>a, <1>p, <3>1
    <3>2. CASE t # p
      BY <1>a, <1>p, <3>2
    <3> QED
      BY <3>1, <3>2
  <2>2. Caller(l, q, pr, X, t, c)
    BY <2>1 DEF Good, Callers
  <2> QED
    BY <1>6, <1>b, <2>1, <2>2 DEF Caller
<1>16. Registers(l2, q, pr2, u)
  <2>1. \A m : NoCalls(l, q, m) => NoCalls(l2, q, m)
    BY <1>6, <1>a DEF NoCalls
  <2> SUFFICES ASSUME NEW s \in Server, NEW j, j = pr2[s].reg
               PROVE  Enrolls(l2, q, pr2, s, j, u.module[s])
    BY DEF Registers
  <2>2. Enrolls(l, q, pr, s, pr[s].reg, u.module[s]) /\ s \in Program
    BY DEF Good, Registers, Program
  <2>3. CASE s # p
    BY <1>6, <1>a, <1>p, <2>1, <2>2, <2>3 DEF Enrolls
  <2>4. CASE s = p
    BY <1>6, <1>a, <1>p, <2>1, <2>2, <2>4 DEF Enrolls, Busy
  <2> QED
    BY <2>3, <2>4
<1>17. Serves(l2, pr2, u)
  <2> SUFFICES ASSUME NEW s \in Server, NEW j, j = pr2[s].reg
               PROVE  ServesOn(l2, pr2, s, j, u.module[s])
    BY DEF Serves
  <2>1. ServesOn(l, pr, s, pr[s].reg, u.module[s]) /\ s \in Program
    BY DEF Good, Serves, Program
  <2>2. CASE s # p
    BY <1>6, <1>a, <1>c, <1>d, <1>p, <2>1, <2>2 DEF ServesOn
  <2>3. CASE s = p
    BY <1>6, <1>a, <1>c, <1>d, <1>p, <2>1, <2>3 DEF ServesOn, Busy
  <2> QED
    BY <2>2, <2>3
<1> QED
  BY <1>7, <1>8, <1>9, <1>10, <1>11, <1>12, <1>13, <1>14, <1>15, <1>16, <1>17 DEF Good

(* A server sends its answer, on a connection that is open.                 *)
LEMMA Replied ==
  ASSUME NEW l, NEW con, NEW q, NEW pr, NEW u, NEW X, Good(l, con, q, pr, u, X),
         NEW p \in Server, pr[p].pc = "answer",
         NEW up, up = IF l[pr[p].reg].state = "closed" THEN l[pr[p].reg].up ELSE <<Answer(pr[p].req)>>
  PROVE  LET i == pr[p].reg IN
         /\ Good([l EXCEPT ![i] = [l[i] EXCEPT !.up = up]], con, q,
                 [pr EXCEPT ![p] = [pr[p] EXCEPT !.pc = "loop", !.req = None]], u, X)
         /\ i \in DOMAIN l /\ l[i].up = <<>>
<1> DEFINE i == pr[p].reg
           rl == [l[i] EXCEPT !.up = up]
           l2 == [l EXCEPT ![i] = rl]
           msg == pr[p].req
           rp == [pr[p] EXCEPT !.pc = "loop", !.req = None]
           pr2 == [pr EXCEPT ![p] = rp]
           an == Answer(msg)
<1>1. /\ l \in Seq(Link(u)) /\ con \in Seq(Nat) /\ q \in Seq(Entry(u))
      /\ pr \in [Program -> Proc(u)] /\ X \subseteq DOMAIN l
      /\ p \in Program /\ pr[p] \in Proc(u)
  BY DEF Good, Typed, Program
<1>a. /\ i \in DOMAIN l /\ l[i].who = p /\ i # 0 /\ i = pr[p].reg
      /\ l[i].alive /\ l[i].up = <<>> /\ l[i].down = <<>> /\ l[i].state \in {"open", "closed"}
      /\ l[i].module = u.module[p] /\ u.module[p] # None /\ l[i].module # None
      /\ pr[p].pc = "answer" /\ "loop" \in Phase
      /\ p \notin Client /\ p \in Server
      /\ \A t \in Program : pr[t].sock # i
      /\ msg \in Message(u) /\ msg # None
      /\ l[i].state = "open" => l[i].client # 0 /\ Matches(l, pr, l[i].client, msg)
  <2>1. ServesOn(l, pr, p, i, u.module[p])
    BY DEF Good, Serves
  <2>2. /\ i \in DOMAIN l /\ l[i].who = p /\ l[i].alive
        /\ l[i].module = u.module[p] /\ u.module[p] # None /\ l[i].module # None /\ msg # None
        /\ l[i].up = <<>> /\ l[i].down = <<>>
        /\ l[i].state = "open" => l[i].client # 0 /\ Matches(l, pr, l[i].client, msg)
    BY <2>1 DEF ServesOn, Busy
  <2>4. \A t \in Program : pr[t].sock # i
    BY <2>2 DEF Good, Services, Service, ServiceOf
  <2>5. i # 0 /\ l[i].state \in State
    BY <1>1, <2>2, Linked
  <2>6. msg \in Message(u)
    BY <1>1, <2>2 DEF Proc
  <2>7. l[i].state # "pending"
    BY <2>2 DEF Good, Plain
  <2> QED
    BY <2>2, <2>4, <2>5, <2>6, <2>7, ProgramAssumption DEF Phase, State
<1>2. l[i] \in Link(u)
  BY <1>1, <1>a, Linked
<1>e. /\ up \in Box(u)
      /\ l[i].state = "open" => up = <<an>> /\ up # <<>> /\ up[1] = an
      /\ l[i].state = "closed" => up = <<>>
      /\ up # <<>> => up = <<an>> /\ up[1] = an
      /\ an.kind = "answer" /\ an.who = msg.who /\ an.k = msg.k
  <2>1. an \in Message(u) /\ an.kind = "answer" /\ an.who = msg.who /\ an.k = msg.k
    BY <1>a DEF Answer, Message, Kind
  <2> HIDE DEF an
  <2>2. up = IF l[i].state = "closed" THEN <<>> ELSE <<an>>
    BY <1>a DEF an
  <2>3. up \in Box(u)
    BY <2>1, <2>2 DEF Box
  <2> QED
    BY <1>a, <2>1, <2>2, <2>3, OneMessage
<1>3. rl \in Link(u) /\ rl.alive = l[i].alive /\ rl.down = l[i].down /\ rl.who = l[i].who /\ rl.state = l[i].state
      /\ rl.module = l[i].module /\ rl.client = l[i].client /\ rl.up = up
  BY <1>2, <1>e DEF Link
<1> HIDE DEF msg, an
<1>4. /\ rp \in Proc(u) /\ rp.pc = "loop" /\ rp.sock = pr[p].sock /\ rp.reg = pr[p].reg
      /\ rp.k = pr[p].k /\ rp.req = None
  BY <1>1, <1>a DEF Proc
<1> SUFFICES Good(l2, con, q, pr2, u, X)
  BY <1>a
<1> HIDE DEF rl, rp, i
<1>5. /\ l2 \in Seq(Link(u)) /\ DOMAIN l2 = DOMAIN l
      /\ \A j \in DOMAIN l : j # i => l2[j] = l[j]
      /\ l2[i] = rl
  BY <1>1, <1>3, <1>a, Update
<1>p. /\ pr2 \in [Program -> Proc(u)]
      /\ \A t \in Program : t # p => pr2[t] = pr[t]
      /\ pr2[p].pc = "loop" /\ pr2[p].sock = pr[p].sock /\ pr2[p].reg = pr[p].reg
      /\ pr2[p].k = pr[p].k /\ pr2[p].req = None
  BY <1>1, <1>4, Updated
<1> HIDE DEF l2, pr2
<1>6. /\ DOMAIN l2 = DOMAIN l
      /\ \A j \in DOMAIN l : /\ l2[j].who = l[j].who /\ l2[j].alive = l[j].alive
                             /\ l2[j].state = l[j].state /\ l2[j].module = l[j].module
                             /\ l2[j].client = l[j].client /\ l2[j].down = l[j].down
                             /\ j # i => l2[j].up = l[j].up
      /\ l2[i].up = up
  BY <1>3, <1>5
<1>s. \A c : Served(l2, c) <=> Served(l, c)
  BY <1>6 DEF Served
<1>b. \A c : Held(l2, q, X, c) <=> Held(l, q, X, c)
  BY <1>s DEF Held
<1>d. /\ \A j \in DOMAIN l : l[j].state = "open" /\ l[j].client # 0 => l[j].client \in DOMAIN l
      /\ \A n \in DOMAIN q : q[n].client \in DOMAIN l /\ q[n].client # 0
      /\ \A j \in DOMAIN l : j # 0 /\ l[j].who \in Program
  BY <1>1, Clients, Linked DEF Good
<1>c. \A m : \A c \in DOMAIN l : Matches(l, pr, c, m) => Matches(l2, pr2, c, m)
  BY <1>6, <1>p, <1>d DEF Matches
<1>7. Typed(l2, con, q, pr2, u, X)
  <2>1. /\ \A t \in Client : t \in Program /\ pr[t].pc \in {"idle", "wait", "gone"}
        /\ \A s \in Server : s \in Program /\ pr[s].pc # "idle"
    BY DEF Good, Typed, Program
  <2>2. /\ \A t \in Client : pr2[t].pc \in {"idle", "wait", "gone"}
        /\ \A s \in Server : pr2[s].pc # "idle"
    BY <1>p, <1>a, <2>1 DEF Busy
  <2> QED
    BY <1>1, <1>5, <1>p, <2>2 DEF Typed
<1>8. Listed(l2, con)
  BY <1>6 DEF Good, Listed
<1>9. Plain(l2)
  BY <1>6, <1>a, <1>e DEF Good, Plain
<1>10. Services(l2, q, pr2, X)
  <2> SUFFICES ASSUME NEW j \in DOMAIN l, Service(l2, j)
               PROVE  ServiceOf(l2, q, pr2, X, j)
    BY <1>6 DEF Services
  <2>1. Service(l, j)
    BY <1>6, <1>a DEF Service
  <2>2. ServiceOf(l, q, pr, X, j) /\ l[j].who \in Program
    BY <1>d, <2>1 DEF Good, Services
  <2> QED
    BY <1>6, <1>a, <1>b, <1>p, <1>d, <2>1, <2>2 DEF ServiceOf
<1>11. Ups(l2, pr2)
  <2> SUFFICES ASSUME NEW j \in DOMAIN l, l2[j].up # <<>>, NEW m, m = l2[j].up[1]
               PROVE  \/ /\ m.kind \in {"call", "down"} /\ l[j].module = None
                         /\ Matches(l2, pr2, j, m) /\ m.mod # None
                         /\ \A s \in Server : pr2[s].pc # "gone" => pr2[s].reg # j
                      \/ /\ m.kind = "register" /\ l[j].module = None /\ m.mod # None
                      \/ /\ m.kind = "answer" /\ l[j].module # None
                         /\ l[j].state = "open" => l[j].client # 0 /\ Matches(l2, pr2, l[j].client, m)
    BY <1>6, <1>a DEF Ups
  <2>r. \A s \in Server : pr2[s].pc # "gone" => pr[s].pc # "gone" /\ pr2[s].reg = pr[s].reg
    <3>1. \A s \in Server : s \in Program
      BY DEF Program
    <3> QED
      BY <1>p, <1>a, <3>1 DEF Busy
  <2>1. CASE j # i
    <3>1. \/ /\ m.kind \in {"call", "down"} /\ l[j].module = None
             /\ Matches(l, pr, j, m) /\ m.mod # None
             /\ \A s \in Server : pr[s].pc # "gone" => pr[s].reg # j
          \/ /\ m.kind = "register" /\ l[j].module = None /\ m.mod # None
          \/ /\ m.kind = "answer" /\ l[j].module # None
             /\ l[j].state = "open" => l[j].client # 0 /\ Matches(l, pr, l[j].client, m)
      <4>1. l[j].up # <<>> /\ m = l[j].up[1]
        BY <1>6, <2>1
      <4> QED
        BY <4>1 DEF Good, Ups
    <3>2. /\ Matches(l, pr, j, m) => Matches(l2, pr2, j, m)
          /\ l[j].state = "open" /\ l[j].client # 0 /\ Matches(l, pr, l[j].client, m)
                => Matches(l2, pr2, l[j].client, m)
      BY <1>c, <1>d, <2>1
    <3> QED
      BY <2>r, <3>1, <3>2
  <2>2. CASE j = i
    <3>1. m = an /\ m.kind = "answer" /\ l[i].state = "open" /\ l[i].module # None /\ l[i].client # 0
      BY <1>6, <1>a, <1>e, <2>2
    <3>2. Matches(l, pr, l[i].client, m)
      BY <1>a, <1>e, <3>1 DEF Matches
    <3>3. Matches(l2, pr2, l[i].client, m)
      BY <1>a, <1>c, <1>d, <3>1, <3>2
    <3> QED
      BY <2>2, <3>1, <3>3
  <2> QED
    BY <2>1, <2>2
<1>12. Downs(l2, pr2)
  BY <1>6, <1>a, <1>c, <1>d DEF Good, Downs
<1>13. Holding(l2, q, X)
  <2>1. \A c \in Nat \ {0} : Held(l, q, X, c) => c # i
    BY <1>a DEF Good, Holding
  <2> QED
    BY <1>6, <1>b, <1>s, <2>1 DEF Good, Holding
<1>14. Waits(l2, q, pr2)
  BY <1>c, <1>d DEF Good, Waits
<1>15. Callers(l2, q, pr2, X)
  <2> SUFFICES ASSUME NEW t \in Program, NEW c, c = pr2[t].sock
               PROVE  Caller(l2, q, pr2, X, t, c)
    BY DEF Callers
  <2>1. c = pr[t].sock /\ c # i /\ (pr2[t].pc = "wait" <=> pr[t].pc = "wait")
        /\ (pr2[t].pc = "gone" <=> pr[t].pc = "gone") /\ (pr[t].pc = "gone" => pr2[t].req = pr[t].req)
    <3>1. CASE t = p
      BY <1>a, <1>p, <3>1
    <3>2. CASE t # p
      BY <1>a, <1>p, <3>2
    <3> QED
      BY <3>1, <3>2
  <2>2. Caller(l, q, pr, X, t, c)
    BY <2>1 DEF Good, Callers
  <2> QED
    BY <1>6, <1>b, <2>1, <2>2 DEF Caller
<1>16. Registers(l2, q, pr2, u)
  <2>1. \A m : NoCalls(l, q, m) => NoCalls(l2, q, m)
    <3>1. "answer" # "call"
      OBVIOUS
    <3> QED
      BY <1>6, <1>e, <3>1 DEF NoCalls
  <2> SUFFICES ASSUME NEW s \in Server, NEW j, j = pr2[s].reg
               PROVE  Enrolls(l2, q, pr2, s, j, u.module[s])
    BY DEF Registers
  <2>2. Enrolls(l, q, pr, s, pr[s].reg, u.module[s]) /\ s \in Program
    BY DEF Good, Registers, Program
  <2>3. CASE s # p
    <3>1. pr[s].pc = "register" => pr[s].reg # i
      BY <1>a, <2>2, <2>3 DEF Enrolls
    <3> QED
      BY <1>6, <1>a, <1>p, <2>1, <2>2, <2>3, <3>1 DEF Enrolls
  <2>4. CASE s = p
    BY <1>6, <1>a, <1>p, <2>1, <2>2, <2>4 DEF Enrolls, Busy
  <2> QED
    BY <2>3, <2>4
<1>17. Serves(l2, pr2, u)
  <2> SUFFICES ASSUME NEW s \in Server, NEW j, j = pr2[s].reg
               PROVE  ServesOn(l2, pr2, s, j, u.module[s])
    BY DEF Serves
  <2>1. ServesOn(l, pr, s, pr[s].reg, u.module[s]) /\ s \in Program
    BY DEF Good, Serves, Program
  <2>2. CASE s # p
    <3>1. pr[s].pc \in {"loop"} \cup Busy => pr[s].reg # i
      BY <1>a, <2>1, <2>2 DEF ServesOn
    <3> QED
      BY <1>6, <1>c, <1>d, <1>p, <2>1, <2>2, <3>1 DEF ServesOn
  <2>3. CASE s = p
    BY <1>6, <1>a, <1>c, <1>d, <1>e, <1>p, <2>1, <2>3, SMTT(20) DEF ServesOn, Busy
  <2> QED
    BY <2>2, <2>3
<1> QED
  BY <1>7, <1>8, <1>9, <1>10, <1>11, <1>12, <1>13, <1>14, <1>15, <1>16, <1>17 DEF Good

(* A program calls on a connection of its own nothing is under way on.      *)
LEMMA Called ==
  ASSUME NEW l, NEW con, NEW q, NEW pr, NEW u, NEW X, Good(l, con, q, pr, u, X),
         NEW p \in Program, pr[p].sock # 0, pr[p].pc \in {"idle", "call"},
         LET i == pr[p].sock IN l[i].state # "closed" /\ l[i].up = <<>> /\ l[i].down = <<>>,
         NEW m0 \in Name(u), m0 # None, NEW kind \in {"call", "down"},
         kind = "call" => \A s \in Server : pr[s].pc = "register" => u.module[s] # m0
  PROVE  LET i == pr[p].sock
             msg == [kind |-> kind, who |-> p, k |-> pr[p].k + 1, mod |-> m0] IN
         Good([l EXCEPT ![i] = [l[i] EXCEPT !.up = <<msg>>]], con, q,
              [pr EXCEPT ![p] = [pr[p] EXCEPT !.pc = "wait", !.k = pr[p].k + 1]], u, X)
<1> DEFINE i == pr[p].sock
           k == pr[p].k + 1
           msg == [kind |-> kind, who |-> p, k |-> k, mod |-> m0]
           rl == [l[i] EXCEPT !.up = <<msg>>]
           l2 == [l EXCEPT ![i] = rl]
           rp == [pr[p] EXCEPT !.pc = "wait", !.k = k]
           pr2 == [pr EXCEPT ![p] = rp]
<1>1. /\ l \in Seq(Link(u)) /\ con \in Seq(Nat) /\ q \in Seq(Entry(u))
      /\ pr \in [Program -> Proc(u)] /\ X \subseteq DOMAIN l
      /\ p \in Program /\ pr[p] \in Proc(u)
  BY DEF Good, Typed, Program
<1>a. /\ i \in DOMAIN l /\ l[i].who = p /\ i # 0 /\ i = pr[p].sock
      /\ ~Service(l, i) /\ l[i].module = None /\ l[i].client = 0 /\ l[i].alive
      /\ pr[p].pc \in {"idle", "call"} /\ "wait" \in Phase /\ k \in Nat
      /\ p \in Client => p \notin Server
      /\ p \in Server => pr[p].pc \in Busy /\ "wait" \in Busy
      /\ l[i].up = <<>> /\ l[i].down = <<>> /\ l[i].state # "closed"
      /\ ~Held(l, q, X, i)
      /\ \A s \in Server : pr[s].pc # "gone" => pr[s].reg # i
  <2>1. Caller(l, q, pr, X, p, i)
    BY <1>1 DEF Good, Callers
  <2>2. i \in DOMAIN l /\ l[i].who = p /\ ~Held(l, q, X, i) /\ l[i].alive
    BY <2>1 DEF Caller
  <2>3. ~Service(l, i)
    BY <1>1, <2>2 DEF Good, Services, ServiceOf
  <2>4. pr[p].k \in Nat
    BY <1>1 DEF Proc
  <2>5. l[i].module = None /\ l[i].client = 0
    BY <2>2, <2>3 DEF Service, Good, Plain
  <2>6. ASSUME NEW s \in Server, pr[s].pc # "gone"
        PROVE  pr[s].reg # i
    <3>1. Enrolls(l, q, pr, s, pr[s].reg, u.module[s]) /\ ServesOn(l, pr, s, pr[s].reg, u.module[s])
      BY DEF Good, Registers, Serves
    <3>2. pr[s].pc \in Phase /\ pr[s].pc # "idle"
      BY <1>1 DEF Good, Typed, Proc, Program
    <3>3. CASE pr[s].pc = "start"
      BY <3>1, <3>3 DEF Enrolls
    <3>4. CASE pr[s].pc = "register"
      <4>1. \/ l[pr[s].reg].up = <<Register(u.module[s])>>
            \/ l[pr[s].reg].module = u.module[s] /\ u.module[s] # None
        BY <3>1, <3>4 DEF Enrolls
      <4>2. <<Register(u.module[s])>> # <<>>
        BY OneMessage
      <4> QED
        BY <2>5, <4>1, <4>2
    <3>5. CASE pr[s].pc \in {"loop"} \cup Busy
      BY <2>5, <3>1, <3>5 DEF ServesOn
    <3> QED
      BY <2>6, <3>2, <3>3, <3>4, <3>5 DEF Phase, Busy
  <2>7. p \in Server => pr[p].pc = "call" /\ p \notin Client
    BY ProgramAssumption DEF Good, Typed
  <2>8. k \in Nat /\ "wait" \in Phase /\ "wait" \in Busy /\ "call" \in Busy
    BY <2>4 DEF Phase, Busy
  <2> HIDE DEF k
  <2> QED
    BY <2>2, <2>3, <2>5, <2>6, <2>7, <2>8
<1>2. l[i] \in Link(u)
  BY <1>1, <1>a, Linked
<1>e. /\ msg \in Message(u) /\ <<msg>> \in Box(u) /\ <<msg>> # <<>> /\ <<msg>>[1] = msg
      /\ msg.kind = kind /\ msg.who = p /\ msg.k = k /\ msg.mod = m0
      /\ kind \in {"call", "down"} /\ m0 # None
  <2>1. msg \in Message(u) /\ msg.kind = kind /\ msg.who = p /\ msg.k = k /\ msg.mod = m0
    BY <1>a, <1>1 DEF Message, Kind
  <2> HIDE DEF msg
  <2> QED
    BY <2>1, OneMessage DEF Box
<1> HIDE DEF msg, k
<1>3. rl \in Link(u) /\ rl.alive = l[i].alive /\ rl.down = l[i].down /\ rl.who = l[i].who /\ rl.state = l[i].state
      /\ rl.module = l[i].module /\ rl.client = l[i].client /\ rl.up = <<msg>>
  BY <1>2, <1>e DEF Link
<1>4. /\ rp \in Proc(u) /\ rp.pc = "wait" /\ rp.sock = pr[p].sock /\ rp.reg = pr[p].reg
      /\ rp.k = k /\ rp.req = pr[p].req
  BY <1>1, <1>a DEF Proc
<1> SUFFICES Good(l2, con, q, pr2, u, X)
  BY DEF msg, k
<1> HIDE DEF rl, rp, i
<1>5. /\ l2 \in Seq(Link(u)) /\ DOMAIN l2 = DOMAIN l
      /\ \A j \in DOMAIN l : j # i => l2[j] = l[j]
      /\ l2[i] = rl
  BY <1>1, <1>3, <1>a, Update
<1>p. /\ pr2 \in [Program -> Proc(u)]
      /\ \A t \in Program : t # p => pr2[t] = pr[t]
      /\ pr2[p].pc = "wait" /\ pr2[p].sock = pr[p].sock /\ pr2[p].reg = pr[p].reg
      /\ pr2[p].k = k /\ pr2[p].req = pr[p].req
  BY <1>1, <1>4, Updated
<1> HIDE DEF l2, pr2
<1>6. /\ DOMAIN l2 = DOMAIN l
      /\ \A j \in DOMAIN l : /\ l2[j].who = l[j].who /\ l2[j].alive = l[j].alive
                             /\ l2[j].state = l[j].state /\ l2[j].module = l[j].module
                             /\ l2[j].client = l[j].client /\ l2[j].down = l[j].down
                             /\ j # i => l2[j].up = l[j].up
      /\ l2[i].up = <<msg>>
  BY <1>3, <1>5
<1>s. \A c : Served(l2, c) <=> Served(l, c)
  BY <1>6 DEF Served
<1>b. \A c : Held(l2, q, X, c) <=> Held(l, q, X, c)
  BY <1>s DEF Held
<1>d. /\ \A j \in DOMAIN l : l[j].state = "open" /\ l[j].client # 0 => l[j].client \in DOMAIN l /\ l[j].client # i
      /\ \A n \in DOMAIN q : q[n].client \in DOMAIN l /\ q[n].client # 0 /\ q[n].client # i
      /\ \A j \in DOMAIN l : j # 0 /\ l[j].who \in Program
  <2>1. /\ \A j \in DOMAIN l : l[j].state = "open" /\ l[j].client # 0 => l[j].client \in DOMAIN l
        /\ \A n \in DOMAIN q : q[n].client \in DOMAIN l /\ q[n].client # 0
        /\ \A j \in DOMAIN l : j # 0 /\ l[j].who \in Program
    BY <1>1, Clients, Linked DEF Good
  <2>2. /\ \A j \in DOMAIN l : l[j].state = "open" => l[j].client # i
        /\ \A n \in DOMAIN q : q[n].client # i
    BY <1>a DEF Held, Served, Queued
  <2> QED
    BY <2>1, <2>2
<1>c. \A m : \A c \in DOMAIN l : c # i /\ Matches(l, pr, c, m) => Matches(l2, pr2, c, m)
  BY <1>6, <1>p, <1>a, <1>d DEF Matches
<1>7. Typed(l2, con, q, pr2, u, X)
  <2>1. /\ \A t \in Client : t \in Program /\ pr[t].pc \in {"idle", "wait", "gone"}
        /\ \A s \in Server : s \in Program /\ pr[s].pc # "idle"
    BY DEF Good, Typed, Program
  <2>2. /\ \A t \in Client : pr2[t].pc \in {"idle", "wait", "gone"}
        /\ \A s \in Server : pr2[s].pc # "idle"
    BY <1>p, <1>a, <2>1 DEF Busy
  <2> QED
    BY <1>1, <1>5, <1>p, <2>2 DEF Typed
<1>8. Listed(l2, con)
  BY <1>6 DEF Good, Listed
<1>9. Plain(l2)
  BY <1>6, <1>a, <1>e DEF Good, Plain
<1>10. Services(l2, q, pr2, X)
  <2> SUFFICES ASSUME NEW j \in DOMAIN l, Service(l2, j)
               PROVE  ServiceOf(l2, q, pr2, X, j)
    BY <1>6 DEF Services
  <2>1. Service(l, j) /\ j # i
    BY <1>6, <1>a, <1>e DEF Service
  <2>2. ServiceOf(l, q, pr, X, j) /\ l[j].who \in Program
    BY <1>d, <2>1 DEF Good, Services
  <2> QED
    BY <1>6, <1>a, <1>b, <1>p, <1>d, <2>1, <2>2 DEF ServiceOf
<1>11. Ups(l2, pr2)
  <2> SUFFICES ASSUME NEW j \in DOMAIN l, l2[j].up # <<>>, NEW m, m = l2[j].up[1]
               PROVE  \/ /\ m.kind \in {"call", "down"} /\ l[j].module = None
                         /\ Matches(l2, pr2, j, m) /\ m.mod # None
                         /\ \A s \in Server : pr2[s].pc # "gone" => pr2[s].reg # j
                      \/ /\ m.kind = "register" /\ l[j].module = None /\ m.mod # None
                      \/ /\ m.kind = "answer" /\ l[j].module # None
                         /\ l[j].state = "open" => l[j].client # 0 /\ Matches(l2, pr2, l[j].client, m)
    BY <1>6, <1>a DEF Ups
  <2>r. \A s \in Server : pr2[s].pc # "gone" => pr[s].pc # "gone" /\ pr2[s].reg = pr[s].reg
    <3>1. \A s \in Server : s \in Program
      BY DEF Program
    <3> QED
      BY <1>p, <1>a, <3>1 DEF Busy
  <2>1. CASE j # i
    <3>1. \/ /\ m.kind \in {"call", "down"} /\ l[j].module = None
             /\ Matches(l, pr, j, m) /\ m.mod # None
             /\ \A s \in Server : pr[s].pc # "gone" => pr[s].reg # j
          \/ /\ m.kind = "register" /\ l[j].module = None /\ m.mod # None
          \/ /\ m.kind = "answer" /\ l[j].module # None
             /\ l[j].state = "open" => l[j].client # 0 /\ Matches(l, pr, l[j].client, m)
      <4>1. l[j].up # <<>> /\ m = l[j].up[1]
        BY <1>6, <2>1
      <4> QED
        BY <4>1 DEF Good, Ups
    <3>2. /\ Matches(l, pr, j, m) => Matches(l2, pr2, j, m)
          /\ l[j].state = "open" /\ l[j].client # 0 /\ Matches(l, pr, l[j].client, m)
                => Matches(l2, pr2, l[j].client, m)
      BY <1>c, <1>d, <2>1, SMTT(20)
    <3> QED
      BY <2>r, <3>1, <3>2
  <2>2. CASE j = i
    <3>1. m = msg /\ m.kind \in {"call", "down"} /\ m.mod # None
      BY <1>6, <1>e, <2>2
    <3>2. Matches(l2, pr2, i, m)
      BY <1>6, <1>a, <1>e, <1>p, <3>1 DEF Matches
    <3>3. \A s \in Server : pr2[s].pc # "gone" => pr2[s].reg # i
      BY <1>a, <2>r
    <3> QED
      BY <1>a, <2>2, <3>1, <3>2, <3>3
  <2> QED
    BY <2>1, <2>2
<1>12. Downs(l2, pr2)
  BY <1>6, <1>a, <1>c, <1>d DEF Good, Downs
<1>13. Holding(l2, q, X)
  <2>1. \A c \in Nat \ {0} : Held(l, q, X, c) => c # i
    BY <1>a
  <2> QED
    BY <1>6, <1>b, <1>s, <2>1 DEF Good, Holding
<1>14. Waits(l2, q, pr2)
  BY <1>c, <1>d DEF Good, Waits
<1>15. Callers(l2, q, pr2, X)
  <2> SUFFICES ASSUME NEW t \in Program, NEW c, c = pr2[t].sock
               PROVE  Caller(l2, q, pr2, X, t, c)
    BY DEF Callers
  <2>1. CASE t # p
    <3>1. Caller(l, q, pr, X, t, c)
      BY <1>p, <2>1 DEF Good, Callers
    <3> QED
      BY <1>6, <1>a, <1>b, <1>p, <2>1, <3>1 DEF Caller
  <2>2. CASE t = p
    <3>1. Caller(l, q, pr, X, p, i)
      BY <1>a DEF Good, Callers
    <3> QED
      BY <1>6, <1>a, <1>b, <1>p, <2>2, <3>1 DEF Caller
  <2> QED
    BY <2>1, <2>2
<1>16. Registers(l2, q, pr2, u)
  <2>1. \A m : NoCalls(l, q, m) /\ (kind = "call" => m # m0) => NoCalls(l2, q, m)
    BY <1>6, <1>e DEF NoCalls
  <2> SUFFICES ASSUME NEW s \in Server, NEW j, j = pr2[s].reg
               PROVE  Enrolls(l2, q, pr2, s, j, u.module[s])
    BY DEF Registers
  <2>2. Enrolls(l, q, pr, s, pr[s].reg, u.module[s]) /\ s \in Program
    BY DEF Good, Registers, Program
  <2>3. CASE s # p
    <3>1. pr[s].pc = "register" => pr[s].reg # i
      BY <1>a, <2>2, <2>3 DEF Enrolls
    <3>2. pr[s].pc = "register" => (kind = "call" => u.module[s] # m0)
      OBVIOUS
    <3> QED
      BY <1>6, <1>p, <2>1, <2>2, <2>3, <3>1, <3>2 DEF Enrolls
  <2>4. CASE s = p
    BY <1>6, <1>a, <1>p, <2>4 DEF Enrolls
  <2> QED
    BY <2>3, <2>4
<1>17. Serves(l2, pr2, u)
  <2> SUFFICES ASSUME NEW s \in Server, NEW j, j = pr2[s].reg
               PROVE  ServesOn(l2, pr2, s, j, u.module[s])
    BY DEF Serves
  <2>1. ServesOn(l, pr, s, pr[s].reg, u.module[s]) /\ s \in Program
    BY DEF Good, Serves, Program
  <2>2. CASE s # p
    <3>1. pr[s].pc \in {"loop"} \cup Busy => pr[s].reg # i
      BY <1>a, <2>1, <2>2 DEF ServesOn
    <3> QED
      BY <1>6, <1>c, <1>d, <1>p, <2>1, <2>2, <3>1 DEF ServesOn
  <2>3. CASE s = p
    <3>1. pr[s].reg # i
      BY <1>a, <2>3
    <3> QED
      BY <1>6, <1>a, <1>c, <1>d, <1>p, <2>1, <2>3, <3>1 DEF ServesOn, Busy
  <2> QED
    BY <2>2, <2>3
<1> QED
  BY <1>7, <1>8, <1>9, <1>10, <1>11, <1>12, <1>13, <1>14, <1>15, <1>16, <1>17 DEF Good

LEMMA Appended ==
  ASSUME NEW u, NEW l \in Seq(Link(u)), NEW r \in Link(u)
  PROVE  /\ Append(l, r) \in Seq(Link(u))
         /\ DOMAIN Append(l, r) = DOMAIN l \cup {Len(l) + 1}
         /\ Len(l) + 1 \notin DOMAIN l /\ Len(l) + 1 \in Nat \ {0}
         /\ Append(l, r)[Len(l) + 1] = r
         /\ \A j \in DOMAIN l : Append(l, r)[j] = l[j]
OBVIOUS

NewLink(p, up) == [who |-> p, alive |-> TRUE, state |-> "pending", module |-> None,
                   client |-> 0, up |-> up, down |-> <<>>]

(* A program connects.                                                      *)
LEMMA Connected ==
  ASSUME NEW l, NEW con, NEW q, NEW pr, NEW u, NEW X, Good(l, con, q, pr, u, X),
         NEW p \in Program, pr[p].sock = 0, pr[p].pc \in {"idle", "call"}
  PROVE  Good(Append(l, NewLink(p, <<>>)), con, q,
              [pr EXCEPT ![p] = [pr[p] EXCEPT !.sock = Len(l) + 1]], u, X)
<1> DEFINE new == Len(l) + 1
           rl == NewLink(p, <<>>)
           l2 == Append(l, rl)
           rp == [pr[p] EXCEPT !.sock = new]
           pr2 == [pr EXCEPT ![p] = rp]
<1>1. /\ l \in Seq(Link(u)) /\ con \in Seq(Nat) /\ q \in Seq(Entry(u))
      /\ pr \in [Program -> Proc(u)] /\ X \subseteq DOMAIN l
      /\ p \in Program /\ pr[p] \in Proc(u)
  BY DEF Good, Typed, Program
<1>a. pr[p].pc \in {"idle", "call"} /\ pr[p].sock = 0 /\ new \in Nat
  BY <1>1
<1>e. <<>> = <<>>
  OBVIOUS
<1>3. /\ rl \in Link(u) /\ rl.who = p /\ rl.alive = TRUE /\ rl.state = "pending" /\ rl.module = None
      /\ rl.client = 0 /\ rl.up = <<>> /\ rl.down = <<>>
  BY <1>1 DEF NewLink, Link, Box, State, Name
<1>4. /\ rp \in Proc(u) /\ rp.pc = pr[p].pc /\ rp.sock = new /\ rp.reg = pr[p].reg
      /\ rp.k = pr[p].k /\ rp.req = pr[p].req
  BY <1>1, <1>a DEF Proc
<1>5. /\ l2 \in Seq(Link(u)) /\ DOMAIN l2 = DOMAIN l \cup {new}
      /\ new \notin DOMAIN l /\ new \in Nat \ {0}
      /\ \A j \in DOMAIN l : l2[j] = l[j]
      /\ l2[new] = rl
  BY <1>1, <1>3, Appended
<1> SUFFICES Good(l2, con, q, pr2, u, X)
  OBVIOUS
<1> HIDE DEF rl, rp, new
<1>p. /\ pr2 \in [Program -> Proc(u)]
      /\ \A t \in Program : t # p => pr2[t] = pr[t]
      /\ pr2[p].pc = pr[p].pc /\ pr2[p].sock = new /\ pr2[p].reg = pr[p].reg
      /\ pr2[p].k = pr[p].k /\ pr2[p].req = pr[p].req
  BY <1>1, <1>4, Updated
<1> HIDE DEF l2, pr2
<1>6. /\ DOMAIN l2 = DOMAIN l \cup {new} /\ new \notin DOMAIN l /\ new \in Nat \ {0}
      /\ \A j \in DOMAIN l : /\ l2[j].who = l[j].who /\ l2[j].alive = l[j].alive
                             /\ l2[j].state = l[j].state /\ l2[j].module = l[j].module
                             /\ l2[j].client = l[j].client /\ l2[j].up = l[j].up
                             /\ l2[j].down = l[j].down
      /\ l2[new].who = p /\ l2[new].alive = TRUE /\ l2[new].state = "pending" /\ l2[new].module = None
      /\ l2[new].client = 0 /\ l2[new].up = <<>> /\ l2[new].down = <<>>
  BY <1>3, <1>5
<1>s. \A c : Served(l2, c) <=> Served(l, c)
  BY <1>6 DEF Served
<1>b. \A c : Held(l2, q, X, c) <=> Held(l, q, X, c)
  BY <1>s DEF Held
<1>h. ~Held(l, q, X, new)
  BY <1>6 DEF Good, Holding
<1>d. /\ \A j \in DOMAIN l : l[j].state = "open" /\ l[j].client # 0 => l[j].client \in DOMAIN l
      /\ \A n \in DOMAIN q : q[n].client \in DOMAIN l /\ q[n].client # 0
      /\ \A j \in DOMAIN l : j # 0 /\ l[j].who \in Program
  BY <1>1, Clients, Linked DEF Good
<1>c. \A m : \A c \in DOMAIN l : Matches(l, pr, c, m) => Matches(l2, pr2, c, m)
  BY <1>6, <1>p, <1>d DEF Matches
<1>7. Typed(l2, con, q, pr2, u, X)
  <2>1. /\ \A t \in Client : t \in Program /\ pr[t].pc \in {"idle", "wait", "gone"}
        /\ \A s \in Server : s \in Program /\ pr[s].pc # "idle"
    BY DEF Good, Typed, Program
  <2>2. /\ \A t \in Client : pr2[t].pc \in {"idle", "wait", "gone"}
        /\ \A s \in Server : pr2[s].pc # "idle"
    BY <1>p, <1>a, <2>1
  <2> QED
    BY <1>1, <1>5, <1>6, <1>p, <2>2 DEF Typed
<1>8. Listed(l2, con)
  BY <1>6 DEF Good, Listed
<1>9. Plain(l2)
  BY <1>6 DEF Good, Plain
<1>10. Services(l2, q, pr2, X)
  <2> SUFFICES ASSUME NEW j \in DOMAIN l2, Service(l2, j)
               PROVE  ServiceOf(l2, q, pr2, X, j)
    BY DEF Services
  <2>1. Service(l, j) /\ j \in DOMAIN l
    BY <1>6 DEF Service
  <2>2. ServiceOf(l, q, pr, X, j) /\ l[j].who \in Program
    BY <1>d, <2>1 DEF Good, Services
  <2> QED
    BY <1>6, <1>b, <1>p, <1>d, <2>1, <2>2 DEF ServiceOf
<1>11. Ups(l2, pr2)
  <2> SUFFICES ASSUME NEW j \in DOMAIN l, l[j].up # <<>>, NEW m, m = l[j].up[1]
               PROVE  \/ /\ m.kind \in {"call", "down"} /\ l[j].module = None
                         /\ Matches(l2, pr2, j, m) /\ m.mod # None
                         /\ \A s \in Server : pr2[s].pc # "gone" => pr2[s].reg # j
                      \/ /\ m.kind = "register" /\ l[j].module = None /\ m.mod # None
                      \/ /\ m.kind = "answer" /\ l[j].module # None
                         /\ l[j].state = "open" => l[j].client # 0 /\ Matches(l2, pr2, l[j].client, m)
    BY <1>6, <1>e DEF Ups
  <2>1. \/ /\ m.kind \in {"call", "down"} /\ l[j].module = None
           /\ Matches(l, pr, j, m) /\ m.mod # None
           /\ \A s \in Server : pr[s].pc # "gone" => pr[s].reg # j
        \/ /\ m.kind = "register" /\ l[j].module = None /\ m.mod # None
        \/ /\ m.kind = "answer" /\ l[j].module # None
           /\ l[j].state = "open" => l[j].client # 0 /\ Matches(l, pr, l[j].client, m)
    BY DEF Good, Ups
  <2>2. \A s \in Server : pr2[s].pc # "gone" =>
          pr[s].pc # "gone" /\ (pr2[s].reg = pr[s].reg \/ pr2[s].reg = new)
    <3>1. \A s \in Server : s \in Program
      BY DEF Program
    <3> QED
      BY <1>p, <1>a, <3>1
  <2>3. /\ Matches(l, pr, j, m) => Matches(l2, pr2, j, m)
        /\ l[j].state = "open" /\ l[j].client # 0 /\ Matches(l, pr, l[j].client, m)
              => Matches(l2, pr2, l[j].client, m)
    BY <1>c, <1>d
  <2>4. j # new
    BY <1>6
  <2> QED
    BY <2>1, <2>2, <2>3, <2>4
<1>12. Downs(l2, pr2)
  BY <1>6, <1>c, <1>d DEF Good, Downs
<1>13. Holding(l2, q, X)
  <2>1. \A c \in X : c \in DOMAIN l
    BY <1>1
  <2> QED
    BY <1>6, <1>b, <1>s, <2>1 DEF Good, Holding
<1>14. Waits(l2, q, pr2)
  BY <1>c, <1>d DEF Good, Waits
<1>15. Callers(l2, q, pr2, X)
  <2> SUFFICES ASSUME NEW t \in Program, NEW c, c = pr2[t].sock
               PROVE  Caller(l2, q, pr2, X, t, c)
    BY DEF Callers
  <2>1. CASE t # p
    <3>1. Caller(l, q, pr, X, t, c)
      BY <1>p, <2>1 DEF Good, Callers
    <3> QED
      BY <1>6, <1>b, <1>p, <2>1, <3>1 DEF Caller
  <2>2. CASE t = p
    <3>1. Caller(l, q, pr, X, p, pr[p].sock)
      BY <1>1 DEF Good, Callers
    <3> QED
      BY <1>6, <1>a, <1>b, <1>h, <1>p, <2>2, <3>1 DEF Caller
  <2> QED
    BY <2>1, <2>2
<1>16. Registers(l2, q, pr2, u)
  <2>1. \A m : NoCalls(l, q, m) => NoCalls(l2, q, m)
    BY <1>6, <1>e DEF NoCalls
  <2> SUFFICES ASSUME NEW s \in Server, NEW j, j = pr2[s].reg
               PROVE  Enrolls(l2, q, pr2, s, j, u.module[s])
    BY DEF Registers
  <2>2. Enrolls(l, q, pr, s, pr[s].reg, u.module[s]) /\ s \in Program
    BY DEF Good, Registers, Program
  <2>3. CASE s # p
    BY <1>6, <1>p, <2>1, <2>2, <2>3 DEF Enrolls
  <2>4. CASE s = p
    BY <1>6, <1>a, <1>p, <2>1, <2>2, <2>4 DEF Enrolls
  <2> QED
    BY <2>3, <2>4
<1>17. Serves(l2, pr2, u)
  <2> SUFFICES ASSUME NEW s \in Server, NEW j, j = pr2[s].reg
               PROVE  ServesOn(l2, pr2, s, j, u.module[s])
    BY DEF Serves
  <2>1. ServesOn(l, pr, s, pr[s].reg, u.module[s]) /\ s \in Program
    BY DEF Good, Serves, Program
  <2>2. CASE s # p
    BY <1>6, <1>c, <1>d, <1>p, <2>1, <2>2 DEF ServesOn
  <2>3. CASE s = p
    BY <1>6, <1>a, <1>c, <1>d, <1>p, <2>1, <2>3 DEF ServesOn, Busy
  <2> QED
    BY <2>2, <2>3
<1> QED
  BY <1>7, <1>8, <1>9, <1>10, <1>11, <1>12, <1>13, <1>14, <1>15, <1>16, <1>17 DEF Good

(* A server connects and registers its module, which nobody calls.          *)
LEMMA Enrolling ==
  ASSUME NEW l, NEW con, NEW q, NEW pr, NEW u, NEW X, Good(l, con, q, pr, u, X),
         NEW p \in Server, pr[p].pc = "start", NoCalls(l, q, u.module[p])
  PROVE  Good(Append(l, NewLink(p, <<Register(u.module[p])>>)), con, q,
              [pr EXCEPT ![p] = [pr[p] EXCEPT !.pc = "register", !.reg = Len(l) + 1]], u, X)
<1> DEFINE new == Len(l) + 1
           m0 == u.module[p]
           msg == Register(m0)
           rl == NewLink(p, <<msg>>)
           l2 == Append(l, rl)
           rp == [pr[p] EXCEPT !.pc = "register", !.reg = new]
           pr2 == [pr EXCEPT ![p] = rp]
<1>1. /\ l \in Seq(Link(u)) /\ con \in Seq(Nat) /\ q \in Seq(Entry(u))
      /\ pr \in [Program -> Proc(u)] /\ X \subseteq DOMAIN l
      /\ p \in Program /\ pr[p] \in Proc(u)
  BY DEF Good, Typed, Program
<1>a. /\ pr[p].pc = "start" /\ "register" \in Phase /\ new \in Nat
      /\ p \in Server /\ p \notin Client
      /\ pr[p].reg = 0 /\ pr[p].req = None /\ m0 # None /\ NoCalls(l, q, m0)
  <2>1. Enrolls(l, q, pr, p, pr[p].reg, m0)
    BY DEF Good, Registers
  <2> QED
    BY <1>1, <2>1, ProgramAssumption DEF Phase, Enrolls
<1>e. /\ <<msg>> \in Box(u) /\ <<msg>> # <<>> /\ <<msg>>[1] = msg
      /\ msg.kind = "register" /\ msg.mod = m0 /\ msg = Register(m0)
  <2>1. m0 \in Name(u)
    BY <1>a DEF Name, ModulesOf
  <2>2. msg \in Message(u) /\ msg.kind = "register" /\ msg.mod = m0
    BY <2>1 DEF Register, Message, Kind
  <2>3. msg = Register(m0)
    OBVIOUS
  <2> HIDE DEF msg
  <2> QED
    BY <2>2, <2>3, OneMessage DEF Box
<1> HIDE DEF msg
<1>3. /\ rl \in Link(u) /\ rl.who = p /\ rl.alive = TRUE /\ rl.state = "pending" /\ rl.module = None
      /\ rl.client = 0 /\ rl.up = <<msg>> /\ rl.down = <<>>
  BY <1>1, <1>e DEF NewLink, Link, Box, State, Name
<1>4. /\ rp \in Proc(u) /\ rp.pc = "register" /\ rp.sock = pr[p].sock /\ rp.reg = new
      /\ rp.k = pr[p].k /\ rp.req = pr[p].req
  BY <1>1, <1>a DEF Proc
<1>5. /\ l2 \in Seq(Link(u)) /\ DOMAIN l2 = DOMAIN l \cup {new}
      /\ new \notin DOMAIN l /\ new \in Nat \ {0}
      /\ \A j \in DOMAIN l : l2[j] = l[j]
      /\ l2[new] = rl
  BY <1>1, <1>3, Appended
<1> SUFFICES Good(l2, con, q, pr2, u, X)
  BY DEF msg
<1> HIDE DEF rl, rp, new, m0
<1>p. /\ pr2 \in [Program -> Proc(u)]
      /\ \A t \in Program : t # p => pr2[t] = pr[t]
      /\ pr2[p].pc = "register" /\ pr2[p].sock = pr[p].sock /\ pr2[p].reg = new
      /\ pr2[p].k = pr[p].k /\ pr2[p].req = pr[p].req
  BY <1>1, <1>4, Updated
<1> HIDE DEF l2, pr2
<1>6. /\ DOMAIN l2 = DOMAIN l \cup {new} /\ new \notin DOMAIN l /\ new \in Nat \ {0}
      /\ \A j \in DOMAIN l : /\ l2[j].who = l[j].who /\ l2[j].alive = l[j].alive
                             /\ l2[j].state = l[j].state /\ l2[j].module = l[j].module
                             /\ l2[j].client = l[j].client /\ l2[j].up = l[j].up
                             /\ l2[j].down = l[j].down
      /\ l2[new].who = p /\ l2[new].alive = TRUE /\ l2[new].state = "pending" /\ l2[new].module = None
      /\ l2[new].client = 0 /\ l2[new].up = <<msg>> /\ l2[new].down = <<>>
  BY <1>3, <1>5
<1>s. \A c : Served(l2, c) <=> Served(l, c)
  BY <1>6 DEF Served
<1>b. \A c : Held(l2, q, X, c) <=> Held(l, q, X, c)
  BY <1>s DEF Held
<1>h. ~Held(l, q, X, new)
  BY <1>6 DEF Good, Holding
<1>d. /\ \A j \in DOMAIN l : l[j].state = "open" /\ l[j].client # 0 => l[j].client \in DOMAIN l
      /\ \A n \in DOMAIN q : q[n].client \in DOMAIN l /\ q[n].client # 0
      /\ \A j \in DOMAIN l : j # 0 /\ l[j].who \in Program
  BY <1>1, Clients, Linked DEF Good
<1>c. \A m : \A c \in DOMAIN l : Matches(l, pr, c, m) => Matches(l2, pr2, c, m)
  BY <1>6, <1>p, <1>d DEF Matches
<1>7. Typed(l2, con, q, pr2, u, X)
  <2>1. /\ \A t \in Client : t \in Program /\ pr[t].pc \in {"idle", "wait", "gone"}
        /\ \A s \in Server : s \in Program /\ pr[s].pc # "idle"
    BY DEF Good, Typed, Program
  <2>2. /\ \A t \in Client : pr2[t].pc \in {"idle", "wait", "gone"}
        /\ \A s \in Server : pr2[s].pc # "idle"
    BY <1>p, <1>a, <2>1
  <2> QED
    BY <1>1, <1>5, <1>6, <1>p, <2>2 DEF Typed
<1>8. Listed(l2, con)
  BY <1>6 DEF Good, Listed
<1>9. Plain(l2)
  BY <1>6 DEF Good, Plain
<1>10. Services(l2, q, pr2, X)
  <2> SUFFICES ASSUME NEW j \in DOMAIN l2, Service(l2, j)
               PROVE  ServiceOf(l2, q, pr2, X, j)
    BY DEF Services
  <2>1. CASE j \in DOMAIN l
    <3>1. Service(l, j)
      BY <1>6, <2>1 DEF Service
    <3>2. ServiceOf(l, q, pr, X, j) /\ l[j].who \in Program /\ j # 0
      BY <1>d, <2>1, <3>1 DEF Good, Services
    <3> QED
      BY <1>6, <1>a, <1>b, <1>p, <2>1, <3>2 DEF ServiceOf
  <2>2. CASE j = new
    <3>1. \A t \in Program : pr[t].sock # new
      <4> SUFFICES ASSUME NEW t \in Program PROVE pr[t].sock # new
        OBVIOUS
      <4>1. Caller(l, q, pr, X, t, pr[t].sock)
        BY DEF Good, Callers
      <4> QED
        BY <1>6, <4>1 DEF Caller
    <3>2. \A t \in Program : pr2[t].sock # new
      BY <1>p, <3>1
    <3> QED
      BY <1>6, <1>a, <1>b, <1>h, <1>p, <2>2, <3>2 DEF ServiceOf
  <2> QED
    BY <1>6, <2>1, <2>2
<1>11. Ups(l2, pr2)
  <2> DEFINE U(j, m, lx, px) ==
               \/ /\ m.kind \in {"call", "down"} /\ lx[j].module = None
                  /\ Matches(lx, px, j, m) /\ m.mod # None
                  /\ \A s \in Server : px[s].pc # "gone" => px[s].reg # j
               \/ /\ m.kind = "register" /\ lx[j].module = None /\ m.mod # None
               \/ /\ m.kind = "answer" /\ lx[j].module # None
                  /\ lx[j].state = "open" => lx[j].client # 0 /\ Matches(lx, px, lx[j].client, m)
  <2> SUFFICES ASSUME NEW j \in DOMAIN l2, l2[j].up # <<>>
               PROVE  U(j, l2[j].up[1], l2, pr2)
    BY DEF Ups
  <2>1. CASE j \in DOMAIN l
    <3>m. PICK m : m = l[j].up[1] /\ m = l2[j].up[1] /\ l[j].up # <<>>
      BY <1>6, <2>1
    <3>1. U(j, m, l, pr)
      BY <2>1, <3>m DEF Good, Ups
    <3>2. \A s \in Server : pr2[s].pc # "gone" =>
            pr[s].pc # "gone" /\ (pr2[s].reg = pr[s].reg \/ pr2[s].reg = new)
      <4>1. \A s \in Server : s \in Program
        BY DEF Program
      <4> QED
        BY <1>p, <1>a, <4>1
    <3>3. /\ Matches(l, pr, j, m) => Matches(l2, pr2, j, m)
          /\ l[j].state = "open" /\ l[j].client # 0 /\ Matches(l, pr, l[j].client, m)
                => Matches(l2, pr2, l[j].client, m)
      BY <1>c, <1>d, <2>1
    <3>4. j # new
      BY <1>6, <2>1
    <3>5. /\ l2[j].module = l[j].module /\ l2[j].state = l[j].state /\ l2[j].client = l[j].client
      BY <1>6, <2>1
    <3>6. U(j, m, l2, pr2)
      BY <3>1, <3>2, <3>3, <3>4, <3>5
    <3> QED
      BY <3>m, <3>6
  <2>2. CASE j = new
    BY <1>6, <1>a, <1>e, <2>2
  <2> QED
    BY <1>6, <2>1, <2>2
<1>12. Downs(l2, pr2)
  BY <1>6, <1>c, <1>d DEF Good, Downs
<1>13. Holding(l2, q, X)
  <2>1. \A c \in X : c \in DOMAIN l
    BY <1>1
  <2> QED
    BY <1>6, <1>b, <1>s, <2>1 DEF Good, Holding
<1>14. Waits(l2, q, pr2)
  BY <1>c, <1>d DEF Good, Waits
<1>15. Callers(l2, q, pr2, X)
  <2> SUFFICES ASSUME NEW t \in Program, NEW c, c = pr2[t].sock
               PROVE  Caller(l2, q, pr2, X, t, c)
    BY DEF Callers
  <2>1. CASE t # p
    <3>1. Caller(l, q, pr, X, t, c)
      BY <1>p, <2>1 DEF Good, Callers
    <3> QED
      BY <1>6, <1>b, <1>p, <2>1, <3>1 DEF Caller
  <2>2. CASE t = p
    <3>1. Caller(l, q, pr, X, p, pr[p].sock)
      BY <1>1 DEF Good, Callers
    <3> QED
      BY <1>6, <1>a, <1>b, <1>h, <1>p, <2>2, <3>1 DEF Caller
  <2> QED
    BY <2>1, <2>2
<1>16. Registers(l2, q, pr2, u)
  <2>1. \A m : NoCalls(l, q, m) => NoCalls(l2, q, m)
    BY <1>6, <1>e DEF NoCalls
  <2> SUFFICES ASSUME NEW s \in Server, NEW j, j = pr2[s].reg
               PROVE  Enrolls(l2, q, pr2, s, j, u.module[s])
    BY DEF Registers
  <2>2. Enrolls(l, q, pr, s, pr[s].reg, u.module[s]) /\ s \in Program
    BY DEF Good, Registers, Program
  <2>3. CASE s # p
    BY <1>6, <1>p, <2>1, <2>2, <2>3 DEF Enrolls
  <2>4. CASE s = p
    BY <1>6, <1>a, <1>e, <1>p, <2>1, <2>4 DEF Enrolls, m0
  <2> QED
    BY <2>3, <2>4
<1>17. Serves(l2, pr2, u)
  <2> SUFFICES ASSUME NEW s \in Server, NEW j, j = pr2[s].reg
               PROVE  ServesOn(l2, pr2, s, j, u.module[s])
    BY DEF Serves
  <2>1. ServesOn(l, pr, s, pr[s].reg, u.module[s]) /\ s \in Program
    BY DEF Good, Serves, Program
  <2>2. CASE s # p
    BY <1>6, <1>c, <1>d, <1>p, <2>1, <2>2 DEF ServesOn
  <2>3. CASE s = p
    BY <1>6, <1>a, <1>c, <1>d, <1>p, <2>1, <2>3 DEF ServesOn, Busy
  <2> QED
    BY <2>2, <2>3
<1> QED
  BY <1>7, <1>8, <1>9, <1>10, <1>11, <1>12, <1>13, <1>14, <1>15, <1>16, <1>17 DEF Good

Cut(l, p) ==
  [j \in DOMAIN l |-> IF l[j].who = p THEN [l[j] EXCEPT !.alive = FALSE, !.down = <<>>] ELSE l[j]]

(* A program goes: its connections are closed.                              *)
LEMMA Left ==
  ASSUME NEW l, NEW con, NEW q, NEW pr, NEW u, NEW X, Good(l, con, q, pr, u, X),
         NEW p \in Program
  PROVE  Good(Cut(l, p), con, q, [pr EXCEPT ![p] = [pr[p] EXCEPT !.pc = "gone", !.req = None]], u, X)
<1> DEFINE l2 == Cut(l, p)
           rp == [pr[p] EXCEPT !.pc = "gone", !.req = None]
           pr2 == [pr EXCEPT ![p] = rp]
<1>1. /\ l \in Seq(Link(u)) /\ con \in Seq(Nat) /\ q \in Seq(Entry(u))
      /\ pr \in [Program -> Proc(u)] /\ X \subseteq DOMAIN l
      /\ p \in Program /\ pr[p] \in Proc(u)
  BY DEF Good, Typed, Program
<1>a. "gone" \in Phase
  BY DEF Phase
<1>4. /\ rp \in Proc(u) /\ rp.pc = "gone" /\ rp.sock = pr[p].sock /\ rp.reg = pr[p].reg
      /\ rp.k = pr[p].k /\ rp.req = None
  BY <1>1, <1>a DEF Proc
<1>6. /\ DOMAIN l2 = DOMAIN l
      /\ \A j \in DOMAIN l : /\ l2[j].who = l[j].who /\ l2[j].state = l[j].state
                             /\ l2[j].module = l[j].module /\ l2[j].client = l[j].client
                             /\ l2[j].up = l[j].up
                             /\ l[j].who # p => l2[j].alive = l[j].alive /\ l2[j].down = l[j].down
                             /\ l[j].who = p => l2[j].alive = FALSE /\ l2[j].down = <<>>
      /\ \A j \in DOMAIN l : l2[j] \in Link(u)
  <2>1. DOMAIN l2 = DOMAIN l
    BY DEF Cut
  <2>2. ASSUME NEW j \in DOMAIN l
        PROVE  /\ l2[j].who = l[j].who /\ l2[j].state = l[j].state
               /\ l2[j].module = l[j].module /\ l2[j].client = l[j].client
               /\ l2[j].up = l[j].up
               /\ l[j].who # p => l2[j].alive = l[j].alive /\ l2[j].down = l[j].down
               /\ l[j].who = p => l2[j].alive = FALSE /\ l2[j].down = <<>>
               /\ l2[j] \in Link(u)
    <3>1. l[j] \in Link(u)
      BY <1>1, Linked
    <3>2. l2[j] = IF l[j].who = p THEN [l[j] EXCEPT !.alive = FALSE, !.down = <<>>] ELSE l[j]
      BY DEF Cut
    <3> HIDE DEF l2
    <3> QED
      BY <3>1, <3>2 DEF Link, Box
  <2> QED
    BY <2>1, <2>2
<1>5. l2 \in Seq(Link(u))
  <2>1. DOMAIN l = 1..Len(l) /\ Len(l) \in Nat
    BY <1>1, Linked
  <2>2. l2 = [j \in 1..Len(l) |-> l2[j]]
    BY <2>1 DEF Cut
  <2> HIDE DEF l2
  <2> QED
    BY <1>6, <2>1, <2>2
<1> SUFFICES Good(l2, con, q, pr2, u, X)
  OBVIOUS
<1> HIDE DEF rp
<1>p. /\ pr2 \in [Program -> Proc(u)]
      /\ \A t \in Program : t # p => pr2[t] = pr[t]
      /\ pr2[p].pc = "gone" /\ pr2[p].sock = pr[p].sock /\ pr2[p].reg = pr[p].reg
      /\ pr2[p].k = pr[p].k /\ pr2[p].req = None
  BY <1>1, <1>4, Updated
<1> HIDE DEF l2, pr2
<1>s. \A c : Served(l2, c) <=> Served(l, c)
  BY <1>6 DEF Served
<1>b. \A c : Held(l2, q, X, c) <=> Held(l, q, X, c)
  BY <1>s DEF Held
<1>d. /\ \A j \in DOMAIN l : l[j].state = "open" /\ l[j].client # 0 => l[j].client \in DOMAIN l
      /\ \A n \in DOMAIN q : q[n].client \in DOMAIN l /\ q[n].client # 0
      /\ \A j \in DOMAIN l : j # 0 /\ l[j].who \in Program
  BY <1>1, Clients, Linked DEF Good
<1>c. \A m : \A c \in DOMAIN l : Matches(l, pr, c, m) => Matches(l2, pr2, c, m)
  BY <1>6, <1>p, <1>d DEF Matches
<1>7. Typed(l2, con, q, pr2, u, X)
  <2>1. /\ \A t \in Client : t \in Program /\ pr[t].pc \in {"idle", "wait", "gone"}
        /\ \A s \in Server : s \in Program /\ pr[s].pc # "idle"
    BY DEF Good, Typed, Program
  <2>2. /\ \A t \in Client : pr2[t].pc \in {"idle", "wait", "gone"}
        /\ \A s \in Server : pr2[s].pc # "idle"
    BY <1>p, <1>a, <2>1 DEF Busy
  <2> QED
    BY <1>1, <1>5, <1>6, <1>p, <2>2 DEF Typed
<1>8. Listed(l2, con)
  BY <1>6 DEF Good, Listed
<1>9. Plain(l2)
  BY <1>6, <1>a DEF Good, Plain
<1>10. Services(l2, q, pr2, X)
  <2> SUFFICES ASSUME NEW j \in DOMAIN l, Service(l2, j)
               PROVE  ServiceOf(l2, q, pr2, X, j)
    BY <1>6 DEF Services
  <2>1. Service(l, j)
    BY <1>6, <1>a DEF Service
  <2>2. ServiceOf(l, q, pr, X, j) /\ l[j].who \in Program
    BY <1>d, <2>1 DEF Good, Services
  <2> QED
    BY <1>6, <1>a, <1>b, <1>p, <1>d, <2>1, <2>2 DEF ServiceOf
<1>11. Ups(l2, pr2)
  <2> SUFFICES ASSUME NEW j \in DOMAIN l, l[j].up # <<>>, NEW m, m = l[j].up[1]
               PROVE  \/ /\ m.kind \in {"call", "down"} /\ l[j].module = None
                         /\ Matches(l2, pr2, j, m) /\ m.mod # None
                         /\ \A s \in Server : pr2[s].pc # "gone" => pr2[s].reg # j
                      \/ /\ m.kind = "register" /\ l[j].module = None /\ m.mod # None
                      \/ /\ m.kind = "answer" /\ l[j].module # None
                         /\ l[j].state = "open" => l[j].client # 0 /\ Matches(l2, pr2, l[j].client, m)
    BY <1>6, <1>a DEF Ups
  <2>1. \/ /\ m.kind \in {"call", "down"} /\ l[j].module = None
           /\ Matches(l, pr, j, m) /\ m.mod # None
           /\ \A s \in Server : pr[s].pc # "gone" => pr[s].reg # j
        \/ /\ m.kind = "register" /\ l[j].module = None /\ m.mod # None
        \/ /\ m.kind = "answer" /\ l[j].module # None
           /\ l[j].state = "open" => l[j].client # 0 /\ Matches(l, pr, l[j].client, m)
    BY DEF Good, Ups
  <2>2. \A s \in Server : pr2[s].pc # "gone" => pr[s].pc # "gone" /\ pr2[s].reg = pr[s].reg
    <3>1. \A s \in Server : s \in Program
      BY DEF Program
    <3> QED
      BY <1>p, <1>a, <3>1 DEF Busy
  <2>3. /\ Matches(l, pr, j, m) => Matches(l2, pr2, j, m)
        /\ l[j].state = "open" /\ l[j].client # 0 /\ Matches(l, pr, l[j].client, m)
              => Matches(l2, pr2, l[j].client, m)
    BY <1>c, <1>d
  <2> QED
    BY <2>1, <2>2, <2>3
<1>12. Downs(l2, pr2)
  BY <1>6, <1>a, <1>c, <1>d DEF Good, Downs
<1>13. Holding(l2, q, X)
  BY <1>6, <1>a, <1>b, <1>s DEF Good, Holding
<1>14. Waits(l2, q, pr2)
  BY <1>c, <1>d DEF Good, Waits
<1>15. Callers(l2, q, pr2, X)
  <2> SUFFICES ASSUME NEW t \in Program, NEW c, c = pr2[t].sock
               PROVE  Caller(l2, q, pr2, X, t, c)
    BY DEF Callers
  <2>1. Caller(l, q, pr, X, t, c)
    BY <1>p DEF Good, Callers
  <2>2. CASE t # p
    BY <1>6, <1>b, <1>p, <2>1, <2>2 DEF Caller
  <2>3. CASE t = p
    BY <1>6, <1>b, <1>p, <2>1, <2>3 DEF Caller
  <2> QED
    BY <2>2, <2>3
<1>16. Registers(l2, q, pr2, u)
  <2>1. \A m : NoCalls(l, q, m) => NoCalls(l2, q, m)
    BY <1>6, <1>a DEF NoCalls
  <2> SUFFICES ASSUME NEW s \in Server, NEW j, j = pr2[s].reg
               PROVE  Enrolls(l2, q, pr2, s, j, u.module[s])
    BY DEF Registers
  <2>2. Enrolls(l, q, pr, s, pr[s].reg, u.module[s]) /\ s \in Program
    BY DEF Good, Registers, Program
  <2>3. CASE s # p
    BY <1>6, <1>a, <1>p, <2>1, <2>2, <2>3 DEF Enrolls
  <2>4. CASE s = p
    BY <1>6, <1>a, <1>p, <2>1, <2>2, <2>4 DEF Enrolls, Busy
  <2> QED
    BY <2>3, <2>4
<1>17. Serves(l2, pr2, u)
  <2> SUFFICES ASSUME NEW s \in Server, NEW j, j = pr2[s].reg
               PROVE  ServesOn(l2, pr2, s, j, u.module[s])
    BY DEF Serves
  <2>1. ServesOn(l, pr, s, pr[s].reg, u.module[s]) /\ s \in Program
    BY DEF Good, Serves, Program
  <2>2. CASE s # p
    BY <1>6, <1>a, <1>c, <1>d, <1>p, <2>1, <2>2 DEF ServesOn
  <2>3. CASE s = p
    BY <1>6, <1>a, <1>c, <1>d, <1>p, <2>1, <2>3 DEF ServesOn, Busy
  <2> QED
    BY <2>2, <2>3
<1> QED
  BY <1>7, <1>8, <1>9, <1>10, <1>11, <1>12, <1>13, <1>14, <1>15, <1>16, <1>17 DEF Good

-----------------------------------------------------------------------------
(* The steps of the programs change the links and the program.              *)

LEMMA Kept ==
  ASSUME NEW u, NEW w \in Wrap(u), NEW l, NEW pr, NEW X, Good(l, w.con, w.queue, pr, u, X)
  PROVE  WGood([w EXCEPT !.link = l], pr, u, X)
<1>1. l \in Seq(Link(u)) /\ w.con \in Seq(Nat) /\ w.queue \in Seq(Entry(u))
  BY DEF Good, Typed
<1>2. [w EXCEPT !.link = l] = [link |-> l, con |-> w.con, queue |-> w.queue]
  BY SMTT(20) DEF Wrap
<1> QED
  BY <1>1, <1>2 DEF WGood, Wrap

LEMMA Twice ==
  ASSUME NEW S, NEW f, DOMAIN f = S, NEW p \in S, NEW a, NEW b
  PROVE  [[f EXCEPT ![p] = a] EXCEPT ![p] = b] = [f EXCEPT ![p] = b]
OBVIOUS

LEMMA Procs ==
  ASSUME NEW u, NEW pr \in [Program -> Proc(u)], NEW p \in Program, NEW a, NEW b, NEW c
  PROVE  /\ [pr EXCEPT ![p].pc = a] = [pr EXCEPT ![p] = [pr[p] EXCEPT !.pc = a]]
         /\ [pr EXCEPT ![p].pc = a, ![p].sock = b] = [pr EXCEPT ![p] = [pr[p] EXCEPT !.pc = a, !.sock = b]]
         /\ [pr EXCEPT ![p].pc = a, ![p].reg = b] = [pr EXCEPT ![p] = [pr[p] EXCEPT !.pc = a, !.reg = b]]
         /\ [pr EXCEPT ![p].pc = a, ![p].req = b] = [pr EXCEPT ![p] = [pr[p] EXCEPT !.pc = a, !.req = b]]
         /\ [pr EXCEPT ![p].pc = a, ![p].sock = b, ![p].k = c]
              = [pr EXCEPT ![p] = [pr[p] EXCEPT !.pc = a, !.sock = b, !.k = c]]
<1> DEFINE r == pr[p]
           r1 == [r EXCEPT !.pc = a]
           r2 == [r1 EXCEPT !.sock = b]
           f1 == [pr EXCEPT ![p] = r1]
           f2 == [pr EXCEPT ![p] = r2]
<1>1. [pr EXCEPT ![p].pc = a] = f1
  OBVIOUS
<1>2. f1[p] = r1 /\ DOMAIN f1 = Program /\ f2[p] = r2 /\ DOMAIN f2 = Program /\ DOMAIN pr = Program
  OBVIOUS
<1> HIDE DEF f1, f2, r1, r2
<1>4. [f1 EXCEPT ![p].sock = b] = f2
  <2>1. [f1 EXCEPT ![p].sock = b] = [f1 EXCEPT ![p] = r2]
    BY <1>2 DEF r2
  <2> QED
    BY <1>2, <2>1, Twice DEF f1, f2
<1>5. [f2 EXCEPT ![p].k = c] = [pr EXCEPT ![p] = [r2 EXCEPT !.k = c]]
  <2>1. [f2 EXCEPT ![p].k = c] = [f2 EXCEPT ![p] = [r2 EXCEPT !.k = c]]
    BY <1>2
  <2> QED
    BY <1>2, <2>1, Twice DEF f2
<1>6. [f1 EXCEPT ![p].reg = b] = [pr EXCEPT ![p] = [r1 EXCEPT !.reg = b]]
  <2>1. [f1 EXCEPT ![p].reg = b] = [f1 EXCEPT ![p] = [r1 EXCEPT !.reg = b]]
    BY <1>2
  <2> QED
    BY <1>2, <2>1, Twice DEF f1
<1>7. [f1 EXCEPT ![p].req = b] = [pr EXCEPT ![p] = [r1 EXCEPT !.req = b]]
  <2>1. [f1 EXCEPT ![p].req = b] = [f1 EXCEPT ![p] = [r1 EXCEPT !.req = b]]
    BY <1>2
  <2> QED
    BY <1>2, <2>1, Twice DEF f1
<1> QED
  BY <1>1, <1>4, <1>5, <1>6, <1>7 DEF f1, f2, r1, r2

LEMMA LastReplaced ==
  ASSUME NEW S, NEW s \in Seq(S), NEW a, NEW b
  PROVE  [Append(s, a) EXCEPT ![Len(s) + 1] = b] = Append(s, b)
<1> DEFINE T == S \cup {a, b}
           n == Len(s) + 1
           f == [Append(s, a) EXCEPT ![n] = b]
           g == Append(s, b)
<1>1. s \in Seq(T) /\ a \in T /\ b \in T
  OBVIOUS
<1> HIDE DEF T
<1>2. Append(s, a) \in Seq(T) /\ g \in Seq(T) /\ n \in Nat
  BY <1>1
<1>3. /\ Len(g) = n /\ g[n] = b /\ \A i \in 1..Len(s) : g[i] = s[i]
      /\ DOMAIN Append(s, a) = 1..n /\ \A i \in 1..Len(s) : Append(s, a)[i] = s[i]
  BY <1>1, AppendProperties
<1> DEFINE h == Append(s, a)
<1>4. n \in 1..n /\ \A i \in 1..n : i = n \/ i \in 1..Len(s)
  BY <1>1
<1>5. f \in Seq(T) /\ Len(f) = n /\ f[n] = b /\ \A i \in 1..n : i # n => f[i] = h[i]
  <2>1. h \in Seq(T) /\ Len(h) = n /\ DOMAIN h = 1..n
    BY <1>1, <1>2, <1>3, AppendProperties
  <2> HIDE DEF h, n
  <2>2. [h EXCEPT ![n] = b] \in Seq(T) /\ Len([h EXCEPT ![n] = b]) = n
    BY <1>1, <1>4, <2>1, ExceptSeq
  <2>3. [h EXCEPT ![n] = b][n] = b /\ \A i \in 1..n : i # n => [h EXCEPT ![n] = b][i] = h[i]
    BY <1>4, <2>1
  <2> QED
    BY <2>2, <2>3 DEF h
<1> HIDE DEF f, g, n
<1>6. f = g
  <2>1. \A i \in 1..Len(f) : f[i] = g[i]
    BY <1>3, <1>4, <1>5
  <2> QED
    BY <1>2, <1>3, <1>5, <2>1, SeqEqual
<1> QED
  BY <1>6 DEF f, g, n

LEMMA NewLinks ==
  ASSUME NEW p, NEW a, NEW b
  PROVE  [NewLink(p, a) EXCEPT !.up = b] = NewLink(p, b)
<1> DEFINE D == {"who", "alive", "state", "module", "client", "up", "down"}
           f == [NewLink(p, a) EXCEPT !.up = b]
           g == NewLink(p, b)
<1>1. /\ g = [x \in D |-> g[x]] /\ g.who = p /\ g.alive = TRUE /\ g.state = "pending"
      /\ g.module = None /\ g.client = 0 /\ g.up = b /\ g.down = <<>>
  BY Zenon DEF NewLink
<1>2. f = [x \in D |-> f[x]]
  BY DEF NewLink
<1>3. /\ f.who = p /\ f.alive = TRUE /\ f.state = "pending"
      /\ f.module = None /\ f.client = 0 /\ f.up = b /\ f.down = <<>>
  BY DEF NewLink
<1> HIDE DEF f, g
<1>4. \A x \in D : f[x] = g[x]
  BY <1>1, <1>3
<1> HIDE DEF D
<1>5. f = g
  BY <1>1, <1>2, <1>4
<1> QED
  BY <1>5 DEF f, g

CutOff(l, I) ==
  [i \in DOMAIN l |-> IF i \in I THEN [l[i] EXCEPT !.alive = FALSE, !.down = <<>>] ELSE l[i]]

LEMMA CutOffs ==
  ASSUME NEW u, NEW w \in Wrap(u)
  PROVE  /\ \A I : Close(w, I) = [w EXCEPT !.link = CutOff(w.link, I)]
         /\ \A i \in DOMAIN w.link : CutOff(w.link, {i})
              = [w.link EXCEPT ![i] = [w.link[i] EXCEPT !.alive = FALSE, !.down = <<>>]]
         /\ CutOff(w.link, {0}) = w.link
         /\ \A p : CutOff(w.link, {i \in DOMAIN w.link : w.link[i].who = p}) = Cut(w.link, p)
<1>1. w.link \in Seq(Link(u))
  BY DEF Wrap
<1>2. w.link = [i \in DOMAIN w.link |-> w.link[i]] /\ 0 \notin DOMAIN w.link
  BY <1>1
<1>3. \A I : Close(w, I) = [w EXCEPT !.link = CutOff(w.link, I)]
  BY DEF Close, CutOff
<1>4. \A i \in DOMAIN w.link : CutOff(w.link, {i})
              = [w.link EXCEPT ![i] = [w.link[i] EXCEPT !.alive = FALSE, !.down = <<>>]]
  BY <1>2, Zenon DEF CutOff
<1>5. CutOff(w.link, {0}) = w.link
  BY <1>2, ZenonT(30) DEF CutOff
<1>6. \A p : CutOff(w.link, {i \in DOMAIN w.link : w.link[i].who = p}) = Cut(w.link, p)
  BY Zenon DEF CutOff, Cut
<1> QED
  BY <1>3, <1>4, <1>5, <1>6, Zenon

LEMMA CallStep ==
  ASSUME IInv, NEW p \in Program, NEW m \in Name(use), m # None, NEW kind \in {"call", "down"},
         proc[p].pc \in {"idle", "call"}, kind = "call" => ~Registering(m),
         Calling(p, m, kind), UNCHANGED use
  PROVE  IInv'
<1> DEFINE l == wrap.link
           i == proc[p].sock
           k == proc[p].k + 1
           msg == [kind |-> kind, who |-> p, k |-> k, mod |-> m]
           n == Len(l) + 1
<1>1. /\ use \in Uses /\ wrap \in Wrap(use) /\ Good(l, wrap.con, wrap.queue, proc, use, {})
      /\ l \in Seq(Link(use)) /\ proc \in [Program -> Proc(use)] /\ proc[p] \in Proc(use) /\ link = l
  BY DEF IInv, WGood, Wrap, Good, Typed, link
<1>2. /\ CanWrite(wrap, i) /\ wrap' = Write(wrap, p, i, msg) /\ use' = use
      /\ proc' = [proc EXCEPT ![p].pc = "wait", ![p].sock = Socket(wrap, i), ![p].k = k]
  BY DEF Calling
<1>3. kind = "call" => \A s \in Server : proc[s].pc = "register" => use.module[s] # m
  BY DEF Registering
<1>4. proc[p].pc # "gone" /\ (i # 0 => i \in DOMAIN l)
  BY <1>1 DEF Good, Callers, Caller
<1> SUFFICES WGood(wrap', proc', use, {})
  BY <1>1, <1>2 DEF IInv
<1>5. CASE Usable(wrap, i)
  <2>1. i # 0 /\ i \in DOMAIN l /\ l[i].state # "closed" /\ l[i].up = <<>> /\ l[i].down = <<>>
    BY <1>1, <1>2, <1>4, <1>5 DEF Usable, CanWrite
  <2> DEFINE l2 == [l EXCEPT ![i] = [l[i] EXCEPT !.up = <<msg>>]]
             pr2 == [proc EXCEPT ![p] = [proc[p] EXCEPT !.pc = "wait", !.k = k]]
  <2>2. Good(l2, wrap.con, wrap.queue, pr2, use, {})
    BY <1>1, <1>3, <2>1, Called, ZenonT(30)
  <2>3. wrap' = [wrap EXCEPT !.link = l2]
    <3> HIDE DEF msg, i
    <3>1. wrap' = [wrap EXCEPT !.link[i].up = Append(@, msg)]
      BY <1>2, <1>5, <2>1 DEF Write, Socket, Send
    <3>2. Append(l[i].up, msg) = <<msg>>
      BY <2>1, OneMessage
    <3> QED
      BY <3>1, <3>2, Zenon
  <2>4. proc' = pr2
    <3>1. Socket(wrap, i) = i
      BY <1>5 DEF Socket
    <3>2. [proc[p] EXCEPT !.pc = "wait", !.sock = proc[p].sock, !.k = k] = [proc[p] EXCEPT !.pc = "wait", !.k = k]
      <4> HIDE DEF k
      <4> QED
        BY <1>1 DEF Proc
    <3>3. [proc EXCEPT ![p].pc = "wait", ![p].sock = i, ![p].k = k]
            = [proc EXCEPT ![p] = [proc[p] EXCEPT !.pc = "wait", !.sock = i, !.k = k]]
      <4> HIDE DEF i, k
      <4> QED
        BY <1>1, Procs, ZenonT(30)
    <3> HIDE DEF k
    <3> QED
      BY <1>2, <3>1, <3>2, <3>3
  <2> HIDE DEF l2, pr2
  <2> QED
    BY <1>1, <2>2, <2>3, <2>4, Kept
<1>6. CASE ~Usable(wrap, i)
  <2> DEFINE l1 == CutOff(l, {i})
             r1 == [proc[p] EXCEPT !.sock = 0]
             pr1 == [proc EXCEPT ![p] = r1]
  <2>0. r1 \in Proc(use) /\ r1.sock = 0 /\ r1.pc = proc[p].pc /\ r1.k = proc[p].k
    BY <1>1 DEF Proc
  <2>1. /\ pr1 \in [Program -> Proc(use)] /\ pr1[p] = r1
        /\ \A t \in Program : t # p => pr1[t] = proc[t]
    BY <1>1, <2>0, Updated
  <2>2. Good(l1, wrap.con, wrap.queue, pr1, use, {}) /\ Len(l1) = Len(l)
    <3>1. CASE i = 0
      <4>1. l1 = l
        BY <1>1, <3>1, CutOffs, Zenon
      <4>2. r1 = proc[p]
        BY <1>1, <3>1 DEF Proc
      <4>3. pr1 = proc
        BY <1>1, <4>2
      <4> QED
        BY <1>1, <4>1, <4>3
    <3>2. CASE i # 0
      <4>1. l1 = [l EXCEPT ![i] = [l[i] EXCEPT !.alive = FALSE, !.down = <<>>]]
        BY <1>1, <1>4, <3>2, CutOffs, Zenon
      <4>2. [proc[p] EXCEPT !.pc = proc[p].pc, !.sock = 0] = r1
        BY <1>1 DEF Proc
      <4>3. /\ p \in Client => proc[p].pc = "idle"
            /\ p \in Server => proc[p].pc \in Busy /\ proc[p].pc \in {"call", "answer"}
        BY <1>1, ProgramAssumption DEF Good, Typed, Busy
      <4>4. Good(l1, wrap.con, wrap.queue, pr1, use, {})
        <5>1. pr1 = [proc EXCEPT ![p] = [proc[p] EXCEPT !.pc = proc[p].pc, !.sock = 0]]
          BY <4>2
        <5> HIDE DEF pr1, l1
        <5> QED
          BY <1>1, <1>4, <3>2, <4>1, <4>3, <5>1, Hang, Zenon
      <4>5. Len(l1) = Len(l)
        BY <1>1, <4>1
      <4> QED
        BY <4>4, <4>5
    <3> QED
      BY <3>1, <3>2
  <2>3. l1 \in Seq(Link(use))
    BY <2>2 DEF Good, Typed
  <2> HIDE DEF l1, pr1
  <2> DEFINE l2 == Append(l1, NewLink(p, <<>>))
             r2 == [r1 EXCEPT !.sock = n]
             pr2 == [pr1 EXCEPT ![p] = r2]
  <2>4. r2 \in Proc(use) /\ r2.sock = n /\ r2.pc = proc[p].pc /\ r2.k = proc[p].k /\ n \in Nat \ {0}
    <3>1. n \in Nat \ {0}
      BY <1>1
    <3> HIDE DEF r1, n
    <3> QED
      BY <2>0, <3>1 DEF Proc
  <2>5. Good(l2, wrap.con, wrap.queue, pr2, use, {})
    <3>1. pr1[p].sock = 0 /\ pr1[p].pc \in {"idle", "call"}
      BY <2>0, <2>1
    <3>2. pr2 = [pr1 EXCEPT ![p] = [pr1[p] EXCEPT !.sock = Len(l1) + 1]]
      BY <2>1, <2>2
    <3> HIDE DEF l2, pr2, r1, n
    <3> QED
      BY <2>2, <3>1, <3>2, Connected DEF l2
  <2>6. /\ pr2 \in [Program -> Proc(use)] /\ pr2[p] = r2
        /\ \A t \in Program : t # p => pr2[t] = pr1[t]
    BY <2>1, <2>4, Updated
  <2>7. /\ n \in DOMAIN l2 /\ l2[n] = NewLink(p, <<>>)
        /\ l2[n].state = "pending" /\ l2[n].up = <<>> /\ l2[n].down = <<>>
    <3>1. n \in DOMAIN l2 /\ l2[n] = NewLink(p, <<>>)
      BY <2>2, <2>3
    <3> QED
      BY <3>1 DEF NewLink
  <2> HIDE DEF l2, pr2, r2, n
  <2> DEFINE l3 == [l2 EXCEPT ![n] = [l2[n] EXCEPT !.up = <<msg>>]]
             r3 == [r2 EXCEPT !.pc = "wait", !.k = k]
             pr3 == [pr2 EXCEPT ![p] = r3]
  <2>8. Good(l3, wrap.con, wrap.queue, pr3, use, {})
    <3>1. kind = "call" => \A s \in Server : pr2[s].pc = "register" => use.module[s] # m
      <4>1. \A s \in Server : s \in Program
        BY DEF Program
      <4>2. \A s \in Server : pr2[s].pc = proc[s].pc
        BY <2>1, <2>4, <2>6, <4>1
      <4> QED
        BY <1>3, <4>2
    <3>2. pr2[p].sock = n /\ n # 0 /\ pr2[p].pc \in {"idle", "call"} /\ pr2[p].k + 1 = k
      BY <2>4, <2>6
    <3>3. pr3 = [pr2 EXCEPT ![p] = [pr2[p] EXCEPT !.pc = "wait", !.k = pr2[p].k + 1]]
      BY <2>6, <3>2
    <3>4. msg = [kind |-> kind, who |-> p, k |-> pr2[p].k + 1, mod |-> m]
      BY <3>2
    <3>5. "pending" # "closed"
      OBVIOUS
    <3> HIDE DEF pr3, k, msg
    <3> QED
      BY <2>5, <2>7, <3>1, <3>2, <3>3, <3>4, <3>5, Called, ZenonT(30)
  <2>9. wrap' = [wrap EXCEPT !.link = l3]
    <3> DEFINE w1 == Close(wrap, {i})
               w2 == Connect(w1, p)
    <3>1. w1 = [wrap EXCEPT !.link = l1]
      BY <1>1, CutOffs, Zenon DEF l1
    <3>2. w1.link = l1 /\ DOMAIN w1 = {"link", "con", "queue"}
      BY <1>1, <3>1 DEF Wrap
    <3>3. w2 = [w1 EXCEPT !.link = l2]
      BY <3>2 DEF Connect, NewLink, l2
    <3>4. w2.link = l2
      BY <3>2, <3>3
    <3> HIDE DEF w1, w2, l1
    <3>5. wrap' = Send(w2, n, msg)
      BY <1>1, <1>2, <1>6 DEF Write, Socket, w2, w1, n
    <3> HIDE DEF msg
    <3>6. wrap' = [w2 EXCEPT !.link[n].up = Append(@, msg)]
      BY <2>7, <3>4, <3>5 DEF Send
    <3>7. Append(l2[n].up, msg) = <<msg>>
      BY <2>7, OneMessage
    <3>8. wrap' = [w2 EXCEPT !.link = l3]
      BY <3>4, <3>6, <3>7
    <3> HIDE DEF l3
    <3>9. w1 = [link |-> l1, con |-> wrap.con, queue |-> wrap.queue]
      BY <1>1, <3>1 DEF Wrap
    <3>10. w2 = [link |-> l2, con |-> wrap.con, queue |-> wrap.queue]
      BY <3>3, <3>9
    <3>11. wrap' = [link |-> l3, con |-> wrap.con, queue |-> wrap.queue]
      BY <3>8, <3>10
    <3> QED
      BY <1>1, <3>11, SMTT(20) DEF Wrap
  <2>10. proc' = pr3
    <3>1. Socket(wrap, i) = n
      BY <1>1, <1>6 DEF Socket, n
    <3>2. r3 = [proc[p] EXCEPT !.pc = "wait", !.sock = n, !.k = k]
      <4> HIDE DEF k
      <4> QED
        BY <1>1 DEF Proc, r2
    <3> HIDE DEF r3, k
    <3>3. pr3 = [proc EXCEPT ![p] = r3]
      <4>1. DOMAIN pr1 = Program /\ DOMAIN pr2 = Program /\ DOMAIN proc = Program
        BY <1>1, <2>1, <2>6
      <4>2. pr2 = [proc EXCEPT ![p] = r2]
        <5> HIDE DEF r1
        <5> QED
          BY <4>1, Twice DEF pr2, pr1
      <4> QED
        BY <4>1, <4>2, Twice
    <3>4. [proc EXCEPT ![p].pc = "wait", ![p].sock = n, ![p].k = k]
            = [proc EXCEPT ![p] = [proc[p] EXCEPT !.pc = "wait", !.sock = n, !.k = k]]
      BY <1>1, Procs, ZenonT(30)
    <3> HIDE DEF pr3
    <3> QED
      BY <1>2, <3>1, <3>2, <3>3, <3>4
  <2> HIDE DEF l3, pr3
  <2> QED
    BY <1>1, <2>8, <2>9, <2>10, Kept
<1> QED
  BY <1>5, <1>6

LEMMA ReceiveStep ==
  ASSUME IInv, NEW p \in Program, Receive(p)
  PROVE  IInv'
<1> DEFINE l == wrap.link
           i == proc[p].sock
<1>1. /\ use \in Uses /\ wrap \in Wrap(use) /\ Good(l, wrap.con, wrap.queue, proc, use, {})
      /\ l \in Seq(Link(use)) /\ proc \in [Program -> Proc(use)] /\ proc[p] \in Proc(use) /\ link = l
  BY DEF IInv, WGood, Wrap, Good, Typed, link, Program
<1> DEFINE rd == [l[i] EXCEPT !.down = <<>>]
           rc == [l[i] EXCEPT !.alive = FALSE, !.down = <<>>]
           w == [wrap EXCEPT !.link[i].down = <<>>]
<1>2. /\ proc[p].pc = "wait" /\ l[i].down # <<>> /\ use' = use
      /\ proc' = [proc EXCEPT ![p].pc = Returned(p), ![p].sock = IF p \in Keepalive THEN i ELSE 0]
      /\ wrap' = IF p \in Keepalive THEN w ELSE Close(w, {i})
  BY <1>1 DEF Receive
<1>3. i # 0 /\ i \in DOMAIN l
  BY <1>1, <1>2 DEF Good, Callers, Caller
<1>4. w = [wrap EXCEPT !.link = [l EXCEPT ![i] = rd]]
  OBVIOUS
<1> SUFFICES WGood(wrap', proc', use, {})
  BY <1>1, <1>2 DEF IInv
<1>5. CASE p \in Keepalive
  <2> DEFINE l2 == [l EXCEPT ![i] = rd]
             pr2 == [proc EXCEPT ![p] = [proc[p] EXCEPT !.pc = Returned(p)]]
  <2>1. Good(l2, wrap.con, wrap.queue, pr2, use, {})
    BY <1>1, <1>2, Returns
  <2>2. proc' = pr2
    <3>1. proc' = [proc EXCEPT ![p].pc = Returned(p), ![p].sock = i]
      BY <1>2, <1>5
    <3>2. [proc[p] EXCEPT !.pc = Returned(p), !.sock = proc[p].sock] = [proc[p] EXCEPT !.pc = Returned(p)]
      BY <1>1, Zenon DEF Proc
    <3>3. [proc EXCEPT ![p].pc = Returned(p), ![p].sock = i]
            = [proc EXCEPT ![p] = [proc[p] EXCEPT !.pc = Returned(p), !.sock = i]]
      <4> HIDE DEF i
      <4> QED
        BY <1>1, Procs, ZenonT(30)
    <3> QED
      BY <3>1, <3>2, <3>3
  <2>3. wrap' = [wrap EXCEPT !.link = l2]
    BY <1>2, <1>4, <1>5
  <2> HIDE DEF l2, pr2
  <2> QED
    BY <1>1, <2>1, <2>2, <2>3, Kept
<1>6. CASE p \notin Keepalive
  <2> DEFINE l2 == [l EXCEPT ![i] = rc]
             pr2 == [proc EXCEPT ![p] = [proc[p] EXCEPT !.pc = Returned(p), !.sock = 0]]
  <2>1. Good(l2, wrap.con, wrap.queue, pr2, use, {})
    <3>1. /\ p \in Client => Returned(p) = "idle"
          /\ p \in Server => proc[p].pc \in Busy /\ Returned(p) \in {"call", "answer"}
      BY <1>2, ProgramAssumption DEF Returned, Busy
    <3> QED
      BY <1>1, <1>2, <1>3, <3>1, Hang, Zenon
  <2>2. proc' = pr2
    <3>1. proc' = [proc EXCEPT ![p].pc = Returned(p), ![p].sock = 0]
      BY <1>2, <1>6
    <3> QED
      BY <1>1, <3>1, Procs, ZenonT(30)
  <2>3. wrap' = [wrap EXCEPT !.link = l2]
    <3> DEFINE ld == [l EXCEPT ![i] = rd]
    <3>1. l[i] \in Link(use) /\ rd \in Link(use)
      <4>1. l[i] \in Link(use)
        BY <1>1, <1>3, Linked
      <4> QED
        BY <4>1 DEF Link, Box
    <3>2. ld \in Seq(Link(use)) /\ ld[i] = rd /\ DOMAIN ld = DOMAIN l
      <4> HIDE DEF rd
      <4> QED
        BY <1>1, <1>3, <3>1, Update
    <3>3. [rd EXCEPT !.alive = FALSE, !.down = <<>>] = rc
      BY <3>1 DEF Link
    <3> HIDE DEF w, rd, rc
    <3>4. w = [link |-> ld, con |-> wrap.con, queue |-> wrap.queue]
      BY <1>1, <1>4 DEF Wrap
    <3>5. w \in Wrap(use) /\ w.link = ld
      BY <1>1, <3>2, <3>4 DEF Wrap
    <3>8. [ld EXCEPT ![i] = rc] = l2
      BY <1>3, Twice
    <3> HIDE DEF ld, l2, i
    <3>6. Close(w, {i}) = [w EXCEPT !.link = CutOff(ld, {i})]
      <4>1. \A I : Close(w, I) = [w EXCEPT !.link = CutOff(w.link, I)]
        BY <3>5, CutOffs, Zenon
      <4> QED
        BY <3>5, <4>1
    <3>7. CutOff(ld, {i}) = [ld EXCEPT ![i] = rc]
      <4>1. \A j \in DOMAIN w.link : CutOff(w.link, {j})
              = [w.link EXCEPT ![j] = [w.link[j] EXCEPT !.alive = FALSE, !.down = <<>>]]
        BY <3>5, CutOffs, Zenon
      <4>2. CutOff(ld, {i}) = [ld EXCEPT ![i] = [rd EXCEPT !.alive = FALSE, !.down = <<>>]]
        BY <1>3, <3>2, <3>5, <4>1, Zenon
      <4> QED
        BY <3>3, <4>2
    <3>9. Close(w, {i}) = [link |-> l2, con |-> wrap.con, queue |-> wrap.queue]
      BY <3>4, <3>6, <3>7, <3>8
    <3> QED
      BY <1>1, <1>2, <1>6, <3>9 DEF Wrap
  <2> HIDE DEF l2, pr2
  <2> QED
    BY <1>1, <2>1, <2>2, <2>3, Kept
<1> QED
  BY <1>5, <1>6

LEMMA ReceiveFailsStep ==
  ASSUME IInv, NEW p \in Program, ReceiveFails(p)
  PROVE  IInv'
<1> DEFINE l == wrap.link
           i == proc[p].sock
<1>1. /\ use \in Uses /\ wrap \in Wrap(use) /\ Good(l, wrap.con, wrap.queue, proc, use, {})
      /\ l \in Seq(Link(use)) /\ proc \in [Program -> Proc(use)] /\ proc[p] \in Proc(use) /\ link = l
  BY DEF IInv, WGood, Wrap, Good, Typed, link, Program
<1>2. /\ proc[p].pc = "wait" /\ l[i].down = <<>> /\ l[i].state = "closed" /\ use' = use /\ wrap' = wrap
      /\ proc' = [proc EXCEPT ![p].pc = Returned(p)]
  BY <1>1 DEF ReceiveFails
<1>3. i # 0 /\ i \in DOMAIN l
  BY <1>1, <1>2 DEF Good, Callers, Caller
<1> DEFINE l2 == [l EXCEPT ![i] = [l[i] EXCEPT !.down = <<>>]]
           pr2 == [proc EXCEPT ![p] = [proc[p] EXCEPT !.pc = Returned(p)]]
<1>4. Good(l2, wrap.con, wrap.queue, pr2, use, {})
  BY <1>1, <1>2, Returns
<1>5. l2 = l
  <2>1. l[i] \in Link(use)
    BY <1>1, <1>3, Linked
  <2>2. [l[i] EXCEPT !.down = <<>>] = l[i]
    BY <1>2, <2>1 DEF Link
  <2> QED
    BY <1>1, <1>3, <2>2
<1>6. proc' = pr2
  BY <1>1, <1>2, Procs, Zenon
<1> HIDE DEF l2, pr2
<1> QED
  BY <1>1, <1>2, <1>4, <1>5, <1>6 DEF IInv, WGood

LEMMA TimeoutStep ==
  ASSUME IInv, Disciplined, NEW p \in Program, Timeout(p)
  PROVE  IInv'
<1> DEFINE l == wrap.link
           i == proc[p].sock
<1>1. /\ use \in Uses /\ wrap \in Wrap(use) /\ Good(l, wrap.con, wrap.queue, proc, use, {})
      /\ l \in Seq(Link(use)) /\ proc \in [Program -> Proc(use)] /\ proc[p] \in Proc(use) /\ link = l
  BY DEF IInv, WGood, Wrap, Good, Typed, link, Program
<1>2. /\ proc[p].pc = "wait" /\ use' = use /\ wrap' = Close(wrap, {i})
      /\ proc' = [proc EXCEPT ![p].pc = Returned(p), ![p].sock = 0]
  <2>1. use.timeout # "reuse"
    BY <1>1 DEF Disciplined
  <2> QED
    BY <2>1 DEF Timeout
<1>3. i # 0 /\ i \in DOMAIN l
  BY <1>1, <1>2 DEF Good, Callers, Caller
<1> DEFINE l2 == [l EXCEPT ![i] = [l[i] EXCEPT !.alive = FALSE, !.down = <<>>]]
           pr2 == [proc EXCEPT ![p] = [proc[p] EXCEPT !.pc = Returned(p), !.sock = 0]]
<1>4. Good(l2, wrap.con, wrap.queue, pr2, use, {})
  <2>1. /\ p \in Client => Returned(p) = "idle"
        /\ p \in Server => proc[p].pc \in Busy /\ Returned(p) \in {"call", "answer"}
    BY <1>2, ProgramAssumption DEF Returned, Busy
  <2> QED
    BY <1>1, <1>2, <1>3, <2>1, Hang, ZenonT(30)
<1>5. proc' = pr2
  BY <1>1, <1>2, Procs, ZenonT(30)
<1>6. wrap' = [wrap EXCEPT !.link = l2]
  <2>1. Close(wrap, {i}) = [wrap EXCEPT !.link = CutOff(l, {i})]
    BY <1>1, CutOffs, Zenon
  <2>2. CutOff(l, {i}) = l2
    BY <1>1, <1>3, CutOffs, Zenon
  <2> QED
    BY <1>2, <2>1, <2>2
<1> HIDE DEF l2, pr2
<1>20. WGood(wrap', proc', use, {})
  BY <1>1, <1>4, <1>5, <1>6, Kept
<1> QED
  BY <1>1, <1>2, <1>20 DEF IInv

LEMMA StartStep ==
  ASSUME IInv, Disciplined, NEW p \in Server, Start(p)
  PROVE  IInv'
<1> DEFINE l == wrap.link
           i == proc[p].reg
<1>1. /\ use \in Uses /\ wrap \in Wrap(use) /\ Good(l, wrap.con, wrap.queue, proc, use, {})
      /\ l \in Seq(Link(use)) /\ proc \in [Program -> Proc(use)] /\ proc[p] \in Proc(use) /\ link = l
  BY DEF IInv, WGood, Wrap, Good, Typed, link, Program
<1> DEFINE m == use.module[p]
           msg == Register(m)
           n == Len(l) + 1
<1>2. proc[p].pc = "start" /\ i = 0 /\ p \in Program
  BY <1>1 DEF Start, Good, Registers, Enrolls, Program
<1>3. /\ ~InUse(m) /\ use' = use /\ wrap' = Write(wrap, p, 0, msg)
      /\ proc' = [proc EXCEPT ![p].pc = "register", ![p].reg = Socket(wrap, 0)]
  BY <1>1, <1>2 DEF Start, Enroll, Disciplined
<1>4. NoCalls(l, wrap.queue, m)
  <2>1. ASSUME NEW j \in DOMAIN l, l[j].up # <<>>
        PROVE  l[j].up[1].kind # "call" \/ l[j].up[1].mod # m
    <3>1. l[j].up \in Box(use)
      BY <1>1, Linked
    <3>2. l[j].up = <<l[j].up[1]>>
      BY <2>1, <3>1, Boxes
    <3>3. 1 \in DOMAIN l[j].up
      BY <3>2
    <3> QED
      BY <1>1, <1>3, <3>3 DEF InUse
  <2> QED
    BY <1>3, <2>1 DEF InUse, NoCalls
<1> DEFINE l2 == Append(l, NewLink(p, <<msg>>))
           pr2 == [proc EXCEPT ![p] = [proc[p] EXCEPT !.pc = "register", !.reg = n]]
<1>5. Good(l2, wrap.con, wrap.queue, pr2, use, {})
  BY <1>1, <1>2, <1>4, Enrolling, ZenonT(30)
<1>6. proc' = pr2
  <2>1. Socket(wrap, 0) = n
    BY <1>1 DEF Socket, Usable
  <2> HIDE DEF n
  <2> QED
    BY <1>1, <1>2, <1>3, <2>1, Procs, ZenonT(30)
<1>7. wrap' = [wrap EXCEPT !.link = l2]
  <2> DEFINE w1 == Close(wrap, {0})
             r0 == NewLink(p, <<>>)
             l1 == Append(l, r0)
             w2 == Connect(w1, p)
  <2>1. Socket(wrap, 0) = n
    BY <1>1 DEF Socket, Usable
  <2>2. w1 = [wrap EXCEPT !.link = l]
    <3>1. \A I : Close(wrap, I) = [wrap EXCEPT !.link = CutOff(wrap.link, I)]
      BY <1>1, CutOffs, Zenon
    <3>2. CutOff(wrap.link, {0}) = wrap.link
      BY <1>1, CutOffs, Zenon
    <3> QED
      BY <3>1, <3>2
  <2>3. w1 = wrap
    BY <1>1, <2>2 DEF Wrap
  <2>4. w2 = [wrap EXCEPT !.link = l1]
    BY <2>3 DEF Connect, NewLink
  <2>5. w2 = [link |-> l1, con |-> wrap.con, queue |-> wrap.queue]
    BY <1>1, <2>4 DEF Wrap
  <2>6. wrap' = Send(w2, n, msg)
    BY <1>3, <2>1 DEF Write, Usable
  <2> HIDE DEF w2, w1, msg
  <2>7. /\ r0.state = "pending" /\ r0.up = <<>> /\ [r0 EXCEPT !.up = <<msg>>] = NewLink(p, <<msg>>)
        /\ r0.state # "closed"
    <3>1. r0.state = "pending" /\ r0.up = <<>>
      BY DEF NewLink
    <3>2. [r0 EXCEPT !.up = <<msg>>] = NewLink(p, <<msg>>)
      BY NewLinks
    <3> QED
      BY <3>1, <3>2
  <2> HIDE DEF r0
  <2>8. l1[n] = r0 /\ n \in DOMAIN l1
    BY <1>1
  <2>9. [l1 EXCEPT ![n] = [r0 EXCEPT !.up = <<msg>>]] = l2
    <3>1. [l1 EXCEPT ![n] = NewLink(p, <<msg>>)] = l2
      BY <1>1, LastReplaced
    <3> QED
      BY <2>7, <3>1
  <2> HIDE DEF l1, n, l2
  <2>10. w2.link = l1
    BY <2>5
  <2>11. wrap' = [w2 EXCEPT !.link[n].up = Append(@, msg)]
    BY <2>6, <2>7, <2>8, <2>10 DEF Send
  <2>12. Append(l1[n].up, msg) = <<msg>>
    BY <2>7, <2>8, OneMessage
  <2>13. wrap' = [w2 EXCEPT !.link = l2]
    BY <2>8, <2>9, <2>10, <2>11, <2>12
  <2>14. wrap' = [link |-> l2, con |-> wrap.con, queue |-> wrap.queue]
    BY <2>5, <2>13
  <2> QED
    BY <1>1, <2>14 DEF Wrap
<1> HIDE DEF l2, pr2
<1>20. WGood(wrap', proc', use, {})
  BY <1>1, <1>5, <1>6, <1>7, Kept
<1> QED
  BY <1>1, <1>3, <1>20 DEF IInv

LEMMA RegisteredStep ==
  ASSUME IInv, NEW p \in Server, Registered(p)
  PROVE  IInv'
<1> DEFINE l == wrap.link
           i == proc[p].reg
<1>1. /\ use \in Uses /\ wrap \in Wrap(use) /\ Good(l, wrap.con, wrap.queue, proc, use, {})
      /\ l \in Seq(Link(use)) /\ proc \in [Program -> Proc(use)] /\ proc[p] \in Proc(use) /\ link = l
  BY DEF IInv, WGood, Wrap, Good, Typed, link, Program
<1> DEFINE l2 == [l EXCEPT ![i] = [l[i] EXCEPT !.down = <<>>]]
           pr2 == [proc EXCEPT ![p] = [proc[p] EXCEPT !.pc = "loop"]]
<1>2. p \in Program /\ proc[p].pc = "register" /\ l[i].up = <<>>
  BY <1>1 DEF Registered, Program
<1>3. Good(l2, wrap.con, wrap.queue, pr2, use, {}) /\ l[i].down = <<Ok>>
  <2>1. Good(l2, wrap.con, wrap.queue, pr2, use, {})
    BY <1>1, <1>2, Confirmed
  <2>2. l[i].down = <<Ok>>
    <3>1. Enrolls(l, wrap.queue, proc, p, i, use.module[p])
      BY <1>1 DEF Good, Registers
    <3> QED
      BY <1>2, <3>1, OneMessage DEF Enrolls
  <2> QED
    BY <2>1, <2>2
<1>4. /\ wrap' = [wrap EXCEPT !.link[i].down = <<>>] /\ use' = use
      /\ proc' = [proc EXCEPT ![p].pc = "loop"]
  BY <1>1, <1>3 DEF Registered
<1>5. proc' = pr2
  BY <1>1, <1>2, <1>4, Procs, Zenon
<1>6. wrap' = [wrap EXCEPT !.link = l2]
  BY <1>4
<1> HIDE DEF l2, pr2
<1>20. WGood(wrap', proc', use, {})
  BY <1>1, <1>3, <1>5, <1>6, Kept
<1> QED
  BY <1>1, <1>4, <1>20 DEF IInv

LEMMA TakeStep ==
  ASSUME IInv, NEW p \in Server, Take(p)
  PROVE  IInv'
<1> DEFINE l == wrap.link
           i == proc[p].reg
<1>1. /\ use \in Uses /\ wrap \in Wrap(use) /\ Good(l, wrap.con, wrap.queue, proc, use, {})
      /\ l \in Seq(Link(use)) /\ proc \in [Program -> Proc(use)] /\ proc[p] \in Proc(use) /\ link = l
  BY DEF IInv, WGood, Wrap, Good, Typed, link, Program
<1> DEFINE pc == IF use.needs[use.module[p]] = None THEN "answer" ELSE "call"
           msg == Head(l[i].down)
           l2 == [l EXCEPT ![i] = [l[i] EXCEPT !.down = <<>>]]
           pr2 == [proc EXCEPT ![p] = [proc[p] EXCEPT !.pc = pc, !.req = msg]]
<1>2. /\ p \in Program /\ proc[p].pc = "loop" /\ l[i].down # <<>> /\ use' = use
      /\ wrap' = [wrap EXCEPT !.link[i].down = <<>>]
      /\ proc' = [proc EXCEPT ![p].req = msg, ![p].pc = pc]
  BY <1>1 DEF Take, Program
<1>3. pc \in {"call", "answer"}
  OBVIOUS
<1> HIDE DEF pc
<1>4. Good(l2, wrap.con, wrap.queue, pr2, use, {})
  BY <1>1, <1>2, <1>3, Taken, ZenonT(30)
<1>5. proc' = pr2
  <2>1. proc' = [proc EXCEPT ![p].req = msg, ![p].pc = pc]
    BY <1>2
  <2> HIDE DEF msg, l2
  <2> DEFINE r1 == [proc[p] EXCEPT !.req = msg]
             r2 == [proc[p] EXCEPT !.pc = pc, !.req = msg]
             f1 == [proc EXCEPT ![p] = r1]
  <2>2. f1 = [proc EXCEPT ![p].req = msg] /\ f1[p] = r1 /\ DOMAIN f1 = Program /\ DOMAIN proc = Program
    BY <1>1, <1>2
  <2>3. r2 = [r1 EXCEPT !.pc = pc]
    BY <1>1 DEF Proc
  <2>4. [proc EXCEPT ![p].req = msg, ![p].pc = pc] = [[proc EXCEPT ![p].req = msg] EXCEPT ![p].pc = pc]
    OBVIOUS
  <2>5. proc' = [f1 EXCEPT ![p].pc = pc]
    BY <2>1, <2>2, <2>4
  <2> HIDE DEF f1, r1, r2
  <2>6. [f1 EXCEPT ![p].pc = pc] = [f1 EXCEPT ![p] = r2]
    BY <2>2, <2>3
  <2>7. [f1 EXCEPT ![p] = r2] = [proc EXCEPT ![p] = r2]
    BY <1>2, <2>2, Twice DEF f1
  <2> QED
    BY <2>5, <2>6, <2>7 DEF r2
<1>6. wrap' = [wrap EXCEPT !.link = l2]
  BY <1>2
<1> HIDE DEF l2, pr2
<1>20. WGood(wrap', proc', use, {})
  BY <1>1, <1>4, <1>5, <1>6, Kept
<1> QED
  BY <1>1, <1>2, <1>20 DEF IInv

LEMMA ReplyStep ==
  ASSUME IInv, NEW p \in Server, Reply(p)
  PROVE  IInv'
<1> DEFINE l == wrap.link
           i == proc[p].reg
<1>1. /\ use \in Uses /\ wrap \in Wrap(use) /\ Good(l, wrap.con, wrap.queue, proc, use, {})
      /\ l \in Seq(Link(use)) /\ proc \in [Program -> Proc(use)] /\ proc[p] \in Proc(use) /\ link = l
  BY DEF IInv, WGood, Wrap, Good, Typed, link, Program
<1> DEFINE msg == Answer(proc[p].req)
           up == IF l[i].state = "closed" THEN l[i].up ELSE <<msg>>
           l2 == [l EXCEPT ![i] = [l[i] EXCEPT !.up = up]]
           pr2 == [proc EXCEPT ![p] = [proc[p] EXCEPT !.pc = "loop", !.req = None]]
<1>2. /\ p \in Program /\ proc[p].pc = "answer" /\ use' = use
      /\ wrap' = Send(wrap, i, msg)
      /\ proc' = [proc EXCEPT ![p].pc = "loop", ![p].req = None]
  BY <1>1 DEF Reply, Program
<1>3. Good(l2, wrap.con, wrap.queue, pr2, use, {}) /\ i \in DOMAIN l /\ l[i].up = <<>>
  <2>1. Good(l2, wrap.con, wrap.queue, pr2, use, {})
    BY <1>1, <1>2, Replied, ZenonT(30)
  <2>2. i \in DOMAIN l /\ l[i].up = <<>>
    <3>1. ServesOn(l, proc, p, i, use.module[p])
      BY <1>1 DEF Good, Serves
    <3> QED
      BY <1>2, <3>1 DEF ServesOn, Busy
  <2> QED
    BY <2>1, <2>2
<1>4. proc' = pr2
  BY <1>1, <1>2, Procs, ZenonT(30)
<1>5. wrap' = [wrap EXCEPT !.link = l2]
  <2> HIDE DEF msg
  <2>1. CASE l[i].state = "closed"
    <3>1. wrap' = wrap
      BY <1>2, <2>1 DEF Send
    <3>2. l[i] \in Link(use)
      BY <1>1, <1>3, Linked
    <3>3. [l[i] EXCEPT !.up = up] = l[i]
      BY <2>1, <3>2 DEF Link
    <3>4. l2 = l
      BY <1>1, <3>3
    <3> HIDE DEF l2
    <3> QED
      BY <1>1, <3>1, <3>4 DEF Wrap
  <2>2. CASE l[i].state # "closed"
    <3>1. wrap' = [wrap EXCEPT !.link[i].up = Append(@, msg)]
      BY <1>2, <2>2 DEF Send
    <3>2. Append(l[i].up, msg) = up
      BY <1>3, <2>2, OneMessage
    <3> HIDE DEF up
    <3> QED
      BY <3>1, <3>2, Zenon
  <2> QED
    BY <2>1, <2>2
<1> HIDE DEF l2, pr2
<1>20. WGood(wrap', proc', use, {})
  BY <1>1, <1>3, <1>4, <1>5, Kept
<1> QED
  BY <1>1, <1>2, <1>20 DEF IInv

LEMMA GoneStep ==
  ASSUME IInv, NEW p \in Program, Gone(p)
  PROVE  IInv'
<1> DEFINE l == wrap.link
           i == proc[p].sock
<1>1. /\ use \in Uses /\ wrap \in Wrap(use) /\ Good(l, wrap.con, wrap.queue, proc, use, {})
      /\ l \in Seq(Link(use)) /\ proc \in [Program -> Proc(use)] /\ proc[p] \in Proc(use) /\ link = l
  BY DEF IInv, WGood, Wrap, Good, Typed, link, Program
<1> DEFINE l2 == Cut(l, p)
           pr2 == [proc EXCEPT ![p] = [proc[p] EXCEPT !.pc = "gone", !.req = None]]
<1>2. /\ wrap' = Close(wrap, {j \in DOMAIN l : l[j].who = p}) /\ use' = use
      /\ proc' = [proc EXCEPT ![p].pc = "gone", ![p].req = None]
  BY <1>1 DEF Gone
<1>3. Good(l2, wrap.con, wrap.queue, pr2, use, {})
  BY <1>1, Left, ZenonT(30)
<1>4. proc' = pr2
  BY <1>1, <1>2, Procs, ZenonT(30)
<1>5. wrap' = [wrap EXCEPT !.link = l2]
  <2>1. Close(wrap, {j \in DOMAIN l : l[j].who = p}) = [wrap EXCEPT !.link = CutOff(l, {j \in DOMAIN l : l[j].who = p})]
    BY <1>1, CutOffs, Zenon
  <2>2. CutOff(l, {j \in DOMAIN l : l[j].who = p}) = l2
    BY <1>1, CutOffs, Zenon
  <2> QED
    BY <1>2, <2>1, <2>2
<1> HIDE DEF l2, pr2
<1>20. WGood(wrap', proc', use, {})
  BY <1>1, <1>3, <1>4, <1>5, Kept
<1> QED
  BY <1>1, <1>2, <1>20 DEF IInv

-----------------------------------------------------------------------------
(* The steps together.                                                      *)

(* A server that is about to call another module needs one.                 *)
Onward == \A s \in Server : proc[s].pc = "call" => use.needs[use.module[s]] # None

Inv == IInv /\ Onward

LEMMA InitInv ==
  ASSUME Init
  PROVE  Inv
<1> DEFINE l == wrap.link
<1>1. /\ use \in Uses /\ wrap = [link |-> <<>>, con |-> <<>>, queue |-> <<>>]
      /\ proc \in [Program -> [pc : Phase, sock : {0}, reg : {0}, k : {0}, req : {None}]]
      /\ \A p \in Program : /\ p \in Client => proc[p].pc = "idle"
                            /\ p \in Server => proc[p].pc = IF use.module[p] = None THEN "gone" ELSE "start"
  BY ProgramAssumption DEF Init, Phase, Program
<1>2. \A p \in Program : /\ proc[p].pc \in Phase /\ proc[p].sock = 0 /\ proc[p].reg = 0 /\ proc[p].k = 0
                         /\ proc[p].req = None
  BY <1>1
<1>3. /\ l = <<>> /\ wrap.con = <<>> /\ wrap.queue = <<>> /\ DOMAIN l = {} /\ DOMAIN wrap.con = {}
      /\ DOMAIN wrap.queue = {}
  BY <1>1
<1>4. wrap \in Wrap(use)
  BY <1>1 DEF Wrap
<1>5. \A c : ~Held(l, wrap.queue, {}, c)
  BY <1>3 DEF Held, Queued, Served
<1> HIDE DEF l
<1>6. Typed(l, wrap.con, wrap.queue, proc, use, {})
  <2>1. proc \in [Program -> Proc(use)]
    BY <1>1 DEF Proc
  <2>2. l \in Seq(Link(use)) /\ wrap.con \in Seq(Nat) /\ wrap.queue \in Seq(Entry(use))
    BY <1>3
  <2>3. \A p \in Client : proc[p].pc \in {"idle", "wait", "gone"}
    BY <1>1 DEF Program
  <2>4. \A s \in Server : proc[s].pc # "idle"
    BY <1>1 DEF Program
  <2> QED
    BY <2>1, <2>2, <2>3, <2>4 DEF Typed
<1>7. Listed(l, wrap.con) /\ Plain(l) /\ Services(l, wrap.queue, proc, {}) /\ Ups(l, proc) /\ Downs(l, proc)
  BY <1>3 DEF Listed, Plain, Services, Ups, Downs
<1>8. Holding(l, wrap.queue, {}) /\ Waits(l, wrap.queue, proc)
  BY <1>3, <1>5 DEF Holding, Waits
<1>9. Callers(l, wrap.queue, proc, {})
  <2>1. \A p \in Program : proc[p].pc # "wait"
    BY <1>1 DEF Program
  <2> QED
    BY <1>2, <1>3, <2>1 DEF Callers, Caller
<1>10. Registers(l, wrap.queue, proc, use)
  <2> SUFFICES ASSUME NEW s \in Server
               PROVE  Enrolls(l, wrap.queue, proc, s, proc[s].reg, use.module[s])
    BY DEF Registers
  <2>1. s \in Program /\ proc[s].pc = IF use.module[s] = None THEN "gone" ELSE "start"
    BY <1>1 DEF Program
  <2> QED
    BY <1>2, <2>1 DEF Enrolls
<1>11. Serves(l, proc, use)
  <2>1. \A s \in Server : proc[s].pc \notin {"loop"} \cup Busy
    BY <1>1 DEF Program, Busy
  <2> QED
    BY <2>1 DEF Serves, ServesOn
<1>12. Good(l, wrap.con, wrap.queue, proc, use, {})
  BY <1>6, <1>7, <1>8, <1>9, <1>10, <1>11 DEF Good
<1>13. Onward
  BY <1>1 DEF Onward, Program
<1> QED
  BY <1>1, <1>4, <1>12, <1>13 DEF Inv, IInv, WGood, l

LEMMA WrapperSteps ==
  ASSUME Inv, WrapperNext
  PROVE  Inv'
<1>1. PICK i \in DOMAIN link : Accept(i) \/ Read(i) \/ ReadFails(i) \/ Idle(i)
  BY DEF WrapperNext
<1>2. i \in DOMAIN wrap.link
  BY <1>1 DEF link
<1>3. IInv'
  BY <1>1, <1>2, AcceptStep, ReadStep, EndStep DEF Inv
<1>4. UNCHANGED <<proc, use>>
  BY <1>1 DEF Accept, Read, Request, ReadFails, Idle, Step
<1> QED
  BY <1>3, <1>4 DEF Inv, Onward

(* What a program does, except for taking a call.                           *)
Moves(p) ==
  \/ Receive(p) \/ ReceiveFails(p) \/ Timeout(p) \/ Die(p)
  \/ p \in Client /\ \E m \in Modules : Call(p, m) \/ Down(p, m)
  \/ p \in Server /\ \/ Start(p) \/ Registered(p) \/ CallOther(p) \/ Reply(p) \/ WrapperDied(p)

LEMMA ProgramSteps ==
  ASSUME Inv, Disciplined, NEW p \in Program,
         Moves(p) \/ (p \in Server /\ Take(p))
  PROVE  IInv'
<1>1. IInv /\ use \in Uses /\ proc \in [Program -> Proc(use)] /\ ~use.late
  BY DEF Inv, IInv, WGood, Good, Typed, Disciplined
<1>2. CASE Receive(p) \/ ReceiveFails(p) \/ Timeout(p)
  BY <1>1, <1>2, ReceiveStep, ReceiveFailsStep, TimeoutStep
<1>3. CASE Die(p) \/ (p \in Server /\ WrapperDied(p))
  <2>1. Gone(p)
    BY <1>3 DEF Die, WrapperDied
  <2> QED
    BY <1>1, <2>1, GoneStep
<1>4. ASSUME NEW m \in Modules, Call(p, m) \/ Down(p, m)
      PROVE  IInv'
  <2>1. m \in Name(use) /\ m # None
    BY <1>4 DEF Modules, ModulesOf, Name
  <2>2. CASE Call(p, m)
    <3>1. proc[p].pc = "idle" /\ ~Registering(m) /\ Calling(p, m, "call") /\ UNCHANGED use
      BY <1>1, <2>2 DEF Call
    <3> QED
      BY <1>1, <2>1, <3>1, CallStep
  <2>3. CASE Down(p, m)
    <3>1. proc[p].pc = "idle" /\ Calling(p, m, "down") /\ UNCHANGED use
      BY <1>1, <2>3 DEF Down
    <3> QED
      BY <1>1, <2>1, <3>1, CallStep
  <2> QED
    BY <1>4, <2>2, <2>3
<1>5. ASSUME p \in Server, Start(p) \/ Registered(p) \/ Take(p) \/ Reply(p)
      PROVE  IInv'
  BY <1>1, <1>5, StartStep, RegisteredStep, TakeStep, ReplyStep
<1>6. ASSUME p \in Server, CallOther(p)
      PROVE  IInv'
  <2> DEFINE m == use.needs[use.module[p]]
  <2>1. /\ proc[p].pc = "call" /\ ~Registering(m) /\ Calling(p, m, "call") /\ UNCHANGED use
    BY <1>1, <1>6 DEF CallOther
  <2>2. m # None
    BY <1>6, <2>1 DEF Inv, Onward
  <2>3. m \in Name(use)
    <3>1. ServesOn(wrap.link, proc, p, proc[p].reg, use.module[p])
      BY <1>1, <1>6 DEF IInv, WGood, Good, Serves
    <3>2. use.module[p] # None
      BY <2>1, <3>1 DEF ServesOn, Busy
    <3> QED
      BY <1>6, <3>2 DEF Name, ModulesOf
  <2> HIDE DEF m
  <2> QED
    BY <1>1, <2>1, <2>2, <2>3, CallStep
<1> QED
  BY <1>2, <1>3, <1>4, <1>5, <1>6 DEF Moves

LEMMA ProgramTurns ==
  ASSUME Inv, NEW p \in Program, NEW s \in Server,
         Moves(p)
  PROVE  (proc'[s].pc = "call" => proc[s].pc = "call") /\ use' = use
<1>1. proc \in [Program -> Proc(use)] /\ s \in Program
  BY DEF Inv, IInv, WGood, Good, Typed, Program
<1>2. Returned(p) # "call"
  BY DEF Returned
<1>3. use' = use /\ (proc'[s].pc = "call" => proc[s].pc = "call")
  <2>1. CASE Receive(p)
    <3> DEFINE b == IF p \in Keepalive THEN proc[p].sock ELSE 0
    <3>1. use' = use /\ proc' = [proc EXCEPT ![p].pc = Returned(p), ![p].sock = b]
      BY <2>1 DEF Receive
    <3> HIDE DEF b
    <3>2. CASE s # p
      BY <1>1, <3>1, <3>2
    <3>3. CASE s = p
      BY <1>1, <1>2, <3>1, <3>3 DEF Proc
    <3> QED
      BY <3>1, <3>2, <3>3
  <2>2. CASE ReceiveFails(p)
    <3>1. use' = use /\ proc' = [proc EXCEPT ![p].pc = Returned(p)]
      BY <2>2 DEF ReceiveFails
    <3>2. CASE s # p
      BY <1>1, <3>1, <3>2
    <3>3. CASE s = p
      BY <1>1, <1>2, <3>1, <3>3 DEF Proc
    <3> QED
      BY <3>1, <3>2, <3>3
  <2>3. CASE Timeout(p)
    <3> DEFINE b == IF use.timeout = "reuse" THEN proc[p].sock ELSE 0
    <3>1. use' = use /\ proc' = [proc EXCEPT ![p].pc = Returned(p), ![p].sock = b]
      BY <2>3 DEF Timeout
    <3> HIDE DEF b
    <3>2. CASE s # p
      BY <1>1, <3>1, <3>2
    <3>3. CASE s = p
      BY <1>1, <1>2, <3>1, <3>3 DEF Proc
    <3> QED
      BY <3>1, <3>2, <3>3
  <2>4. CASE Die(p) \/ WrapperDied(p)
    <3>1. use' = use /\ proc' = [proc EXCEPT ![p].pc = "gone", ![p].req = None]
      BY <2>4 DEF Die, WrapperDied, Gone
    <3>2. CASE s # p
      BY <1>1, <3>1, <3>2
    <3>3. CASE s = p
      BY <1>1, <1>2, <3>1, <3>3 DEF Proc
    <3> QED
      BY <3>1, <3>2, <3>3
  <2>5. CASE CallOther(p) \/ \E m \in Modules : Call(p, m) \/ Down(p, m)
    <3> DEFINE b == Socket(wrap, proc[p].sock)
               k == proc[p].k + 1
    <3>1. use' = use /\ proc' = [proc EXCEPT ![p].pc = "wait", ![p].sock = b, ![p].k = k]
      BY <2>5 DEF Call, Down, CallOther, Calling
    <3> HIDE DEF b, k
    <3>2. CASE s # p
      BY <1>1, <3>1, <3>2
    <3>3. CASE s = p
      BY <1>1, <1>2, <3>1, <3>3 DEF Proc
    <3> QED
      BY <3>1, <3>2, <3>3
  <2>6. ASSUME NEW b, use' = use, proc' = [proc EXCEPT ![p].pc = "register", ![p].reg = b]
        PROVE  proc'[s].pc = "call" => proc[s].pc = "call"
    <3>1. CASE s # p
      BY <1>1, <2>6, <3>1
    <3>2. CASE s = p
      BY <1>1, <2>6, <3>2 DEF Proc
    <3> QED
      BY <3>1, <3>2
  <2>7. CASE Start(p)
    BY <2>6, <2>7 DEF Start, Enroll
  <2>8. CASE Registered(p)
    <3>1. CASE link[proc[p].reg].down = <<Ok>>
      <4>1. use' = use /\ proc' = [proc EXCEPT ![p].pc = "loop"]
        BY <2>8, <3>1 DEF Registered
      <4> QED
        BY <1>1, <4>1 DEF Proc
    <3>2. CASE link[proc[p].reg].down # <<Ok>>
      BY <2>6, <2>8, <3>2 DEF Registered, Enroll
    <3> QED
      BY <3>1, <3>2
  <2>9. CASE Reply(p)
    <3>1. use' = use /\ proc' = [proc EXCEPT ![p].pc = "loop", ![p].req = None]
      BY <2>9 DEF Reply
    <3>2. CASE s # p
      BY <1>1, <3>1, <3>2
    <3>3. CASE s = p
      BY <1>1, <1>2, <3>1, <3>3 DEF Proc
    <3> QED
      BY <3>1, <3>2, <3>3
  <2> QED
    BY <2>1, <2>2, <2>3, <2>4, <2>5, <2>7, <2>8, <2>9 DEF Moves
<1> QED
  BY <1>3

LEMMA TakeTurns ==
  ASSUME Inv, NEW p \in Server, Take(p)
  PROVE  Onward'
<1> DEFINE a == IF use.needs[use.module[p]] = None THEN "answer" ELSE "call"
           b == Head(link[proc[p].reg].down)
<1>1. proc \in [Program -> Proc(use)] /\ p \in Program /\ proc[p] \in Proc(use)
  BY DEF Inv, IInv, WGood, Good, Typed, Program
<1>2. use' = use /\ proc' = [proc EXCEPT ![p].req = b, ![p].pc = a]
  BY DEF Take
<1> HIDE DEF b
<1>3. \A s \in Server : proc'[s].pc = IF s = p THEN a ELSE proc[s].pc
  <2> HIDE DEF a
  <2> SUFFICES ASSUME NEW s \in Server PROVE proc'[s].pc = IF s = p THEN a ELSE proc[s].pc
    OBVIOUS
  <2>1. s \in Program
    BY DEF Program
  <2>2. CASE s # p
    BY <1>1, <1>2, <2>1, <2>2
  <2>3. CASE s = p
    <3> DEFINE f == [proc EXCEPT ![p].req = b]
    <3>1. f \in [Program -> [pc : Phase, sock : Nat, reg : Nat, k : Nat, req : {b, None} \cup Message(use)]]
      BY <1>1 DEF Proc
    <3>2. proc' = [f EXCEPT ![p].pc = a]
      BY <1>2
    <3> HIDE DEF f
    <3> QED
      BY <1>1, <2>3, <3>1, <3>2
  <2> QED
    BY <2>2, <2>3
<1> QED
  BY <1>2, <1>3 DEF Inv, Onward

LEMMA NextInv ==
  ASSUME Inv, Disciplined, [Next]_vars
  PROVE  Inv'
<1>1. CASE WrapperNext
  BY <1>1, WrapperSteps
<1>2. ASSUME NEW p \in Program, Moves(p)
      PROVE  Inv'
  <2>1. IInv'
    BY <1>2, ProgramSteps
  <2>2. \A s \in Server : proc'[s].pc = "call" => proc[s].pc = "call" /\ use' = use
    BY <1>2, ProgramTurns
  <2> QED
    BY <2>1, <2>2 DEF Inv, Onward
<1>3. ASSUME NEW p \in Server, Take(p)
      PROVE  Inv'
  <2>1. p \in Program
    BY DEF Program
  <2>2. IInv'
    BY <1>3, <2>1, ProgramSteps
  <2> QED
    BY <1>3, <2>2, TakeTurns DEF Inv
<1>4. CASE ClientNext
  <2>1. PICK c \in Client : \/ \E m \in Modules : Call(c, m) \/ Down(c, m)
                            \/ Receive(c) \/ ReceiveFails(c) \/ Timeout(c) \/ Die(c)
    BY <1>4 DEF ClientNext
  <2>2. c \in Program
    BY DEF Program
  <2> QED
    BY <1>2, <2>1, <2>2 DEF Moves
<1>5. CASE ServerNext
  <2>1. PICK s \in Server : \/ Start(s) \/ Registered(s) \/ Take(s) \/ CallOther(s) \/ Reply(s)
                            \/ WrapperDied(s) \/ Receive(s) \/ ReceiveFails(s) \/ Timeout(s) \/ Die(s)
    BY <1>5 DEF ServerNext
  <2>2. s \in Program
    BY DEF Program
  <2> QED
    BY <1>2, <1>3, <2>1, <2>2 DEF Moves
<1>6. CASE UNCHANGED vars
  BY <1>6 DEF vars, Inv, IInv, Onward
<1> QED
  BY <1>1, <1>4, <1>5, <1>6 DEF Next

-----------------------------------------------------------------------------
(* What the invariant says of the calls.                                    *)

LEMMA Invariance ==
  ASSUME Disciplined
  PROVE  Spec => []Inv
<1>1. Init => Inv
  BY InitInv
<1>2. Inv /\ [Next]_vars => Inv'
  BY NextInv
<1> QED
  BY <1>1, <1>2, PTL DEF Spec

LEMMA BoxLength ==
  ASSUME NEW u, NEW b \in Box(u)
  PROVE  Len(b) = IF b = <<>> THEN 0 ELSE 1
<1>1. CASE b = <<>>
  BY <1>1
<1>2. CASE b # <<>>
  BY <1>2, Boxes
<1> QED
  BY <1>1, <1>2

(* A set of at most one element.                                            *)
LEMMA AtMostOne ==
  ASSUME NEW S, \A a, b \in S : a = b
  PROVE  Cardinality(S) = IF S = {} THEN 0 ELSE 1
<1>1. CASE S = {}
  BY <1>1, FS_EmptySet
<1>2. CASE S # {}
  <2>1. PICK a \in S : TRUE
    BY <1>2
  <2>2. S = {a}
    BY <2>1
  <2> QED
    BY <1>2, <2>2, FS_Singleton
<1> QED
  BY <1>1, <1>2

LEMMA OnePlace ==
  ASSUME Inv
  PROVE  CallInOnePlace
<1> DEFINE l == wrap.link
           q == wrap.queue
<1>1. /\ Good(l, wrap.con, q, proc, use, {}) /\ l \in Seq(Link(use)) /\ link = l
  BY DEF Inv, IInv, WGood, Good, Typed, link
<1> SUFFICES ASSUME NEW p \in Program, NEW i, i = proc[p].sock, i # 0, l[i].state # "closed",
                    proc[p].pc # "gone"
             PROVE  PlacesOf(i) = IF proc[p].pc = "wait" THEN 1 ELSE 0
  BY <1>1 DEF CallInOnePlace
<1> DEFINE Q == {n \in DOMAIN q : q[n].client = i}
           S == {j \in ToSet(wrap.con) : l[j].client = i}
<1>2. i \in DOMAIN l /\ (proc[p].pc = "wait" <=> l[i].up # <<>> \/ l[i].down # <<>> \/ Held(l, q, {}, i))
  BY <1>1 DEF Good, Callers, Caller
<1>3. i \in Nat \ {0} /\ l[i].up \in Box(use) /\ l[i].down \in Box(use)
  BY <1>1, <1>2, Linked
<1>4. Len(l[i].up) = (IF l[i].up = <<>> THEN 0 ELSE 1) /\ Len(l[i].down) = IF l[i].down = <<>> THEN 0 ELSE 1
  BY <1>3, BoxLength
<1>5. l[i].up = <<>> \/ l[i].down = <<>>
  BY <1>1, <1>2 DEF Good, Plain
<1>6. Cardinality(Q) = IF Queued(q, i) THEN 1 ELSE 0
  <2>1. \A m, n \in Q : m = n
    BY <1>1 DEF Good, Holding
  <2>2. Q = {} <=> ~Queued(q, i)
    BY DEF Queued
  <2> HIDE DEF Q
  <2> QED
    BY <2>1, <2>2, AtMostOne
<1>7. Cardinality(S) = IF Served(l, i) THEN 1 ELSE 0
  <2>1. ToSet(wrap.con) = {j \in DOMAIN l : l[j].state = "open"}
    BY <1>1 DEF Good, Listed, ToSet
  <2>2. \A j, k \in S : j = k
    BY <1>1, <1>3, <2>1 DEF Good, Holding
  <2>3. S = {} <=> ~Served(l, i)
    BY <2>1 DEF Served
  <2> HIDE DEF S
  <2> QED
    BY <2>2, <2>3, AtMostOne
<1>8. ~(Queued(q, i) /\ Served(l, i))
  BY <1>1 DEF Good, Holding, Queued
<1>9. Held(l, q, {}, i) <=> Queued(q, i) \/ Served(l, i)
  BY DEF Held
<1>10. Held(l, q, {}, i) => l[i].up = <<>> /\ l[i].down = <<>>
  BY <1>1, <1>3 DEF Good, Holding
<1>11. PlacesOf(i) = Len(l[i].up) + Len(l[i].down) + Cardinality(Q) + Cardinality(S)
  BY <1>1 DEF PlacesOf
<1> HIDE DEF Q, S, l, q
<1> QED
  BY <1>2, <1>4, <1>5, <1>6, <1>7, <1>8, <1>9, <1>10, <1>11

(* A program that waits has its call in exactly one place, one that does    *)
(* not wait has none anywhere: for any number of clients, servers, modules  *)
(* and connections, whoever dies or is disconnected (destruct, forward and  *)
(* findsrv of rpcwrapper.prg).                                              *)
THEOREM EveryCallInOnePlace ==
  ASSUME Disciplined
  PROVE  Spec => []CallInOnePlace
<1>1. Inv => CallInOnePlace
  BY OnePlace
<1>2. Spec => []Inv
  BY Invariance
<1> QED
  BY <1>1, <1>2, PTL

LEMMA Matching ==
  ASSUME Inv
  PROVE  AnswersMatch
<1> DEFINE l == wrap.link
<1>1. /\ Good(l, wrap.con, wrap.queue, proc, use, {}) /\ l \in Seq(Link(use)) /\ link = l
  BY DEF Inv, IInv, WGood, Good, Typed, link
<1> SUFFICES ASSUME NEW p \in Program, proc[p].pc = "wait", NEW n \in DOMAIN link[proc[p].sock].down
             PROVE  LET a == link[proc[p].sock].down[n] IN
                      \/ a.kind = "fault"
                      \/ a.kind = "answer" /\ a.who = p /\ a.k = proc[p].k
  BY DEF AnswersMatch
<1> DEFINE i == proc[p].sock
<1>2. i \in DOMAIN l /\ l[i].who = p
  BY <1>1 DEF Good, Callers, Caller
<1>3. l[i].down \in Box(use) /\ l[i].down # <<>> /\ n \in DOMAIN l[i].down
  BY <1>1, <1>2, Linked
<1>a. i = proc[p].sock
  OBVIOUS
<1> HIDE DEF l, i
<1>4. n = 1
  <2>1. PICK m \in Message(use) : l[i].down = <<m>>
    BY <1>3 DEF Box
  <2>2. n \in DOMAIN <<m>>
    BY <1>3, <2>1
  <2> QED
    BY <2>2
<1>5. l[i].module = None
  BY <1>a, <1>1, <1>2 DEF Good, Services, ServiceOf, Service
<1>6. \/ l[i].down[1].kind = "fault"
      \/ l[i].down[1].kind = "answer" /\ Matches(l, proc, i, l[i].down[1])
  BY <1>1, <1>2, <1>3, <1>5 DEF Good, Downs
<1> QED
  BY <1>1, <1>2, <1>4, <1>6 DEF Matches, i

(* What a waiting program reads is a fault or the answer to the call it     *)
(* waits for, never the answer to an earlier call or to somebody else's     *)
(* (connection.forward of rpcwrapper.prg).                                  *)
THEOREM EveryAnswerMatches ==
  ASSUME Disciplined
  PROVE  Spec => []AnswersMatch
<1>1. Inv => AnswersMatch
  BY Matching
<1>2. Spec => []Inv
  BY Invariance
<1> QED
  BY <1>1, <1>2, PTL

LEMMA Working ==
  ASSUME Inv
  PROVE  BusyServersWork
<1> DEFINE l == wrap.link
<1>1. /\ Good(l, wrap.con, wrap.queue, proc, use, {}) /\ l \in Seq(Link(use)) /\ link = l
      /\ proc \in [Program -> Proc(use)]
  BY DEF Inv, IInv, WGood, Good, Typed, link
<1> SUFFICES ASSUME NEW s \in Server, NEW i, i = proc[s].reg,
                    proc[s].pc \notin {"start", "register", "gone"}, l[i].state = "open"
             PROVE  Len(l[i].down) + Len(l[i].up) + (IF proc[s].req = None THEN 0 ELSE 1)
                      = IF l[i].client = 0 THEN 0 ELSE 1
  BY <1>1 DEF BusyServersWork
<1>2. proc[s].pc \in {"loop"} \cup Busy
  <2>1. s \in Program
    BY DEF Program
  <2>2. proc[s].pc \in Phase
    BY <1>1, <2>1 DEF Proc
  <2>3. proc[s].pc # "idle"
    BY <1>1 DEF Good, Typed
  <2> QED
    BY <2>2, <2>3 DEF Phase, Busy
<1>3. ServesOn(l, proc, s, i, use.module[s])
  BY <1>1 DEF Good, Serves
<1>4. /\ i \in DOMAIN l /\ l[i].module # None
      /\ proc[s].req # None => l[i].up = <<>> /\ l[i].down = <<>>
      /\ l[i].client = 0 => proc[s].req = None
      /\ l[i].client # 0 => l[i].up # <<>> \/ l[i].down # <<>> \/ proc[s].req # None
      /\ l[i].down # <<>> => l[i].down[1].kind = "call"
  BY <1>2, <1>3 DEF ServesOn
<1>5. l[i].up \in Box(use) /\ l[i].down \in Box(use)
  BY <1>1, <1>4, Linked
<1>6. Len(l[i].up) = (IF l[i].up = <<>> THEN 0 ELSE 1) /\ Len(l[i].down) = IF l[i].down = <<>> THEN 0 ELSE 1
  BY <1>5, BoxLength
<1>7. l[i].up = <<>> \/ l[i].down = <<>>
  BY <1>1, <1>4 DEF Good, Plain
<1> HIDE DEF l
<1>8. l[i].up # <<>> => l[i].client # 0
  BY <1>1, <1>4 DEF Good, Ups
<1>9. l[i].down # <<>> => l[i].client # 0
  BY <1>1, <1>4 DEF Good, Downs
<1> QED
  BY <1>4, <1>6, <1>7, <1>8, <1>9

(* A server the wrapper thinks busy has the request, works on it or has     *)
(* answered it, exactly one of the three; one it thinks free has nothing to *)
(* do (connection.forward of rpcwrapper.prg).                               *)
THEOREM EveryBusyServerWorks ==
  ASSUME Disciplined
  PROVE  Spec => []BusyServersWork
<1>1. Inv => BusyServersWork
  BY Working
<1>2. Spec => []Inv
  BY Invariance
<1> QED
  BY <1>1, <1>2, PTL

=============================================================================
