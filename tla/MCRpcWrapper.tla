--------------------------- MODULE MCRpcWrapper -----------------------------
(* Model-checking instances of RpcWrapper.                                  *)
EXTENDS RpcWrapper

CONSTANTS c1, c2, s1, s2, ma, mb

Same == [s \in Server |-> ma]
One == [s \in Server |-> IF s = s1 THEN ma ELSE None]
Apart == [s \in Server |-> IF s = s1 THEN ma ELSE mb]
Alone == [m \in {ma, mb} |-> None]
Nested == [m \in {ma, mb} |-> IF m = ma THEN mb ELSE None]
Calls(n) == [c \in Client |-> IF c = c1 THEN n ELSE 1]

Quiet == [module |-> Same, asks |-> [c \in Client |-> {ma}], needs |-> Alone, dies |-> {}, downs |-> {},
          idle |-> FALSE, timeout |-> "never", late |-> FALSE, calls |-> Calls(1)]

(* Two servers of one module, one of which may die or is shut down; one     *)
(* server for several calls, for clients that die or are disconnected, that *)
(* give up; a server that needs another one, which may die.                 *)
MCUses == {
  [Quiet EXCEPT !.dies = {s1}],
  [Quiet EXCEPT !.downs = {c2}],
  [Quiet EXCEPT !.module = One, !.idle = TRUE, !.dies = {c1, s1}, !.calls = Calls(2)],
  [Quiet EXCEPT !.module = One, !.timeout = "close", !.calls = Calls(2)],
  [Quiet EXCEPT !.module = Apart, !.needs = Nested,
                !.asks = [c \in Client |-> IF c = c1 THEN {ma} ELSE {mb}], !.dies = {s2}]}

(* A server registers while its module is called.                           *)
MCLate == {[Quiet EXCEPT !.late = TRUE]}

(* A client goes on with its connection after a timeout.                    *)
MCReuse == {[Quiet EXCEPT !.timeout = "reuse"]}
=============================================================================
