------------------------------ MODULE Requests ------------------------------
(***************************************************************************)
(* What cluster/client.go gets from etcd and its client library: a request *)
(* takes effect only if etcd accepts it, an answer of etcd is true, but an *)
(* answer may be lost and the request sent again.  Cluster is written      *)
(* against this; EtcdClient, the library, implements it.                   *)
(*                                                                         *)
(* Each caller is a goroutine of one process that has a key of its own.    *)
(***************************************************************************)
CONSTANT Caller

VARIABLES
  asked,  \* "idle", the request "get", "create" or "swap", or how it ended:
          \*   "ok", "failed" (etcd said no), "unreachable"
  key     \* the key: "free", written by the caller, which has its index
          \*   ("mine") or not ("lost"), or by another process ("other")

rvars == <<asked, key>>

Request == {"get", "create", "swap"}

RInit ==
  /\ asked = [c \in Caller |-> "idle"]
  /\ key \in [Caller -> {"free", "other"}]

Become(c, a) == asked' = [asked EXCEPT ![c] = a]

\* Get finds a node, Create (prevExist=false) asks for none, CompareAndSwap for
\* one whose index is that of the last answer (prevIndex).
Get(k) == k # "free"
Create(k) == k = "free"
CompareAndSwap(k) == k = "mine"

Grants(request, k) == CASE request = "get" -> Get(k)
                        [] request = "create" -> Create(k)
                        [] request = "swap" -> CompareAndSwap(k)

Ask(c) ==
  /\ asked[c] = "idle"
  /\ \E request \in Request : Become(c, request)
  /\ UNCHANGED key

Serve(c) ==
  /\ asked[c] \in Request /\ Grants(asked[c], key[c])
  /\ key' = [key EXCEPT ![c] = IF asked[c] = "get" THEN @ ELSE "mine"]
  /\ Become(c, "ok")

\* It takes effect, and the library sends it again.
Unanswered(c) ==
  /\ asked[c] \in Request \ {"get"} /\ Grants(asked[c], key[c])
  /\ key' = [key EXCEPT ![c] = "lost"]
  /\ UNCHANGED asked

Refuse(c) ==
  /\ asked[c] \in Request /\ ~ Grants(asked[c], key[c])
  /\ Become(c, "failed")
  /\ UNCHANGED key

GiveUp(c) == asked[c] \in Request /\ Become(c, "unreachable") /\ UNCHANGED key

Return(c) == asked[c] \in {"ok", "failed", "unreachable"} /\ Become(c, "idle") /\ UNCHANGED key

\* The process is over; nobody has the indexes it had.
Forgotten(k) == IF k = "mine" THEN "lost" ELSE k
Exit == asked' = [c \in Caller |-> "idle"] /\ key' = [c \in Caller |-> Forgotten(key[c])]

\* The time to live of the key is over; another process creates it.
Expire(c) == key[c] # "free" /\ key' = [key EXCEPT ![c] = "free"] /\ UNCHANGED asked
Rival(c) == key[c] = "free" /\ key' = [key EXCEPT ![c] = "other"] /\ UNCHANGED asked

RNext ==
  \/ \E c \in Caller :
       \/ Ask(c) \/ Serve(c) \/ Unanswered(c) \/ Refuse(c) \/ GiveUp(c) \/ Return(c)
       \/ Expire(c) \/ Rival(c)
  \/ Exit

RSpec == RInit /\ [][RNext]_rvars
=============================================================================
