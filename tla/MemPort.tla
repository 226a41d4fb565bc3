------------------------------ MODULE MemPort ------------------------------
(* What a port of the memory system promises to the unit behind it: a      *)
(* store of words that answers one request at a time, in order.  A read is  *)
(* answered with the word last written; cache maintenance (write back,      *)
(* flush) is answered without changing any word.  This is the abstract      *)
(* specification the data cache core implements: where a word lives (a way, *)
(* the write buffer, the backing memory) is none of the requester's         *)
(* business.                                                                *)
EXTENDS Naturals

CONSTANTS
    Addr,       \* word addresses
    Value,      \* the values of a word
    Requests,   \* the requests the unit behind the port can make
    Init0       \* the words at the start: [Addr -> Value]

VARIABLES
    store,      \* store[a]: the word at address a
    req,        \* the request accepted last
    resp        \* its response, Quiet while it has none

vars == <<store, req, resp>>

Quiet == [valid |-> FALSE]
Answer(v) == [valid |-> TRUE, data |-> v]
Done == [valid |-> TRUE]

Idle == [op |-> "none"]

\* The request r is carried out in one step: a read returns the word it
\* finds, a write replaces it, anything else leaves every word alone.
Serve(r) ==
    CASE r.op = "rd"   -> resp' = Answer(store[r.addr]) /\ UNCHANGED store
      [] r.op = "wr"   -> resp' = Done /\ store' = [store EXCEPT ![r.addr] = r.data]
      [] r.op = "none" -> resp' = Quiet /\ UNCHANGED store
      [] OTHER         -> resp' = Done /\ UNCHANGED store

Init ==
    /\ store = Init0
    /\ req = Idle
    /\ resp = Quiet

\* A new request is taken once the one before it has its response.
Free == req.op = "none" \/ resp.valid

Take(r) ==
    /\ Free
    /\ req' = r
    /\ resp' = Quiet
    /\ UNCHANGED store

\* A request that needs no work of the memory behind is answered at once.
TakeAndServe(r) ==
    /\ Free
    /\ req' = r
    /\ Serve(r)

Respond ==
    /\ req.op # "none"
    /\ ~resp.valid
    /\ Serve(req)
    /\ UNCHANGED req

Next ==
    \/ \E r \in Requests : Take(r) \/ TakeAndServe(r)
    \/ Take(Idle)
    \/ Respond

Spec == Init /\ [][Next]_vars
=============================================================================
