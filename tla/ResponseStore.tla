----------------------------- MODULE ResponseStore -----------------------------
(***************************************************************************)
(* What the cache of one process at a time promises (client_cache.h): for  *)
(* each key the response that was stored last, or nothing.                 *)
(*                                                                         *)
(* What the process would answer with and what it would leave to the next  *)
(* one differ only while a call is in progress.  Responses may be lost at  *)
(* any time: they grow old, or make room for others.                       *)
(***************************************************************************)
EXTENDS Integers

CONSTANTS Keys, Response, NULL

VARIABLES
    value,  \* value[k]: the response to k, or NULL
    saved,  \* saved[k]: the response to k that a new process would have
    call,   \* the call in progress, if it is one that changes them
    answer  \* what the last lookup has answered, if that was the last step

vars == <<value, saved, call, answer>>

Idle == [op |-> "none", key |-> NULL]
Nothing == [k \in Keys |-> NULL]

Init == value = Nothing /\ saved = Nothing /\ call = Idle /\ answer = NULL

\* Some of the responses are lost.
Without(responses, lost) ==
    [k \in Keys |-> IF k \in lost THEN NULL ELSE responses[k]]

\* client_cache_get: the answer is the response there is, and is kept; a
\* response that is not answered is gone, for the next process too.
Get(k) ==
    /\ call = Idle
    /\ value' \in {value, Without(value, {k})}
    /\ saved' = value'
    /\ answer' = [key |-> k, data |-> value'[k]]
    /\ UNCHANGED call

\* client_cache_set: k has the new response at once; one other key at most
\* loses its own, for good.
Set(k) ==
    /\ call = Idle
    /\ value'[k] \in Response
    /\ \E e \in Keys :
          /\ value' = [Without(value, {e}) EXCEPT ![k] = value'[k]]
          /\ saved' = Without(saved, {e} \ {k})
    /\ call' = [op |-> "set", key |-> k]
    /\ answer' = NULL

\* client_cache_clear.
Clear ==
    /\ call = Idle
    /\ call' = [op |-> "clear", key |-> NULL]
    /\ answer' = NULL
    /\ UNCHANGED <<value, saved>>

\* A set truncates the file of its key, a clear takes one step after another.
Lose ==
    /\ \/ call.op = "set" /\ saved' = Without(saved, {call.key}) /\ UNCHANGED value
       \/ /\ call.op = "clear"
          /\ \E lost \in SUBSET Keys : saved' = Without(saved, lost)
          /\ \E lost \in SUBSET Keys : value' = Without(value, lost)
    /\ answer' = NULL
    /\ UNCHANGED call

\* When the call returns, the next process would have what this one has, and
\* after a clear that is nothing.
Return ==
    /\ call # Idle
    /\ value' = IF call.op = "clear" THEN Nothing ELSE value
    /\ saved' = value'
    /\ call' = Idle /\ answer' = NULL

\* The process ends, and the next one has what was saved.
Restart ==
    /\ value' = saved
    /\ call' = Idle /\ answer' = NULL
    /\ UNCHANGED saved

\* Time passes.
Wait == answer' = NULL /\ UNCHANGED <<value, saved, call>>

Next ==
    \/ \E k \in Keys : Get(k) \/ Set(k)
    \/ Clear \/ Lose \/ Return \/ Restart \/ Wait

Spec == Init /\ [][Next]_vars
===============================================================================
