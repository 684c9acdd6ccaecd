--------------------------- MODULE HostRequests ---------------------------
(***************************************************************************)
(* The asynchronous service requests of one hosted call: the context that  *)
(* registers them (tools/hosting/src/context.cpp) and the mailbox each of  *)
(* them shares with its provider (request.hpp, request.cpp).               *)
(*                                                                         *)
(* The thread of the session launches, consumes and cancels requests; the  *)
(* provider answers from any thread.  Every action is one critical section *)
(* of a mailbox or code of the session's thread between two of them: the   *)
(* start callback of a request runs before its cancel hook is installed,   *)
(* and a hook is called after the mutex was released.  Both callbacks may  *)
(* cancel the call they belong to.                                         *)
(***************************************************************************)
EXTENDS Naturals, Sequences

CONSTANTS
    Requests,   \* HostRequestState objects, in any order of launching
    Hooked,     \* the requests whose provider registered a cancel hook
    Answers,    \* what a provider may respond
    Nothing

ASSUME HookedAssumption == Hooked \subseteq Requests
ASSUME NothingAssumption == Nothing \notin Requests \cup Answers

VARIABLES
    phase,      \* HostRequestState::phase, "New" before the launch
    reachable,  \* the requests whose HostRequestState::context is not null
    hook,       \* the requests whose cancel_hook is installed
    response,   \* HostRequestValue::response
    registered, \* HostCallContextState::requests, in any order
    cancelled,  \* HostCallContextState::cancelled
    stoppedError, \* HostCallContextState::stopped_error is set
    launching,  \* attach(): the request whose start callback runs
    detaching,  \* cancel(context): what is left of its loop
    calling,    \* HostRequestState::cancel: the hook that was taken out
    hooked,     \* history: the requests whose hook was installed
    called,     \* history: how often each hook was called
    accepted,   \* history: the answers respond() returned true for
    delivered   \* history: the answers consume() returned

box == <<phase, reachable, hook, response>>
context == <<registered, cancelled, stoppedError>>
thread == <<launching, detaching, calling>>
history == <<hooked, called, accepted, delivered>>
requestVars == <<box, context, thread, history>>

Attached == {r \in Requests : phase[r] \in {"Pending", "Ready"}}

\* The session's thread is not inside a cancellation.
Free == detaching = {} /\ calling = Nothing

\* It runs ordinary code of the call.
Executing == Free /\ launching = Nothing

-----------------------------------------------------------------------------
RequestsInit ==
    /\ phase = [r \in Requests |-> "New"]
    /\ reachable = {} /\ hook = {}
    /\ response = [r \in Requests |-> Nothing]
    /\ registered = {} /\ cancelled = FALSE /\ stoppedError = FALSE
    /\ launching = Nothing /\ detaching = {} /\ calling = Nothing
    /\ hooked = {}
    /\ called = [r \in Requests |-> 0]
    /\ accepted = [r \in Requests |-> <<>>]
    /\ delivered = [r \in Requests |-> <<>>]

-----------------------------------------------------------------------------
(* HostContextAccess::attach.                                               *)

\* Mutant: the sweep of finished requests also loses those with an answer.
AttachForgetting(r) ==
    /\ Executing /\ ~stoppedError /\ ~cancelled /\ phase[r] = "New"
    /\ phase' = [phase EXCEPT ![r] = "Pending"]
    /\ reachable' = reachable \cup {r}
    /\ registered' = {q \in registered : phase[q] = "Pending"} \cup {r}
    /\ launching' = r
    /\ UNCHANGED <<hook, response, cancelled, stoppedError, detaching, calling, history>>

\* The request is registered and its start callback is called.  In a stopped
\* or cancelled context nothing happens.
Attach(r) ==
    /\ Executing /\ ~stoppedError /\ ~cancelled /\ phase[r] = "New"
    /\ phase' = [phase EXCEPT ![r] = "Pending"]
    /\ reachable' = reachable \cup {r}
    /\ registered' = (registered \cap Attached) \cup {r}
    /\ launching' = r
    /\ UNCHANGED <<hook, response, cancelled, stoppedError, detaching, calling, history>>

InstallHook(r) == r \in Hooked /\ r \in Attached

\* The start callback has returned.
Launched ==
    /\ Free /\ launching # Nothing
    /\ IF InstallHook(launching)
       THEN hook' = hook \cup {launching} /\ hooked' = hooked \cup {launching}
       ELSE UNCHANGED <<hook, hooked>>
    /\ launching' = Nothing
    /\ UNCHANGED <<phase, reachable, response, context, detaching, calling, called, accepted,
                   delivered>>

-----------------------------------------------------------------------------
(* HostRequest, on any thread.                                              *)

\* respond() returns true; late and duplicate answers change nothing.
Respond(r, a) ==
    /\ phase[r] = "Pending"
    /\ response' = [response EXCEPT ![r] = a]
    /\ phase' = [phase EXCEPT ![r] = "Ready"]
    /\ accepted' = [accepted EXCEPT ![r] = Append(@, a)]
    /\ UNCHANGED <<reachable, hook, context, thread, hooked, called, delivered>>

-----------------------------------------------------------------------------
(* HostRequestState::cancel.                                                *)

\* The critical section: it takes the hook and the recipient out.
Detach(r) ==
    IF r \in Attached
    THEN /\ phase' = [phase EXCEPT ![r] = "Cancelled"]
         /\ response' = [response EXCEPT ![r] = Nothing]
         /\ reachable' = reachable \ {r} /\ hook' = hook \ {r}
         /\ calling' = IF r \in hook THEN r ELSE Nothing
    ELSE UNCHANGED <<box, calling>>

\* The hook runs, without the mutex.
CallHook ==
    /\ calling # Nothing
    /\ called' = [called EXCEPT ![calling] = @ + 1]
    /\ calling' = Nothing
    /\ UNCHANGED <<box, context, launching, detaching, hooked, accepted, delivered>>

\* HostPendingRequest::cancel or its destruction, by the code of the call.
CancelReceiver(r) ==
    /\ Executing /\ r \in Attached
    /\ Detach(r)
    /\ UNCHANGED <<context, launching, detaching, history>>

\* HostContextAccess::cancel: the call is cancelled, stopped or finished, also
\* from the start callback or a hook of one of its requests.
CancelContext ==
    /\ Free /\ ~cancelled
    /\ cancelled' = TRUE
    /\ detaching' = registered
    /\ registered' = {}
    /\ UNCHANGED <<box, stoppedError, launching, calling, history>>

\* One turn of its loop.
DetachNext(r) ==
    /\ calling = Nothing /\ r \in detaching
    /\ Detach(r)
    /\ detaching' = detaching \ {r}
    /\ UNCHANGED <<context, launching, history>>

-----------------------------------------------------------------------------
\* consume() returns an answer; a malformed one stops the call.
Consume(r, stops) ==
    /\ Executing /\ phase[r] = "Ready"
    /\ phase' = [phase EXCEPT ![r] = "Consumed"]
    /\ reachable' = reachable \ {r} /\ hook' = hook \ {r}
    /\ response' = [response EXCEPT ![r] = Nothing]
    /\ delivered' = [delivered EXCEPT ![r] = Append(@, response[r])]
    /\ stoppedError' = (stoppedError \/ stops)
    /\ UNCHANGED <<registered, cancelled, thread, hooked, called, accepted>>

RequestsNext ==
    \/ \E r \in Requests : Attach(r) \/ CancelReceiver(r) \/ DetachNext(r)
    \/ \E r \in Requests, a \in Answers : Respond(r, a)
    \/ \E r \in Requests, stops \in BOOLEAN : Consume(r, stops)
    \/ Launched \/ CallHook \/ CancelContext

RequestsSpec == RequestsInit /\ [][RequestsNext]_requestVars

-----------------------------------------------------------------------------
(* Properties.                                                              *)

\* The types of the variables.
RequestsTypeOK ==
    /\ phase \in [Requests -> {"New", "Pending", "Ready", "Consumed", "Cancelled"}]
    /\ reachable \subseteq Requests /\ hook \subseteq Hooked
    /\ response \in [Requests -> Answers \cup {Nothing}]
    /\ registered \subseteq Requests
    /\ cancelled \in BOOLEAN /\ stoppedError \in BOOLEAN
    /\ launching \in Requests \cup {Nothing}
    /\ detaching \subseteq Requests
    /\ calling \in Requests \cup {Nothing}
    /\ hooked \subseteq Hooked
    /\ called \in [Requests -> Nat]
    /\ accepted \in [Requests -> Seq(Answers)] /\ delivered \in [Requests -> Seq(Answers)]

\* The cancel hook of a request is called at most once, only after the
\* request was cancelled, and never for a request whose answer was consumed.
HookAtMostOnce ==
    \A r \in Requests :
        /\ called[r] <= 1
        /\ called[r] = 1 \/ calling = r => phase[r] = "Cancelled"

\* A provider with a hook learns of the cancellation, whether the receiver,
\* the call or another callback cancels its request: outside its launch an
\* attached request has its hook (attach), and an installed hook of a cancelled
\* one was called or is about to be (HostRequestState::cancel).
HookNotLost ==
    /\ \A r \in Hooked \cap Attached : r = launching \/ r \in hook
    /\ \A r \in hooked : phase[r] = "Cancelled" => called[r] = 1 \/ calling = r

\* Of all the answers of a provider at most one is accepted and at most one
\* delivered, and they are the same; an accepted answer is only ever lost to
\* a cancellation.
OneAnswer ==
    \A r \in Requests :
        /\ Len(accepted[r]) <= 1 /\ Len(delivered[r]) <= 1
        /\ delivered[r] \in {<<>>, accepted[r]}
        /\ accepted[r] # delivered[r] => phase[r] \in {"Ready", "Cancelled"}

\* Closing the scope of a call detaches every request it ever launched, also
\* one whose start callback is still running and one with an answer nobody
\* consumed: none of them reaches its provider afterwards.
ScopeClosed ==
    cancelled => Attached \subseteq detaching

\* What a provider may rely on: its hook, once the launch has installed it, is
\* called for a request that is cancelled, once and never lost, and nothing of
\* a call that has closed reaches it.
ProviderContract == HookAtMostOnce /\ HookNotLost /\ ScopeClosed

\* A detached request can reach neither its provider nor a hook, and holds
\* no answer.
Unreachable ==
    \A r \in Requests \ Attached : r \notin reachable /\ r \notin hook /\ response[r] = Nothing
============================================================================
