------------------------------- MODULE Bridge -------------------------------
(***************************************************************************)
(* The CDP bridge between the Codex page and the launcher                  *)
(* (crates/codex-plus-core/src/bridge.rs), with the watchdog of            *)
(* launcher.rs that installs it again.                                     *)
(*                                                                         *)
(* install_bridge opens a CDP session, takes the next generation number,   *)
(* subscribes to the page's binding, evaluates the bridge script, and then *)
(* publishes its generation.  A published session serves the page's        *)
(* requests in a task of its own until a newer generation is published.    *)
(* A session is named by its generation, 0 stands for none.                *)
(*                                                                         *)
(* The page side is the script of build_bridge_script: a request gets the  *)
(* next sequence number as its id and leaves a callback under that id; a   *)
(* response runs whatever callback its id names.  Chromium tells every     *)
(* session that holds the binding of every call, and runs the new-document *)
(* scripts of every open session when the page reloads.                    *)
(***************************************************************************)
EXTENDS Naturals, Sequences, FiniteSets

CONSTANTS
    Requests,      \* requests the page may issue, each once
    NoAnswer,      \* the page still waits
    Reconnected,   \* settled by a new bridge script: failed, or unknown
    MaxInstalling, \* installations under way at once
    MaxInstalls,   \* bound: installations
    MaxFaults,     \* bound: sessions lost to an error
    MaxReloads     \* bound: page reloads

ASSUME BridgeAssumption ==
    /\ NoAnswer \notin Requests
    /\ Reconnected \notin Requests \cup {NoAnswer}
    /\ MaxInstalling \in Nat /\ MaxInstalls \in Nat
    /\ MaxFaults \in Nat /\ MaxReloads \in Nat

Sessions == 1..MaxInstalls

VARIABLES
    made,       \* generations handed out
    phase,      \* where each session is
    inbox,      \* binding calls each session has still to look at
    running,    \* calls whose handler each session runs
    current,    \* CURRENT_BRIDGE_GENERATIONS for this page
    answers,    \* responses on their way to the page
    document,   \* the page's document, counted by reloads
    scripted,   \* the document has run the bridge script
    seq,        \* window.__codexSessionDeleteSeq
    callbacks,  \* window.__codexSessionDeleteCallbacks
    issued,     \* the document each request was issued in, 0 if none
    answer,     \* what each request was settled with
    handled,    \* history: the sessions that ran a handler for each request
    faults      \* history: sessions lost to an error

launcher == <<made, phase, inbox, running, current>>
page == <<document, scripted, seq, callbacks, issued, answer>>
vars == <<launcher, page, answers, handled, faults>>

Installing == {"connected", "bound", "scripted", "evaluated"}
Phases == {"unused", "serving", "closed"} \cup Installing

Init ==
    /\ made = 0
    /\ phase = [g \in Sessions |-> "unused"]
    /\ inbox = [g \in Sessions |-> << >>]
    /\ running = [g \in Sessions |-> {}]
    /\ current = 0
    /\ answers = {}
    /\ document = 1
    /\ scripted = FALSE
    /\ seq = 0
    /\ callbacks = {}
    /\ issued = [r \in Requests |-> 0]
    /\ answer = [r \in Requests |-> NoAnswer]
    /\ handled = [r \in Requests |-> {}]
    /\ faults = 0

-----------------------------------------------------------------------------
(* install_bridge, one step for each command the session waits for *)

\* The session gets the events of the binding.
Listens(g) == phase[g] \in {"bound", "scripted", "evaluated", "serving"}

\* The session's script runs in every new document.
Registered(g) == phase[g] \in {"scripted", "evaluated", "serving"}

\* No session serves the page.
Dead == current = 0

Waiting(r) == issued[r] = document /\ answer[r] = NoAnswer

Open ==
    /\ made' = made + 1
    /\ phase' = [phase EXCEPT ![made + 1] = "connected"]
    /\ UNCHANGED <<inbox, running, current, page, answers, handled, faults>>

\* The watchdog found the bridge unusable because it is: the page's heartbeat
\* has had no answer for a minute, twice in a row.
Revive ==
    /\ Dead
    /\ \A g \in Sessions : phase[g] \notin Installing
    /\ made < MaxInstalls
    /\ Open

\* The bridge only seemed unusable, or two installations overlap.  The bound
\* leaves one installation for every session that may still be lost.
Reinstall ==
    /\ ~Dead \/ \E g \in Sessions : phase[g] \in Installing
    /\ Cardinality({g \in Sessions : phase[g] \in Installing}) < MaxInstalling
    /\ made + (MaxFaults - faults) < MaxInstalls
    /\ Open

\* Runtime.enable, removeBinding, addBinding
Bind(g) ==
    /\ phase[g] = "connected"
    /\ phase' = [phase EXCEPT ![g] = "bound"]
    /\ UNCHANGED <<made, inbox, running, current, page, answers, handled, faults>>

\* Page.addScriptToEvaluateOnNewDocument
Register(g) ==
    /\ phase[g] = "bound"
    /\ phase' = [phase EXCEPT ![g] = "scripted"]
    /\ UNCHANGED <<made, inbox, running, current, page, answers, handled, faults>>

\* Mutant: the callbacks of the script before are replaced without a word.
EvaluateDropsCallbacks(g) ==
    /\ phase[g] = "scripted"
    /\ phase' = [phase EXCEPT ![g] = "evaluated"]
    /\ scripted' = TRUE
    /\ callbacks' = {}
    /\ UNCHANGED <<made, inbox, running, current, document, seq, issued, answer,
                   answers, handled, faults>>

\* Mutant: the script starts its sequence again.
EvaluateResetsSeq(g) ==
    /\ phase[g] = "scripted"
    /\ phase' = [phase EXCEPT ![g] = "evaluated"]
    /\ scripted' = TRUE
    /\ answer' = [r \in Requests |->
                    IF \E c \in callbacks : c.req = r THEN Reconnected ELSE answer[r]]
    /\ callbacks' = {}
    /\ seq' = 0
    /\ UNCHANGED <<made, inbox, running, current, document, issued, answers,
                   handled, faults>>

\* Runtime.evaluate of the bridge script: every callback there is gets settled,
\* and the sequence goes on from where it was.
Evaluate(g) ==
    /\ phase[g] = "scripted"
    /\ phase' = [phase EXCEPT ![g] = "evaluated"]
    /\ scripted' = TRUE
    /\ answer' = [r \in Requests |->
                    IF \E c \in callbacks : c.req = r THEN Reconnected ELSE answer[r]]
    /\ callbacks' = {}
    /\ UNCHANGED <<made, inbox, running, current, document, seq, issued,
                   answers, handled, faults>>

\* A command failed or its reply did not come in time: the session is dropped.
InstallFail(g) ==
    /\ phase[g] \in Installing
    /\ faults < MaxFaults
    /\ faults' = faults + 1
    /\ phase' = [phase EXCEPT ![g] = "closed"]
    /\ inbox' = [inbox EXCEPT ![g] = << >>]
    /\ UNCHANGED <<made, running, current, page, answers, handled>>

\* Mutant: whoever publishes last is current.
PublishUnchecked(g) ==
    /\ phase[g] = "evaluated"
    /\ current' = g
    /\ phase' = [phase EXCEPT ![g] = "serving"]
    /\ UNCHANGED <<made, inbox, running, page, answers, handled, faults>>

\* publish_bridge_generation, and the close of a session that came too late.
Publish(g) ==
    /\ phase[g] = "evaluated"
    /\ \/ /\ current <= g
          /\ current' = g
          /\ phase' = [phase EXCEPT ![g] = "serving"]
          /\ UNCHANGED inbox
       \/ /\ current > g
          /\ phase' = [phase EXCEPT ![g] = "closed"]
          /\ inbox' = [inbox EXCEPT ![g] = << >>]
          /\ UNCHANGED current
    /\ UNCHANGED <<made, running, page, answers, handled, faults>>

-----------------------------------------------------------------------------
(* The task of a published session *)

\* Whatever the session had not finished is dropped with it, and its
\* generation is released if it is still the current one.
Close(g) ==
    /\ phase' = [phase EXCEPT ![g] = "closed"]
    /\ inbox' = [inbox EXCEPT ![g] = << >>]
    /\ running' = [running EXCEPT ![g] = {}]
    /\ current' = IF current = g THEN 0 ELSE current

\* enqueue_binding_call starts the handler of a call.
Take(g) ==
    /\ phase[g] = "serving"
    /\ current = g
    /\ inbox[g] # << >>
    /\ LET call == Head(inbox[g])
       IN  /\ running' = [running EXCEPT ![g] = @ \cup {call}]
           /\ handled' = [handled EXCEPT ![call.req] = @ \cup {g}]
    /\ inbox' = [inbox EXCEPT ![g] = Tail(@)]
    /\ UNCHANGED <<made, phase, current, page, answers, faults>>

\* Mutant: a handler that fails is not reported to the page.
FinishWithoutReject(g) ==
    /\ phase[g] = "serving"
    /\ \E call \in running[g] :
        /\ running' = [running EXCEPT ![g] = @ \ {call}]
        /\ answers' \in {answers} \cup
              {answers \cup {[id |-> call.id, req |-> call.req, by |-> g]}}
    /\ UNCHANGED <<made, phase, inbox, current, page, handled, faults>>

\* finish_binding_call: the result, or the handler's error, goes to the page.
Finish(g) ==
    /\ phase[g] = "serving"
    /\ \E call \in running[g] :
        /\ running' = [running EXCEPT ![g] = @ \ {call}]
        /\ answers' = IF current = g
                      THEN answers \cup {[id |-> call.id, req |-> call.req, by |-> g]}
                      ELSE answers
    /\ UNCHANGED <<made, phase, inbox, current, page, handled, faults>>

\* The next turn of the loop of a session that is no longer current.
Supersede(g) ==
    /\ phase[g] = "serving"
    /\ current # g
    /\ Close(g)
    /\ UNCHANGED <<made, page, answers, handled, faults>>

\* Mutant: the generation of a broken session is not released.
BreakKeepsGeneration(g) ==
    /\ phase[g] = "serving"
    /\ faults < MaxFaults
    /\ faults' = faults + 1
    /\ phase' = [phase EXCEPT ![g] = "closed"]
    /\ inbox' = [inbox EXCEPT ![g] = << >>]
    /\ running' = [running EXCEPT ![g] = {}]
    /\ answers' \in {answers \ lost : lost \in SUBSET {a \in answers : a.by = g}}
    /\ UNCHANGED <<made, current, page, handled>>

\* The socket broke, perhaps with responses still in it.
Break(g) ==
    /\ phase[g] = "serving"
    /\ faults < MaxFaults
    /\ faults' = faults + 1
    /\ Close(g)
    /\ answers' \in {answers \ lost : lost \in SUBSET {a \in answers : a.by = g}}
    /\ UNCHANGED <<made, page, handled>>

-----------------------------------------------------------------------------
(* The page *)

\* __codexSessionDeleteBridge
Issue(r) ==
    /\ scripted
    /\ issued[r] = 0
    /\ issued' = [issued EXCEPT ![r] = document]
    /\ seq' = seq + 1
    /\ callbacks' = callbacks \cup {[id |-> seq + 1, req |-> r]}
    /\ inbox' = [g \in Sessions |->
                    IF Listens(g) THEN Append(inbox[g], [id |-> seq + 1, req |-> r])
                                  ELSE inbox[g]]
    /\ UNCHANGED <<made, phase, running, current, document, scripted, answer,
                   answers, handled, faults>>

\* Mutant: a callback that has run stays in the table.
DeliverKeepsCallback(a) ==
    /\ answers' = answers \ {a}
    /\ answer' = [r \in Requests |->
                    IF \E c \in callbacks : scripted /\ c.id = a.id /\ c.req = r
                    THEN a.req ELSE answer[r]]
    /\ UNCHANGED <<launcher, document, scripted, seq, callbacks, issued, handled,
                   faults>>

\* __codexSessionDeleteResolve and ...Reject, in whatever document is there.
Deliver(a) ==
    /\ answers' = answers \ {a}
    /\ LET named == {c \in callbacks : scripted /\ c.id = a.id}
       IN  /\ callbacks' = callbacks \ named
           /\ answer' = [r \in Requests |->
                            IF \E c \in named : c.req = r THEN a.req ELSE answer[r]]
    /\ UNCHANGED <<launcher, document, scripted, seq, issued, handled, faults>>

Reload ==
    /\ document <= MaxReloads
    /\ document' = document + 1
    /\ scripted' = (\E g \in Sessions : Registered(g))
    /\ seq' = 0
    /\ callbacks' = {}
    /\ UNCHANGED <<launcher, issued, answer, answers, handled, faults>>

-----------------------------------------------------------------------------
Install(g) == Bind(g) \/ Register(g) \/ Evaluate(g) \/ Publish(g)

Next ==
    \/ Revive \/ Reinstall
    \/ \E g \in Sessions :
        \/ Install(g) \/ InstallFail(g)
        \/ Take(g) \/ Finish(g) \/ Supersede(g) \/ Break(g)
    \/ \E r \in Requests : Issue(r)
    \/ \E a \in answers : Deliver(a)
    \/ Reload

Spec == Init /\ [][Next]_vars

\* The watchdog looks every few seconds, the launcher's runtime polls every
\* task that can go on, a handler returns, the page runs what it is sent.
Fairness ==
    /\ WF_vars(Revive)
    /\ \A g \in Sessions :
        WF_vars(Install(g)) /\ WF_vars(Take(g)) /\ WF_vars(Finish(g))
    /\ WF_vars(\E a \in answers : Deliver(a))

FairSpec == Spec /\ Fairness

-----------------------------------------------------------------------------
Call == [id : Nat, req : Requests]

\* Every variable has its type, and the current generation is that of a session
\* that serves, so that a page without a session is seen to have none.
TypeOK ==
    /\ made \in 0..MaxInstalls
    /\ phase \in [Sessions -> Phases]
    /\ inbox \in [Sessions -> Seq(Call)]
    /\ running \in [Sessions -> SUBSET Call]
    /\ current \in {0} \cup Sessions
    /\ current # 0 => phase[current] = "serving"
    /\ answers \subseteq [id : Nat, req : Requests, by : Sessions]
    /\ document \in Nat /\ seq \in Nat /\ faults \in Nat
    /\ scripted \in BOOLEAN
    /\ callbacks \subseteq Call
    /\ issued \in [Requests -> Nat]
    /\ answer \in [Requests -> Requests \cup {NoAnswer, Reconnected}]
    /\ handled \in [Requests -> SUBSET Sessions]

\* A new script goes on with the old one's sequence, so that a late response
\* never reaches another request of the same document.
AnswersStayApart ==
    \A r \in Requests :
        answer[r] \in Requests \ {r} => issued[answer[r]] # issued[r]

\* An overtaken session stays overtaken: one that installed slowly does not take
\* the page from a newer one, and one that has not yet noticed that another is
\* current is never current again, also when that other breaks.
NewestServes ==
    [][\A g \in Sessions : current' = g =>
          /\ g >= current
          /\ phase[g] = "serving" => current = g]_vars

Holds(g, r) ==
    \/ \E i \in DOMAIN inbox[g] : inbox[g][i].req = r
    \/ \E call \in running[g] : call.req = r

\* No request falls between two sessions: while a session serves the page, what
\* the page waits for is with that session or on its way back, however the
\* bridge was installed again in between.
NoRequestLost ==
    \A r \in Requests : Waiting(r) =>
        /\ \E c \in callbacks : c.req = r
        /\ ~Dead => Holds(current, r) \/ \E a \in answers : a.req = r

\* bridge.rs:97-98, "the caller's promise stays pending for ever" is over:
\* what the page waits for is settled, or the page is gone.
EveryRequestSettles == \A r \in Requests : Waiting(r) ~> ~Waiting(r)

\* The page's view of the bridge.
Port == INSTANCE RequestPort
        WITH asked <- issued, ran <- {r \in Requests : handled[r] # {}}

\* Whatever sessions come and go, the page sees a port: no request is settled
\* twice, before it ran, or from another document than its own.
ImplementsPort == Port!Spec

-----------------------------------------------------------------------------
\* bridge.rs:33-34, the old session leaves so that not "several CDP sessions
\* answer the same page request".
OneSessionPerRequest == \A r \in Requests : Cardinality(handled[r]) <= 1

\* bridge.rs:116-117, the sequence is kept so that no response is "handed to a
\* new request as somebody else's result".
AnswersBelong == \A r \in Requests : answer[r] \in Requests => answer[r] = r
=============================================================================
